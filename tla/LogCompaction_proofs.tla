------------------------ MODULE LogCompaction_proofs ------------------------
(***************************************************************************)
(* Theorems of LogCompaction: what compaction removes is applied, a        *)
(* checkpoint can be started from, which assertions fail, and that a       *)
(* request for a checkpoint is answered.                                   *)
(*                                                                         *)
(* The entries of every store that a crash may leave are an interval that  *)
(* begins at or before the entry after the last applied one.  The record   *)
(* of the last applied entry may be one entry behind ri_last_applied, and  *)
(* compaction keeps at least one entry before rla_synced_idx.              *)
(***************************************************************************)
EXTENDS LogCompaction, FiniteSetTheorems, TLAPS

(***************************************************************************)
(* The inductive invariant.                                                *)
(***************************************************************************)

\* The stores, and the locals of the checkpoint thread
Store  == [ents : SUBSET Int, idx : Int, syn : Int]
Locals == [reap : BOOLEAN, idx : Int, st : Store, rc : {"none", "EIO"}]

\* Where the threads are
Labels ==
  {"idle", "apply", "register", "read", "wait", "left", "sync",
   "take", "create", "rename", "cleanup", "last", "reap", "delete"}

\* ri_last_chkpt_err
Errors == {"none", "EALREADY", "ENOMEM", "EIO", "ETIMEDOUT"}

\* The types, for every bound
TypeOK ==
  /\ wal \in Seq(Store) /\ Len(wal) >= 1
  /\ unsync \in Int /\ sync \in Int
  /\ rla_idx \in Int /\ rla_synced_idx \in Int
  /\ ri_lowest_idx \in Int /\ ri_pending_read_idx \in Int /\ rd \in Int
  /\ ri_checkpoint_last_idx \in Int
  /\ ri_user_requested_checkpoint \in BOOLEAN
  /\ pc \in [Thread -> Labels]
  /\ ck \in Locals
  /\ snap \in [applied : Int, unsync : Int]
  /\ wait \in [old : Int, asked : Int, result : Errors \cup {"ok"}]
  /\ ri_last_chkpt_err \in Errors
  /\ restarted \in BOOLEAN

\* The log E is lo..hi, or empty.
Bounds(E, lo, hi) ==
  /\ lo \in Nat /\ hi \in Int /\ E = lo..hi
  /\ lo <= hi \/ (lo = 0 /\ hi = -1)

\* What a crash may leave: nothing that is to be applied is missing.
GoodStore(w) ==
  /\ -1 <= w.syn /\ w.syn <= w.idx
  /\ \E lo, hi \in Int :
       Bounds(w.ents, lo, hi) /\ lo <= w.idx + 1 /\ w.idx <= hi

\* Whatever store a crash leaves is one to start from.
StoresGood == \A n \in 1..Len(wal) : GoodStore(wal[n])

\* The record is written after rla_idx is raised.
Lag == IF pc["main"] = "apply" THEN 1 ELSE 0

\* The current store and what the threads know of it
CurrentStore ==
  /\ rla_idx = store.idx + Lag
  /\ -1 <= rla_synced_idx /\ rla_synced_idx <= rla_idx
  /\ rla_idx <= sync /\ sync <= unsync
  /\ \E lo \in Int : /\ Bounds(store.ents, lo, unsync)
                     /\ lo <= 0 \/ lo <= ri_lowest_idx
                     /\ lo <= store.idx + 1

\* What the sync thread has copied is not behind and not ahead.
SyncLocals ==
  pc["sync"] = "sync" =>
    /\ snap.applied <= rla_idx
    /\ sync <= snap.unsync /\ snap.unsync <= unsync

\* A registered read keeps the compaction behind it.
ReadSafe ==
  /\ pc["main"] # "read" => ri_pending_read_idx = -1
  /\ pc["main"] \in {"register", "read"} => 0 <= rd /\ rd <= unsync
  /\ pc["main"] = "read" => ri_pending_read_idx = rd /\ ri_lowest_idx <= rd

\* last is the newest of the checkpoints D, or there are none.
Newest(last, D) ==
  \/ D = {} /\ last = -1
  \/ last \in D /\ \A k \in D : k <= last

\* A checkpoint is being taken; its directory has been renamed, or not.
Taking == {"take", "create", "rename", "cleanup", "last"}
Copied == {"cleanup", "last"}

\* A directory with index i can be started from.
GoodCheckpoint(st, i) ==
  /\ st.idx \in Int /\ i - 1 <= st.idx
  /\ \E lo, hi \in Int :
       Bounds(st.ents, lo, hi) /\ lo <= st.idx + 1 /\ i <= hi

\* The index of the new checkpoint is synced and beyond the last one.
TakeLocals ==
  /\ pc["chkpt"] \in Taking =>
       0 <= rla_synced_idx /\ ri_checkpoint_last_idx <= rla_synced_idx
  /\ pc["chkpt"] \in Taking \ {"take"} =>
       /\ 0 <= ck.idx /\ ck.idx <= rla_synced_idx
       /\ ri_checkpoint_last_idx < ck.idx
  /\ pc["chkpt"] \in Taking \ Copied => ck.rc = "none"
  /\ pc["chkpt"] = "rename" => GoodCheckpoint(ck.st, ck.idx)

\* The new directory is there and not advertised yet.
Pending == pc["chkpt"] \in Copied /\ ck.rc = "none"

\* The advertised checkpoint is the newest one.
Directories ==
  /\ DOMAIN chkpts \subseteq Nat /\ IsFiniteSet(DOMAIN chkpts)
  /\ \A i \in DOMAIN chkpts : GoodCheckpoint(chkpts[i], i)
  /\ IF Pending
     THEN /\ ck.idx \in DOMAIN chkpts
          /\ Newest(ri_checkpoint_last_idx, DOMAIN chkpts \ {ck.idx})
     ELSE Newest(ri_checkpoint_last_idx, DOMAIN chkpts)

\* What is about to be deleted is applied by the record.
ReapLocals ==
  pc["chkpt"] = "delete" =>
    0 < ck.idx /\ ck.idx <= store.idx /\ ck.idx = ri_lowest_idx

\* Before the first restart rla_synced_idx has never gone back.
NoneBehind ==
  ~restarted =>
    /\ ri_checkpoint_last_idx <= rla_synced_idx
    /\ ri_lowest_idx <= 0 \/ ri_lowest_idx <= rla_synced_idx

\* A request that waits is noted, answered or being worked on.
Answered ==
  pc["main"] = "wait" =>
    /\ wait.old <= ri_checkpoint_last_idx
    /\ wait.asked <= rla_synced_idx
    /\ \/ wait.asked < 0 \/ ri_user_requested_checkpoint \/ PriorAnswered
       \/ pc["chkpt"] \in Taking

\* The invariant
IndInv ==
  /\ TypeOK /\ StoresGood /\ CurrentStore /\ SyncLocals /\ ReadSafe
  /\ TakeLocals /\ Directories /\ ReapLocals /\ NoneBehind /\ Answered
  /\ AbortsExplained

(***************************************************************************)
(* Operators of the model.                                                 *)
(***************************************************************************)

\* The larger and the smaller of two indexes (MAX and MIN of the code)
LEMMA MaxOfTwo ==
  ASSUME NEW a \in Int, NEW b \in Int
  PROVE  Max({a, b}) = IF a >= b THEN a ELSE b
<1> DEFINE m == IF a >= b THEN a ELSE b
<1>1. m \in {a, b} /\ \A y \in {a, b} : m >= y
  OBVIOUS
<1>2. \A x \in {a, b} : (\A y \in {a, b} : x >= y) => x = m
  OBVIOUS
<1> HIDE DEF m
<1>3. (CHOOSE x \in {a, b} : \A y \in {a, b} : x >= y) = m
  BY <1>1, <1>2
<1> QED
  BY <1>3 DEF Max, m

\* The same of the smaller one
LEMMA MinOfTwo ==
  ASSUME NEW a \in Int, NEW b \in Int
  PROVE  Min({a, b}) = IF a <= b THEN a ELSE b
<1> DEFINE m == IF a <= b THEN a ELSE b
<1>1. m \in {a, b} /\ \A y \in {a, b} : m <= y
  OBVIOUS
<1>2. \A x \in {a, b} : (\A y \in {a, b} : x <= y) => x = m
  OBVIOUS
<1> HIDE DEF m
<1>3. (CHOOSE x \in {a, b} : \A y \in {a, b} : x <= y) = m
  BY <1>1, <1>2
<1> QED
  BY <1>3 DEF Min, m

\* A largest element is the one that Highest() finds.
LEMMA HighestIs ==
  ASSUME NEW S \in SUBSET Int, NEW m \in S, \A y \in S : y <= m
  PROVE  Highest(S) = m
<1>1. \A x \in S : (\A y \in S : x >= y) => x = m
  OBVIOUS
<1>2. \A y \in S : m >= y
  OBVIOUS
<1>3. (CHOOSE x \in S : \A y \in S : x >= y) = m
  BY <1>1, <1>2
<1> QED
  BY <1>3 DEF Highest, Max

\* A smallest element is the one that rsbr_lowest_entry_get() finds.
LEMMA LowestIs ==
  ASSUME NEW S \in SUBSET Int, NEW m \in S, \A y \in S : m <= y
  PROVE  LowestEntry(S) = m
<1>1. \A x \in S : (\A y \in S : x <= y) => x = m
  OBVIOUS
<1>3. (CHOOSE x \in S : \A y \in S : x <= y) = m
  BY <1>1
<1> QED
  BY <1>3 DEF LowestEntry, Min

\* The ends of a log
LEMMA BoundsEnds ==
  ASSUME NEW E, NEW lo, NEW hi, Bounds(E, lo, hi)
  PROVE  /\ Highest(E) = hi
         /\ LowestEntry(E) = IF hi = -1 THEN -1 ELSE lo
<1>1. CASE lo <= hi
  <2>1. lo \in E /\ hi \in E /\ E \in SUBSET Int
    BY <1>1 DEF Bounds
  <2>2. \A y \in E : lo <= y /\ y <= hi
    BY DEF Bounds
  <2>3. Highest(E) = hi
    BY <2>1, <2>2, HighestIs
  <2>4. LowestEntry(E) = lo
    BY <2>1, <2>2, LowestIs
  <2>5. hi # -1
    BY <1>1 DEF Bounds
  <2> QED
    BY <2>3, <2>4, <2>5
<1>2. CASE lo = 0 /\ hi = -1
  BY <1>2 DEF Bounds, Highest, LowestEntry
<1> QED
  BY <1>1, <1>2 DEF Bounds

\* Newest() names what Highest() finds among the checkpoints.
LEMMA NewestIs ==
  ASSUME NEW last, NEW D \in SUBSET Nat, Newest(last, D)
  PROVE  Highest(D) = last
<1>1. CASE D = {}
  BY <1>1 DEF Newest, Highest
<1>2. CASE D # {}
  <2>1. last \in D /\ \A k \in D : k <= last
    BY <1>2 DEF Newest
  <2>2. D \in SUBSET Int
    OBVIOUS
  <2> QED
    BY <2>1, <2>2, HighestIs
<1> QED
  BY <1>1, <1>2

\* The tunables, after raft_server_set_max_scan_entries() and its like
LEMMA Tunables ==
  num_keep_entries \in Int /\ ri_max_scan_entries \in Int
  /\ ri_num_checkpoints \in Int /\ 2 <= ri_num_checkpoints
<1>1. ri_max_scan_entries \in Int
  BY TunableAssumption, MaxOfTwo DEF ri_max_scan_entries
<1>2. ri_log_reap_factor \in Int
  BY TunableAssumption, MinOfTwo DEF ri_log_reap_factor
<1>3. Max({ChkptMin, NumCheckpoints}) \in Int
      /\ 2 <= Max({ChkptMin, NumCheckpoints})
  BY TunableAssumption, MaxOfTwo
<1>4. ri_num_checkpoints \in Int /\ 2 <= ri_num_checkpoints
  BY <1>3, TunableAssumption, MinOfTwo DEF ri_num_checkpoints
<1> QED
  BY <1>1, <1>2, <1>4 DEF num_keep_entries

\* The newest of the checkpoints and the one before it are kept.
LEMMA KeptNewest ==
  ASSUME NEW c, NEW j \in DOMAIN c, NEW k,
         DOMAIN c \subseteq Nat, \A i \in DOMAIN c : i <= j \/ i = k
  PROVE  j \in DOMAIN Kept(c)
<1> DEFINE S == {i \in DOMAIN c : i > j}
<1>1. S \subseteq {k}
  OBVIOUS
<1>2. IsFiniteSet({k}) /\ Cardinality({k}) = 1
  BY FS_Singleton
<1>3. IsFiniteSet(S) /\ Cardinality(S) <= 1
  BY <1>1, <1>2, FS_Subset
<1>4. Cardinality(S) \in Nat
  BY <1>3, FS_CardinalityType
<1>5. Cardinality(S) < ri_num_checkpoints
  BY <1>3, <1>4, Tunables
<1> QED
  BY <1>5 DEF Kept

\* What is kept is unchanged.
LEMMA KeptIs ==
  ASSUME NEW c
  PROVE  /\ DOMAIN Kept(c) \subseteq DOMAIN c
         /\ \A i \in DOMAIN Kept(c) : Kept(c)[i] = c[i]
BY DEF Kept

\* The last store written is the one that is read.
LEMMA AppendLast ==
  ASSUME NEW s \in Seq(Store), NEW w \in Store
  PROVE  /\ Append(s, w) \in Seq(Store) /\ Len(Append(s, w)) = Len(s) + 1
         /\ Append(s, w)[Len(Append(s, w))] = w
         /\ \A n \in 1..Len(Append(s, w)) :
              Append(s, w)[n] = w \/ \E m \in 1..Len(s) : Append(s, w)[n] = s[m]
<1> HIDE DEF Store
<1> QED
  OBVIOUS

\* A synchronous write leaves one store.
LEMMA OneStore ==
  ASSUME NEW w \in Store
  PROVE  /\ <<w>> \in Seq(Store) /\ Len(<<w>>) = 1
         /\ <<w>>[1] = w /\ \A n \in 1..Len(<<w>>) : <<w>>[n] = w
<1> HIDE DEF Store
<1> QED
  OBVIOUS

\* The current store is one that a crash may leave.
LEMMA StoreIs ==
  ASSUME TypeOK
  PROVE  store \in Store /\ \E n \in 1..Len(wal) : wal[n] = store
<1>1. wal \in Seq(Store) /\ Len(wal) \in 1..Len(wal)
  BY DEF TypeOK
<1> HIDE DEF Store
<1> QED
  BY <1>1 DEF store

(***************************************************************************)
(* A part of the invariant is left alone by a step that leaves alone what  *)
(* it is about.                                                            *)
(***************************************************************************)

\* Only the label of one thread changes.
LEMMA GotoIs ==
  ASSUME TypeOK, NEW t \in Thread, NEW l \in Labels, Goto(t, l)
  PROVE  /\ pc' \in [Thread -> Labels] /\ pc'[t] = l
         /\ \A u \in Thread \ {t} : pc'[u] = pc[u]
<1>1. pc \in [Thread -> Labels]
  BY DEF TypeOK
<1> HIDE DEF Labels
<1> QED
  BY <1>1 DEF Goto

\* The stores that a crash may leave
LEMMA StoresFrame ==
  ASSUME StoresGood, wal' = wal
  PROVE  StoresGood'
BY DEF StoresGood

\* The current store
LEMMA CurrentFrame ==
  ASSUME CurrentStore, wal' = wal, unsync' = unsync, sync' = sync,
         rla_idx' = rla_idx, rla_synced_idx' = rla_synced_idx,
         ri_lowest_idx' = ri_lowest_idx,
         (pc'["main"] = "apply") <=> (pc["main"] = "apply")
  PROVE  CurrentStore'
<1>1. store' = store /\ Lag' = Lag
  BY DEF store, Lag
<1> QED
  BY <1>1 DEF CurrentStore

\* The sync thread
LEMMA SyncFrame ==
  ASSUME SyncLocals, pc'["sync"] = pc["sync"], snap' = snap,
         rla_idx' = rla_idx, sync' = sync, unsync' = unsync
  PROVE  SyncLocals'
BY DEF SyncLocals

\* The reads of the main thread
LEMMA ReadFrame ==
  ASSUME ReadSafe, pc'["main"] = pc["main"], rd' = rd, unsync' = unsync,
         ri_pending_read_idx' = ri_pending_read_idx,
         ri_lowest_idx' = ri_lowest_idx
  PROVE  ReadSafe'
BY DEF ReadSafe

\* A checkpoint that is being taken
LEMMA TakeFrame ==
  ASSUME TakeLocals, pc'["chkpt"] = pc["chkpt"], ck' = ck,
         rla_synced_idx' = rla_synced_idx,
         ri_checkpoint_last_idx' = ri_checkpoint_last_idx
  PROVE  TakeLocals'
BY DEF TakeLocals

\* The directories
LEMMA DirFrame ==
  ASSUME Directories, pc'["chkpt"] = pc["chkpt"], ck' = ck, chkpts' = chkpts,
         ri_checkpoint_last_idx' = ri_checkpoint_last_idx
  PROVE  Directories'
BY DEF Directories, Pending

\* A reap
LEMMA ReapFrame ==
  ASSUME ReapLocals, pc'["chkpt"] = pc["chkpt"], ck' = ck, wal' = wal,
         ri_lowest_idx' = ri_lowest_idx
  PROVE  ReapLocals'
BY DEF ReapLocals, store

\* The indexes before the first restart
LEMMA BehindFrame ==
  ASSUME NoneBehind, restarted' = restarted,
         ri_checkpoint_last_idx' = ri_checkpoint_last_idx,
         rla_synced_idx' = rla_synced_idx, ri_lowest_idx' = ri_lowest_idx
  PROVE  NoneBehind'
BY DEF NoneBehind

\* The wait of the main thread
LEMMA AnsweredFrame ==
  ASSUME Answered, pc'["main"] = pc["main"], pc'["chkpt"] = pc["chkpt"],
         wait' = wait, rla_synced_idx' = rla_synced_idx,
         ri_checkpoint_last_idx' = ri_checkpoint_last_idx,
         ri_last_chkpt_err' = ri_last_chkpt_err,
         ri_user_requested_checkpoint => ri_user_requested_checkpoint'
  PROVE  Answered'
BY DEF Answered, PriorAnswered

\* The assertions
LEMMA AbortsFrame ==
  ASSUME AbortsExplained, fatal' \in {fatal, "none"}, restarted' = restarted
  PROVE  AbortsExplained'
BY DEF AbortsExplained

\* An assertion fails: only what AbortsExplained says of it is to be shown.
LEMMA AbortInv ==
  ASSUME IndInv, NEW why, Abort(why),
         \/ why = "read_race"
         \/ why \in {"chkpt_behind", "reap_behind"} /\ restarted
  PROVE  IndInv'
<1> USE DEF IndInv
<1>1. UNCHANGED <<storeVars, readVars, dirVars, flagVars, lastVars, pc, ck,
                 snap, wait, requests, crashes, restarted>> /\ fatal' = why
  BY DEF Abort
<1>2. TypeOK'
  BY <1>1 DEF TypeOK, storeVars, readVars, dirVars, flagVars, lastVars
<1>3. StoresGood' /\ CurrentStore'
  BY <1>1, StoresFrame, CurrentFrame DEF storeVars, readVars
<1>4. SyncLocals' /\ ReadSafe'
  BY <1>1, SyncFrame, ReadFrame DEF storeVars, readVars
<1>5. TakeLocals' /\ Directories'
  BY <1>1, TakeFrame, DirFrame DEF storeVars, lastVars, dirVars
<1>6. ReapLocals' /\ NoneBehind'
  BY <1>1, ReapFrame, BehindFrame DEF storeVars, lastVars, readVars
<1>7. Answered'
  BY <1>1, AnsweredFrame DEF storeVars, lastVars, flagVars
<1>8. AbortsExplained'
  BY <1>1 DEF AbortsExplained
<1> QED
  BY <1>2, <1>3, <1>4, <1>5, <1>6, <1>7, <1>8

(***************************************************************************)
(* The main thread writes and applies.                                     *)
(***************************************************************************)

\* An entry at the end of the log
LEMMA WriteEntryInv ==
  ASSUME IndInv, WriteEntry
  PROVE  IndInv'
<1> USE DEF IndInv
<1>0. PICK w : w = [store EXCEPT !.ents = @ \cup {unsync + 1}]
  OBVIOUS
<1>1. /\ wal' = Append(wal, w) /\ unsync' = unsync + 1
      /\ UNCHANGED <<sync, rla_idx, rla_synced_idx, readVars, dirVars,
                     flagVars, lastVars, pc, ck, snap, wait, fatal, restarted>>
  BY <1>0 DEF WriteEntry
<1>2. /\ w \in Store /\ w.ents = store.ents \cup {unsync + 1}
      /\ w.idx = store.idx /\ w.syn = store.syn
  <2>1. store \in Store /\ unsync \in Int
    BY StoreIs DEF TypeOK
  <2>2. store.ents \cup {unsync + 1} \in SUBSET Int
    BY <2>1 DEF Store
  <2> QED
    BY <1>0, <2>1, <2>2 DEF Store
<1>3. /\ wal' \in Seq(Store) /\ Len(wal') >= 1 /\ store' = w
      /\ \A n \in 1..Len(wal') : wal'[n] = w \/ \E m \in 1..Len(wal) : wal'[n] = wal[m]
  <2>1. wal \in Seq(Store) /\ Len(wal) >= 1
    BY DEF TypeOK
  <2> HIDE DEF Store
  <2> QED
    BY <1>1, <1>2, <2>1, AppendLast DEF store
<1>4. TypeOK'
  BY <1>1, <1>3 DEF TypeOK, readVars, dirVars, flagVars, lastVars
<1>5. PICK lo \in Int : /\ Bounds(store.ents, lo, unsync)
                        /\ lo <= 0 \/ lo <= ri_lowest_idx
                        /\ lo <= store.idx + 1
  BY DEF CurrentStore
<1>6. Bounds(w.ents, lo, unsync + 1)
  <2>1. store.ents = lo..unsync /\ lo \in Nat /\ unsync \in Int
    BY <1>5 DEF Bounds
  <2>2. lo <= unsync + 1
    BY <1>5 DEF Bounds
  <2>3. w.ents = lo..(unsync + 1)
    BY <1>2, <2>1, <2>2
  <2> QED
    BY <2>1, <2>2, <2>3 DEF Bounds
<1>7. store.idx \in Int /\ store.syn \in Int /\ store.idx <= unsync
  <2>1. store.idx \in Int /\ store.syn \in Int
    BY StoreIs DEF Store
  <2>2. rla_idx = store.idx \/ rla_idx = store.idx + 1
    BY <2>1 DEF CurrentStore, Lag
  <2> QED
    BY <2>1, <2>2 DEF CurrentStore, TypeOK
<1>8. GoodStore(w)
  <2>1. GoodStore(store)
    BY StoreIs DEF StoresGood
  <2>2. w.idx <= unsync + 1 /\ unsync + 1 \in Int
    BY <1>2, <1>7 DEF TypeOK
  <2>3. -1 <= w.syn /\ w.syn <= w.idx
    BY <1>2, <2>1 DEF GoodStore
  <2> QED
    BY <1>2, <1>5, <1>6, <2>2, <2>3 DEF GoodStore
<1>9. StoresGood'
  BY <1>3, <1>8 DEF StoresGood
<1>10. CurrentStore'
  <2>1. Lag' = Lag
    BY <1>1 DEF Lag
  <2>2. \E l \in Int : /\ Bounds(w.ents, l, unsync + 1)
                       /\ l <= 0 \/ l <= ri_lowest_idx
                       /\ l <= w.idx + 1
    BY <1>2, <1>5, <1>6
  <2>3. sync <= unsync + 1
    BY DEF CurrentStore, TypeOK
  <2> QED
    BY <1>1, <1>2, <1>3, <2>1, <2>2, <2>3 DEF CurrentStore, readVars
<1>11. SyncLocals' /\ ReadSafe'
  BY <1>1 DEF SyncLocals, ReadSafe, readVars, TypeOK
<1>12. TakeLocals' /\ Directories'
  BY <1>1, TakeFrame, DirFrame DEF lastVars, dirVars
<1>13. ReapLocals'
  BY <1>1, <1>2, <1>3 DEF ReapLocals, readVars
<1>14. NoneBehind' /\ Answered' /\ AbortsExplained'
  BY <1>1, BehindFrame, AnsweredFrame, AbortsFrame
     DEF lastVars, flagVars, readVars
<1> QED
  BY <1>4, <1>9, <1>10, <1>11, <1>12, <1>13, <1>14

\* The index is raised before the record is written.
LEMMA SetLastAppliedInv ==
  ASSUME IndInv, SetLastApplied
  PROVE  IndInv'
<1> USE DEF IndInv
<1>1. /\ pc["main"] = "idle" /\ rla_idx < sync /\ rla_idx' = rla_idx + 1
      /\ UNCHANGED <<wal, unsync, sync, rla_synced_idx, readVars, dirVars,
                     flagVars, lastVars, ck, snap, wait, fatal, restarted>>
  BY DEF SetLastApplied, Running
<1>2. Goto("main", "apply")
  BY DEF SetLastApplied
<1>3. /\ pc' \in [Thread -> Labels] /\ pc'["main"] = "apply"
      /\ pc'["sync"] = pc["sync"] /\ pc'["chkpt"] = pc["chkpt"]
  BY <1>2, GotoIs DEF Thread, Labels
<1>4. TypeOK'
  BY <1>1, <1>3 DEF TypeOK, readVars, dirVars, flagVars, lastVars
<1>5. StoresGood'
  BY <1>1, StoresFrame
<1>6. CurrentStore'
  <2>1. store' = store /\ Lag' = 1 /\ Lag = 0
    BY <1>1, <1>3 DEF store, Lag
  <2>2. store.idx \in Int /\ rla_idx = store.idx
    BY <2>1, StoreIs DEF CurrentStore, Store
  <2>3. rla_idx' = store.idx + 1 /\ rla_synced_idx <= rla_idx'
        /\ rla_idx' <= sync
    BY <1>1, <2>2 DEF CurrentStore, TypeOK
  <2> QED
    BY <1>1, <2>1, <2>2, <2>3 DEF CurrentStore, readVars
<1>7. SyncLocals'
  BY <1>1, <1>3 DEF SyncLocals, TypeOK
<1>8. ReadSafe'
  BY <1>1, <1>3 DEF ReadSafe, readVars
<1>9. TakeLocals' /\ Directories' /\ ReapLocals'
  BY <1>1, <1>3, TakeFrame, DirFrame, ReapFrame DEF lastVars, dirVars, readVars
<1>10. NoneBehind' /\ AbortsExplained'
  BY <1>1, BehindFrame, AbortsFrame DEF lastVars, readVars
<1>11. Answered'
  BY <1>3 DEF Answered
<1> QED
  BY <1>4, <1>5, <1>6, <1>7, <1>8, <1>9, <1>10, <1>11

\* The record that is written holds the index raised before.
LEMMA SmApplyOptInv ==
  ASSUME IndInv, SmApplyOpt
  PROVE  IndInv'
<1> USE DEF IndInv
<1>0. PICK w : w = [store EXCEPT !.idx = rla_idx, !.syn = rla_synced_idx]
  OBVIOUS
<1>1. /\ pc["main"] = "apply" /\ wal' = Append(wal, w)
      /\ UNCHANGED <<unsync, sync, rla_idx, rla_synced_idx, readVars, dirVars,
                     flagVars, lastVars, ck, snap, wait, fatal, restarted>>
  BY <1>0 DEF SmApplyOpt, Running
<1>2. Goto("main", "idle")
  BY DEF SmApplyOpt
<1>3. /\ pc' \in [Thread -> Labels] /\ pc'["main"] = "idle"
      /\ pc'["sync"] = pc["sync"] /\ pc'["chkpt"] = pc["chkpt"]
  BY <1>2, GotoIs DEF Thread, Labels
<1>4. /\ w \in Store /\ w.ents = store.ents
      /\ w.idx = rla_idx /\ w.syn = rla_synced_idx
  BY <1>0, StoreIs DEF Store, TypeOK
<1>5. /\ wal' \in Seq(Store) /\ Len(wal') >= 1 /\ store' = w
      /\ \A n \in 1..Len(wal') : wal'[n] = w \/ \E m \in 1..Len(wal) : wal'[n] = wal[m]
  <2>1. wal \in Seq(Store) /\ Len(wal) >= 1
    BY DEF TypeOK
  <2> HIDE DEF Store
  <2> QED
    BY <1>1, <1>4, <2>1, AppendLast DEF store
<1>6. TypeOK'
  BY <1>1, <1>3, <1>5 DEF TypeOK, readVars, dirVars, flagVars, lastVars
<1>7. PICK lo \in Int : /\ Bounds(store.ents, lo, unsync)
                        /\ lo <= 0 \/ lo <= ri_lowest_idx
                        /\ lo <= store.idx + 1
  BY DEF CurrentStore
<1>8. store.idx \in Int /\ rla_idx = store.idx + 1 /\ lo <= rla_idx + 1
  BY <1>1, <1>7, StoreIs DEF CurrentStore, Lag, Store
<1>9. GoodStore(w)
  <2>1. w.idx <= unsync /\ -1 <= w.syn /\ w.syn <= w.idx /\ unsync \in Int
    BY <1>4 DEF CurrentStore, TypeOK
  <2> QED
    BY <1>4, <1>7, <1>8, <2>1 DEF GoodStore
<1>10. StoresGood'
  BY <1>5, <1>9 DEF StoresGood
<1>11. CurrentStore'
  <2>1. Lag' = 0
    BY <1>3 DEF Lag
  <2>2. rla_idx = w.idx + 0
    BY <1>4 DEF TypeOK
  <2> QED
    BY <1>1, <1>4, <1>5, <1>7, <1>8, <2>1, <2>2 DEF CurrentStore, readVars
<1>12. SyncLocals'
  BY <1>1, <1>3, SyncFrame
<1>13. ReadSafe'
  BY <1>1, <1>3 DEF ReadSafe, readVars
<1>14. TakeLocals' /\ Directories'
  BY <1>1, <1>3, TakeFrame, DirFrame DEF lastVars, dirVars
<1>15. ReapLocals'
  BY <1>1, <1>3, <1>4, <1>5, <1>8 DEF ReapLocals, readVars, TypeOK, Locals
<1>16. NoneBehind' /\ AbortsExplained'
  BY <1>1, BehindFrame, AbortsFrame DEF lastVars, readVars
<1>17. Answered'
  BY <1>3 DEF Answered
<1> QED
  BY <1>6, <1>10, <1>11, <1>12, <1>13, <1>14, <1>15, <1>16, <1>17

(***************************************************************************)
(* The sync thread, and the reads of the main thread.                      *)
(***************************************************************************)

\* The indexes are copied before the sync.
LEMMA SyncSnapshotInv ==
  ASSUME IndInv, SyncSnapshot
  PROVE  IndInv'
<1> USE DEF IndInv
<1>1. /\ snap' = [applied |-> rla_idx, unsync |-> unsync]
      /\ UNCHANGED <<storeVars, readVars, dirVars, flagVars, lastVars, ck,
                     wait, fatal, restarted>>
  BY DEF SyncSnapshot
<1>2. Goto("sync", "sync")
  BY DEF SyncSnapshot
<1>3. /\ pc' \in [Thread -> Labels] /\ pc'["sync"] = "sync"
      /\ pc'["main"] = pc["main"] /\ pc'["chkpt"] = pc["chkpt"]
  BY <1>2, GotoIs DEF Thread, Labels
<1>4. TypeOK'
  BY <1>1, <1>3 DEF TypeOK, storeVars, readVars, dirVars, flagVars, lastVars
<1>5. StoresGood' /\ CurrentStore' /\ ReadSafe'
  BY <1>1, <1>3, StoresFrame, CurrentFrame, ReadFrame DEF storeVars, readVars
<1>6. SyncLocals'
  BY <1>1, <1>3 DEF SyncLocals, CurrentStore, storeVars, TypeOK
<1>7. TakeLocals' /\ Directories' /\ ReapLocals'
  BY <1>1, <1>3, TakeFrame, DirFrame, ReapFrame
     DEF lastVars, dirVars, readVars, storeVars
<1>8. NoneBehind' /\ Answered' /\ AbortsExplained'
  BY <1>1, <1>3, BehindFrame, AnsweredFrame, AbortsFrame
     DEF lastVars, readVars, flagVars, storeVars
<1> QED
  BY <1>4, <1>5, <1>6, <1>7, <1>8

\* The record may be one entry behind what is taken for synced.
LEMMA SyncBackendInv ==
  ASSUME IndInv, SyncBackend
  PROVE  IndInv'
<1> USE DEF IndInv
<1>1. /\ pc["sync"] = "sync" /\ wal' = <<store>> /\ sync' = snap.unsync
      /\ rla_synced_idx' = Max({rla_synced_idx, snap.applied})
      /\ snap' = NoSnap
      /\ UNCHANGED <<unsync, rla_idx, readVars, dirVars, flagVars, lastVars,
                     ck, wait, fatal, restarted>>
  BY DEF SyncBackend, Running
<1>2. Goto("sync", "idle")
  BY DEF SyncBackend
<1>3. /\ pc' \in [Thread -> Labels] /\ pc'["sync"] = "idle"
      /\ pc'["main"] = pc["main"] /\ pc'["chkpt"] = pc["chkpt"]
  BY <1>2, GotoIs DEF Thread, Labels
<1>4. /\ snap.applied \in Int /\ snap.unsync \in Int
      /\ snap.applied <= rla_idx /\ sync <= snap.unsync /\ snap.unsync <= unsync
  BY <1>1 DEF SyncLocals, TypeOK
<1>5. /\ rla_synced_idx' \in Int /\ rla_synced_idx <= rla_synced_idx'
      /\ rla_synced_idx' <= rla_idx
  <2>1. /\ rla_synced_idx \in Int /\ rla_idx \in Int
        /\ rla_synced_idx <= rla_idx
    BY DEF TypeOK, CurrentStore
  <2>2. rla_synced_idx' = IF rla_synced_idx >= snap.applied
                          THEN rla_synced_idx ELSE snap.applied
    BY <1>1, <1>4, <2>1, MaxOfTwo
  <2> QED
    BY <1>4, <2>1, <2>2
<1>6. /\ wal' \in Seq(Store) /\ Len(wal') = 1 /\ store' = store
      /\ \A n \in 1..Len(wal') : wal'[n] = store
  <2>1. store \in Store
    BY StoreIs
  <2> HIDE DEF Store
  <2> QED
    BY <1>1, <2>1, OneStore DEF store
<1>7. TypeOK'
  BY <1>1, <1>3, <1>4, <1>5, <1>6
     DEF TypeOK, readVars, dirVars, flagVars, lastVars, NoSnap
<1>8. StoresGood'
  BY <1>6, StoreIs DEF StoresGood
<1>9. CurrentStore'
  <2>1. Lag' = Lag
    BY <1>3 DEF Lag
  <2>2. -1 <= rla_synced_idx' /\ rla_idx <= snap.unsync
    BY <1>4, <1>5 DEF CurrentStore, TypeOK
  <2> QED
    BY <1>1, <1>4, <1>5, <1>6, <2>1, <2>2 DEF CurrentStore, readVars
<1>10. SyncLocals' /\ ReadSafe'
  BY <1>1, <1>3, ReadFrame DEF SyncLocals, readVars
<1>11. TakeLocals'
  BY <1>1, <1>3, <1>5 DEF TakeLocals, lastVars, TypeOK, Locals
<1>12. Directories' /\ ReapLocals'
  BY <1>1, <1>3, <1>6, DirFrame DEF lastVars, dirVars, readVars, ReapLocals
<1>13. NoneBehind'
  BY <1>1, <1>5 DEF NoneBehind, lastVars, readVars, TypeOK
<1>14. Answered'
  <2>1. PriorAnswered' = PriorAnswered
    BY <1>1 DEF PriorAnswered, lastVars
  <2>2. wait' = wait /\ wait.asked \in Int
    BY <1>1 DEF TypeOK
  <2> QED
    BY <1>1, <1>3, <1>5, <2>1, <2>2 DEF Answered, lastVars, flagVars, TypeOK
<1>15. AbortsExplained'
  BY <1>1, AbortsFrame
<1> QED
  BY <1>7, <1>8, <1>9, <1>10, <1>11, <1>12, <1>13, <1>14, <1>15

\* The checks before the mutex is taken
LEMMA ReadRangeCheckInv ==
  ASSUME IndInv, NEW idx \in ReadIdx, ReadRangeCheck(idx)
  PROVE  IndInv'
<1> USE DEF IndInv
<1>1. /\ pc["main"] = "idle" /\ RangeCheck(idx) = "OK" /\ rd' = idx
      /\ UNCHANGED <<storeVars, ri_lowest_idx, ri_pending_read_idx, dirVars,
                     flagVars, lastVars, ck, snap, wait, fatal, restarted>>
  BY DEF ReadRangeCheck, Running
<1>2. Goto("main", "register")
  BY DEF ReadRangeCheck
<1>3. /\ pc' \in [Thread -> Labels] /\ pc'["main"] = "register"
      /\ pc'["sync"] = pc["sync"] /\ pc'["chkpt"] = pc["chkpt"]
  BY <1>2, GotoIs DEF Thread, Labels
<1>4. idx \in Nat /\ idx <= unsync
  BY <1>1, BoundAssumption DEF RangeCheck, TypeOK
<1>5. TypeOK'
  BY <1>1, <1>3, <1>4 DEF TypeOK, storeVars, dirVars, flagVars, lastVars
<1>6. StoresGood' /\ CurrentStore' /\ SyncLocals'
  BY <1>1, <1>3, StoresFrame, CurrentFrame, SyncFrame DEF storeVars
<1>7. ReadSafe'
  BY <1>1, <1>3, <1>4 DEF ReadSafe, storeVars
<1>8. TakeLocals' /\ Directories' /\ ReapLocals'
  BY <1>1, <1>3, TakeFrame, DirFrame, ReapFrame DEF lastVars, dirVars, storeVars
<1>9. NoneBehind' /\ AbortsExplained'
  BY <1>1, BehindFrame, AbortsFrame DEF lastVars, storeVars
<1>10. Answered'
  BY <1>3 DEF Answered
<1> QED
  BY <1>5, <1>6, <1>7, <1>8, <1>9, <1>10

\* The checks under the mutex
LEMMA ReadRegisterInv ==
  ASSUME IndInv, ReadRegister
  PROVE  IndInv'
<1> USE DEF IndInv
<1>1. /\ pc["main"] = "register" /\ ~HasBeenCompacted(rd)
      /\ ri_pending_read_idx' = rd
      /\ UNCHANGED <<storeVars, ri_lowest_idx, rd, dirVars,
                     flagVars, lastVars, ck, snap, wait, fatal, restarted>>
  BY DEF ReadRegister, Running
<1>2. Goto("main", "read")
  BY DEF ReadRegister
<1>3. /\ pc' \in [Thread -> Labels] /\ pc'["main"] = "read"
      /\ pc'["sync"] = pc["sync"] /\ pc'["chkpt"] = pc["chkpt"]
  BY <1>2, GotoIs DEF Thread, Labels
<1>5. TypeOK'
  BY <1>1, <1>3 DEF TypeOK, storeVars, dirVars, flagVars, lastVars
<1>6. StoresGood' /\ CurrentStore' /\ SyncLocals'
  BY <1>1, <1>3, StoresFrame, CurrentFrame, SyncFrame DEF storeVars
<1>7. ReadSafe'
  BY <1>1, <1>3 DEF ReadSafe, storeVars, HasBeenCompacted, TypeOK
<1>8. TakeLocals' /\ Directories' /\ ReapLocals'
  BY <1>1, <1>3, TakeFrame, DirFrame, ReapFrame DEF lastVars, dirVars, storeVars
<1>9. NoneBehind' /\ AbortsExplained'
  BY <1>1, BehindFrame, AbortsFrame DEF lastVars, storeVars
<1>10. Answered'
  BY <1>3 DEF Answered
<1> QED
  BY <1>5, <1>6, <1>7, <1>8, <1>9, <1>10

\* No other read is registered: the race is what is left.
LEMMA ReadRegisterAbortInv ==
  ASSUME IndInv, ReadRegisterAbort
  PROVE  IndInv'
<1>1. ri_pending_read_idx = -1
  BY DEF IndInv, ReadSafe, ReadRegisterAbort, Running
<1>2. Abort("read_race")
  BY <1>1 DEF ReadRegisterAbort
<1> QED
  BY <1>2, AbortInv

\* An entry whose read is registered is there.
LEMMA EntryReadInv ==
  ASSUME IndInv, EntryRead
  PROVE  IndInv'
<1> USE DEF IndInv
<1>1. /\ pc["main"] = "read" /\ ri_pending_read_idx' = -1 /\ rd' = -1
      /\ fatal' = IF rd \in store.ents THEN "none" ELSE "read_missing"
      /\ UNCHANGED <<storeVars, ri_lowest_idx, dirVars, flagVars, lastVars,
                     ck, snap, wait, restarted>>
  BY DEF EntryRead, Running
<1>2. Goto("main", "idle")
  BY DEF EntryRead
<1>3. /\ pc' \in [Thread -> Labels] /\ pc'["main"] = "idle"
      /\ pc'["sync"] = pc["sync"] /\ pc'["chkpt"] = pc["chkpt"]
  BY <1>2, GotoIs DEF Thread, Labels
<1>4. rd \in store.ents
  <2>1. PICK lo \in Int : /\ Bounds(store.ents, lo, unsync)
                          /\ lo <= 0 \/ lo <= ri_lowest_idx
    BY DEF CurrentStore
  <2>2. rd \in Int /\ 0 <= rd /\ rd <= unsync /\ ri_lowest_idx <= rd
        /\ ri_lowest_idx \in Int /\ unsync \in Int
    BY <1>1 DEF ReadSafe, TypeOK
  <2>3. lo <= rd
    BY <2>1, <2>2
  <2> QED
    BY <2>1, <2>2, <2>3 DEF Bounds
<1>5. TypeOK'
  BY <1>1, <1>3 DEF TypeOK, storeVars, dirVars, flagVars, lastVars
<1>6. StoresGood' /\ CurrentStore' /\ SyncLocals'
  BY <1>1, <1>3, StoresFrame, CurrentFrame, SyncFrame DEF storeVars
<1>7. ReadSafe'
  BY <1>1, <1>3 DEF ReadSafe, storeVars
<1>8. TakeLocals' /\ Directories' /\ ReapLocals'
  BY <1>1, <1>3, TakeFrame, DirFrame, ReapFrame DEF lastVars, dirVars, storeVars
<1>9. NoneBehind' /\ AbortsExplained'
  BY <1>1, <1>4, BehindFrame, AbortsFrame DEF lastVars, storeVars
<1>10. Answered'
  BY <1>3 DEF Answered
<1> QED
  BY <1>5, <1>6, <1>7, <1>8, <1>9, <1>10

(***************************************************************************)
(* Requests to the checkpoint thread.                                      *)
(***************************************************************************)

\* The registry's requests
LEMMA RequestInv ==
  ASSUME IndInv, RequestCheckpoint \/ RequestReap
  PROVE  IndInv'
<1> USE DEF IndInv
<1>1. /\ UNCHANGED <<storeVars, readVars, dirVars, lastVars, pc, ck, snap,
                     wait, fatal, restarted>>
      /\ ri_user_requested_checkpoint' \in {TRUE, ri_user_requested_checkpoint}
  BY DEF RequestCheckpoint, RequestReap
<1>2. TypeOK'
  BY <1>1 DEF TypeOK, storeVars, readVars, dirVars, lastVars
<1>3. StoresGood' /\ CurrentStore' /\ SyncLocals' /\ ReadSafe'
  BY <1>1, StoresFrame, CurrentFrame, SyncFrame, ReadFrame
     DEF storeVars, readVars
<1>4. TakeLocals' /\ Directories' /\ ReapLocals'
  BY <1>1, TakeFrame, DirFrame, ReapFrame
     DEF lastVars, dirVars, storeVars, readVars
<1>5. NoneBehind' /\ AbortsExplained'
  BY <1>1, BehindFrame, AbortsFrame DEF lastVars, storeVars, readVars
<1>6. ri_user_requested_checkpoint => ri_user_requested_checkpoint'
  BY <1>1 DEF TypeOK
<1>7. Answered'
  BY <1>1, <1>6, AnsweredFrame DEF lastVars, storeVars, readVars
<1> QED
  BY <1>2, <1>3, <1>4, <1>5, <1>7

\* The main thread asks before a bulk recovery.
LEMMA PriorToRecoveryInv ==
  ASSUME IndInv, PriorToRecovery
  PROVE  IndInv'
<1> USE DEF IndInv
<1>1. /\ pc["main"] = "idle"
      /\ wait' = [old |-> ri_checkpoint_last_idx, asked |-> rla_synced_idx,
                  result |-> "none"]
      /\ ri_user_requested_checkpoint' = TRUE /\ ri_last_chkpt_err' = "none"
      /\ UNCHANGED <<storeVars, readVars, dirVars, ri_checkpoint_last_idx, ck,
                     snap, fatal, restarted>>
  BY DEF PriorToRecovery, Running
<1>2. Goto("main", "wait")
  BY DEF PriorToRecovery
<1>3. /\ pc' \in [Thread -> Labels] /\ pc'["main"] = "wait"
      /\ pc'["sync"] = pc["sync"] /\ pc'["chkpt"] = pc["chkpt"]
  BY <1>2, GotoIs DEF Thread, Labels
<1>4. wait'.old = ri_checkpoint_last_idx /\ wait'.asked = rla_synced_idx
  BY <1>1
<1>5. TypeOK'
  BY <1>1, <1>3, <1>4 DEF TypeOK, storeVars, readVars, dirVars, Errors
<1>6. StoresGood' /\ CurrentStore' /\ SyncLocals'
  BY <1>1, <1>3, StoresFrame, CurrentFrame, SyncFrame DEF storeVars, readVars
<1>7. ReadSafe'
  BY <1>1, <1>3 DEF ReadSafe, storeVars, readVars
<1>8. TakeLocals' /\ Directories' /\ ReapLocals'
  BY <1>1, <1>3, TakeFrame, DirFrame, ReapFrame
     DEF dirVars, storeVars, readVars
<1>9. NoneBehind' /\ AbortsExplained'
  BY <1>1, BehindFrame, AbortsFrame DEF storeVars, readVars
<1>10. Answered'
  BY <1>1, <1>4 DEF Answered, storeVars, TypeOK
<1> QED
  BY <1>5, <1>6, <1>7, <1>8, <1>9, <1>10

\* It has the answer or waits no longer.
LEMMA PriorDoneInv ==
  ASSUME IndInv, PriorDone
  PROVE  IndInv'
<1> USE DEF IndInv
<1>1. /\ pc["main"] = "wait"
      /\ \E r \in Errors \cup {"ok"} : wait' = [wait EXCEPT !.result = r]
      /\ ri_last_chkpt_err' \in Errors
      /\ UNCHANGED <<storeVars, readVars, dirVars, flagVars,
                     ri_checkpoint_last_idx, ck, snap, fatal, restarted>>
  <2>1. PICK err : /\ err = IF PriorAnswered THEN ri_last_chkpt_err
                           ELSE "ETIMEDOUT"
                   /\ ri_last_chkpt_err' = err
                   /\ wait' = [wait EXCEPT !.result = PriorResult(err)]
    BY DEF PriorDone
  <2>2. err \in Errors
    BY <2>1 DEF TypeOK, Errors
  <2>3. PriorResult(err) \in Errors \cup {"ok"}
    BY <2>2 DEF PriorResult
  <2> QED
    BY <2>1, <2>2, <2>3 DEF PriorDone, Running
<1>2. Goto("main", "left")
  BY DEF PriorDone
<1>3. /\ pc' \in [Thread -> Labels] /\ pc'["main"] = "left"
      /\ pc'["sync"] = pc["sync"] /\ pc'["chkpt"] = pc["chkpt"]
  BY <1>2, GotoIs DEF Thread, Labels
<1>4. wait'.old = wait.old /\ wait'.asked = wait.asked
  BY <1>1 DEF TypeOK
<1>5. TypeOK'
  <2>1. wait' \in [old : Int, asked : Int, result : Errors \cup {"ok"}]
    BY <1>1 DEF TypeOK
  <2> QED
    BY <1>1, <1>3, <2>1 DEF TypeOK, storeVars, readVars, dirVars, flagVars
<1>6. StoresGood' /\ CurrentStore' /\ SyncLocals'
  BY <1>1, <1>3, StoresFrame, CurrentFrame, SyncFrame DEF storeVars, readVars
<1>7. ReadSafe'
  BY <1>1, <1>3 DEF ReadSafe, storeVars, readVars
<1>8. TakeLocals' /\ Directories' /\ ReapLocals'
  BY <1>1, <1>3, TakeFrame, DirFrame, ReapFrame
     DEF dirVars, storeVars, readVars
<1>9. NoneBehind' /\ AbortsExplained'
  BY <1>1, BehindFrame, AbortsFrame DEF storeVars, readVars
<1>10. Answered'
  BY <1>3 DEF Answered
<1> QED
  BY <1>5, <1>6, <1>7, <1>8, <1>9, <1>10

(***************************************************************************)
(* The checkpoint thread takes a checkpoint.                               *)
(***************************************************************************)

\* The step leaves the store, the main thread and the sync thread alone, and
\* does not stop the process: the parts of the invariant that are about
\* checkpoints are to be shown.
LEMMA ChkptFrame ==
  ASSUME IndInv, UNCHANGED <<storeVars, readVars, snap, wait, restarted>>,
         NEW l \in Labels, Goto("chkpt", l), fatal' \in {fatal, "none"},
         ck' \in Locals, ri_checkpoint_last_idx' \in Int,
         ri_user_requested_checkpoint' \in BOOLEAN,
         ri_last_chkpt_err' \in Errors
  PROVE  /\ TypeOK' /\ StoresGood' /\ CurrentStore' /\ SyncLocals'
         /\ ReadSafe' /\ AbortsExplained'
         /\ pc'["chkpt"] = l /\ pc'["main"] = pc["main"]
<1> USE DEF IndInv
<1>1. /\ pc' \in [Thread -> Labels] /\ pc'["chkpt"] = l
      /\ pc'["main"] = pc["main"] /\ pc'["sync"] = pc["sync"]
  BY GotoIs DEF Thread
<1>2. TypeOK'
  BY <1>1 DEF TypeOK, storeVars, readVars
<1>3. StoresGood' /\ CurrentStore' /\ SyncLocals' /\ ReadSafe'
  BY <1>1, StoresFrame, CurrentFrame, SyncFrame, ReadFrame
     DEF storeVars, readVars
<1>4. AbortsExplained'
  BY AbortsFrame
<1> QED
  BY <1>1, <1>2, <1>3, <1>4

\* The locals a round starts and ends with
LEMMA LocalsType ==
  /\ NoLocals \in Locals
  /\ \A r \in BOOLEAN : [NoLocals EXCEPT !.reap = r] \in Locals
<1>1. NoStore \in Store
  BY DEF NoStore, Store
<1> QED
  BY <1>1 DEF NoLocals, Locals

\* Where a round goes after the checkpoint
LEMMA AfterTakeIs ==
  ASSUME AfterTake
  PROVE  \E l \in {"reap", "idle"} : Goto("chkpt", l) /\ ck' \in Locals
BY LocalsType DEF AfterTake

\* A wake-up takes the requests.
LEMMA ChkptRoundInv ==
  ASSUME IndInv, ChkptRound
  PROVE  IndInv'
<1> USE DEF IndInv
<1>1. /\ pc["chkpt"] = "idle" /\ ri_user_requested_checkpoint' = FALSE
      /\ rla_synced_idx >= 0 => rla_synced_idx >= ri_checkpoint_last_idx
      /\ UNCHANGED <<storeVars, readVars, dirVars, lastVars, snap, wait, fatal,
                     restarted>>
  BY DEF ChkptRound, Running, ChkptCompactMaxIdx
<1> DEFINE takes == /\ ChkptCompactMaxIdx >= 0
                    /\ WantsCheckpoint(ri_user_requested_checkpoint)
           reaps == /\ ChkptCompactMaxIdx >= 0
                    /\ WantsReap(ri_user_requested_reap)
           label == IF takes THEN "take" ELSE IF reaps THEN "reap" ELSE "idle"
<1>2. /\ ck' = [NoLocals EXCEPT !.reap = reaps]
      /\ Goto("chkpt", label)
  BY DEF ChkptRound
<1>3. /\ takes => rla_synced_idx >= 0
      /\ rla_synced_idx >= 0 /\ ri_user_requested_checkpoint => takes
  BY DEF ChkptCompactMaxIdx, WantsCheckpoint
<1>4. reaps \in BOOLEAN
  OBVIOUS
<1>5. label \in {"take", "reap", "idle"} /\ (label = "take" <=> takes)
  OBVIOUS
<1> HIDE DEF takes, reaps, label
<1>6. ck' \in Locals /\ ck'.rc = "none"
  <2>1. ck' \in Locals
    BY <1>2, <1>4, LocalsType
  <2> QED
    BY <1>2, <2>1 DEF NoLocals
<1>7. /\ TypeOK' /\ StoresGood' /\ CurrentStore' /\ SyncLocals'
      /\ ReadSafe' /\ AbortsExplained'
      /\ pc'["chkpt"] = label /\ pc'["main"] = pc["main"]
  <2>1. label \in Labels
    BY <1>5 DEF Labels
  <2>2. ri_checkpoint_last_idx' \in Int /\ ri_last_chkpt_err' \in Errors
    BY <1>1 DEF TypeOK, lastVars
  <2> QED
    BY <1>1, <1>2, <1>6, <2>1, <2>2, ChkptFrame
<1>8. TakeLocals'
  BY <1>1, <1>3, <1>5, <1>6, <1>7
     DEF TakeLocals, Taking, Copied, storeVars, lastVars, TypeOK
<1>9. Directories'
  <2>1. ~Pending /\ ~Pending'
    BY <1>1, <1>5, <1>7 DEF Pending, Copied
  <2> QED
    BY <1>1, <2>1 DEF Directories, lastVars, dirVars
<1>10. ReapLocals'
  BY <1>5, <1>7 DEF ReapLocals
<1>11. NoneBehind'
  BY <1>1, BehindFrame DEF lastVars, storeVars, readVars
<1>12. Answered'
  <2>1. PriorAnswered' = PriorAnswered
    BY <1>1 DEF PriorAnswered, lastVars
  <2>2. pc["chkpt"] \notin Taking
    BY <1>1 DEF Taking
  <2>3. takes => pc'["chkpt"] \in Taking
    BY <1>5, <1>7 DEF Taking
  <2>4. wait.asked \in Int /\ rla_synced_idx \in Int
    BY DEF TypeOK
  <2> QED
    BY <1>1, <1>3, <1>7, <2>1, <2>2, <2>3, <2>4
       DEF Answered, lastVars, storeVars
<1> QED
  BY <1>7, <1>8, <1>9, <1>10, <1>11, <1>12

\* A checkpoint is newer than what is synced only after a restart.
LEMMA ChkptRoundAbortInv ==
  ASSUME IndInv, ChkptRoundAbort
  PROVE  IndInv'
<1>1. Abort("chkpt_behind") /\ ChkptCompactMaxIdx < ri_checkpoint_last_idx
  BY DEF ChkptRoundAbort
<1>2. restarted
  BY <1>1 DEF IndInv, NoneBehind, ChkptCompactMaxIdx, TypeOK
<1> QED
  BY <1>1, <1>2, AbortInv

\* The checkpoint exists already.
LEMMA TakeAlreadyInv ==
  ASSUME IndInv, TakeAlready
  PROVE  IndInv'
<1> USE DEF IndInv
<1>1. /\ pc["chkpt"] = "take" /\ ri_last_chkpt_err' = "EALREADY"
      /\ UNCHANGED <<storeVars, readVars, chkpts, flagVars,
                     ri_checkpoint_last_idx, snap, wait, fatal, restarted>>
  BY DEF TakeAlready, Running
<1>2. PICK l \in {"reap", "idle"} : Goto("chkpt", l) /\ ck' \in Locals
  BY AfterTakeIs DEF TakeAlready
<1>3. /\ TypeOK' /\ StoresGood' /\ CurrentStore' /\ SyncLocals'
      /\ ReadSafe' /\ AbortsExplained'
      /\ pc'["chkpt"] = l /\ pc'["main"] = pc["main"]
  <2>1. l \in Labels /\ ri_last_chkpt_err' \in Errors
    BY <1>1 DEF Labels, Errors
  <2>2. ri_checkpoint_last_idx' \in Int
        /\ ri_user_requested_checkpoint' \in BOOLEAN
    BY <1>1 DEF TypeOK, flagVars
  <2> QED
    BY <1>1, <1>2, <2>1, <2>2, ChkptFrame
<1>4. TakeLocals' /\ ReapLocals'
  BY <1>3 DEF TakeLocals, ReapLocals, Taking, Copied
<1>5. Directories'
  <2>1. ~Pending /\ ~Pending'
    BY <1>1, <1>3 DEF Pending, Copied
  <2> QED
    BY <1>1, <2>1 DEF Directories
<1>6. NoneBehind'
  BY <1>1, BehindFrame DEF storeVars, readVars
<1>7. Answered'
  <2>1. PriorAnswered'
    BY <1>1 DEF PriorAnswered
  <2> QED
    BY <1>1, <1>3, <2>1 DEF Answered, storeVars
<1> QED
  BY <1>3, <1>4, <1>5, <1>6, <1>7

\* The index of a new checkpoint is beyond the last one.
LEMMA TakeStartInv ==
  ASSUME IndInv, TakeStart
  PROVE  IndInv'
<1> USE DEF IndInv
<1>1. /\ pc["chkpt"] = "take" /\ rla_synced_idx # ri_checkpoint_last_idx
      /\ ck' = [ck EXCEPT !.idx = rla_synced_idx] /\ Goto("chkpt", "create")
      /\ UNCHANGED <<storeVars, readVars, chkpts, flagVars, lastVars, snap,
                     wait, fatal, restarted>>
  BY DEF TakeStart, Running, ChkptCompactMaxIdx
<1>2. ck' \in Locals /\ ck'.idx = rla_synced_idx /\ ck'.rc = ck.rc
  BY <1>1 DEF TypeOK, Locals
<1>3. /\ TypeOK' /\ StoresGood' /\ CurrentStore' /\ SyncLocals'
      /\ ReadSafe' /\ AbortsExplained'
      /\ pc'["chkpt"] = "create" /\ pc'["main"] = pc["main"]
  <2>1. "create" \in Labels
    BY DEF Labels
  <2>2. ri_checkpoint_last_idx' \in Int /\ ri_last_chkpt_err' \in Errors
        /\ ri_user_requested_checkpoint' \in BOOLEAN
    BY <1>1 DEF TypeOK, flagVars, lastVars
  <2> QED
    BY <1>1, <1>2, <2>1, <2>2, ChkptFrame
<1>4. TakeLocals' /\ ReapLocals'
  BY <1>1, <1>2, <1>3
     DEF TakeLocals, ReapLocals, Taking, Copied, storeVars, lastVars, TypeOK
<1>5. Directories'
  <2>1. ~Pending /\ ~Pending'
    BY <1>1, <1>3 DEF Pending, Copied
  <2> QED
    BY <1>1, <2>1 DEF Directories, lastVars
<1>6. NoneBehind'
  BY <1>1, BehindFrame DEF storeVars, readVars, lastVars
<1>7. Answered'
  BY <1>1, <1>3 DEF Answered, storeVars, Taking, lastVars
<1> QED
  BY <1>3, <1>4, <1>5, <1>6, <1>7

\* The copy holds the entry of its index, and has applied all before it.
LEMMA CreateCheckpointInv ==
  ASSUME IndInv, CreateCheckpoint
  PROVE  IndInv'
<1> USE DEF IndInv
<1>0. PICK st : st = [store EXCEPT !.syn = -1]
  OBVIOUS
<1>1. /\ pc["chkpt"] = "create"
      /\ ck' = [ck EXCEPT !.st = st] /\ Goto("chkpt", "rename")
      /\ UNCHANGED <<storeVars, readVars, chkpts, flagVars, lastVars, snap,
                     wait, fatal, restarted>>
  BY <1>0 DEF CreateCheckpoint, Running
<1>2. st \in Store /\ st.ents = store.ents /\ st.idx = store.idx
  BY <1>0, StoreIs DEF Store
<1>3. ck' \in Locals /\ ck'.idx = ck.idx /\ ck'.rc = ck.rc /\ ck'.st = st
  BY <1>1, <1>2 DEF TypeOK, Locals
<1>4. /\ TypeOK' /\ StoresGood' /\ CurrentStore' /\ SyncLocals'
      /\ ReadSafe' /\ AbortsExplained'
      /\ pc'["chkpt"] = "rename" /\ pc'["main"] = pc["main"]
  <2>1. "rename" \in Labels
    BY DEF Labels
  <2>2. ri_checkpoint_last_idx' \in Int /\ ri_last_chkpt_err' \in Errors
        /\ ri_user_requested_checkpoint' \in BOOLEAN
    BY <1>1 DEF TypeOK, flagVars, lastVars
  <2> QED
    BY <1>1, <1>3, <2>1, <2>2, ChkptFrame
<1>5. GoodCheckpoint(st, ck.idx)
  <2>1. /\ store.idx \in Int /\ ck.idx \in Int /\ rla_idx \in Int
        /\ unsync \in Int /\ rla_synced_idx \in Int /\ sync \in Int
    BY StoreIs DEF TypeOK, Store, Locals
  <2>2. ck.idx <= rla_synced_idx
    BY <1>1 DEF TakeLocals, Taking
  <2>3. rla_idx <= store.idx + 1
    BY <2>1 DEF CurrentStore, Lag
  <2>4. ck.idx <= unsync /\ ck.idx - 1 <= store.idx
    BY <2>1, <2>2, <2>3 DEF CurrentStore
  <2>5. \E lo \in Int : Bounds(store.ents, lo, unsync) /\ lo <= store.idx + 1
    BY DEF CurrentStore
  <2> QED
    BY <1>2, <2>1, <2>4, <2>5 DEF GoodCheckpoint
<1>6. TakeLocals' /\ ReapLocals'
  BY <1>1, <1>3, <1>4, <1>5
     DEF TakeLocals, ReapLocals, Taking, Copied, storeVars, lastVars
<1>7. Directories'
  <2>1. ~Pending /\ ~Pending'
    BY <1>1, <1>4 DEF Pending, Copied
  <2> QED
    BY <1>1, <2>1 DEF Directories, lastVars
<1>8. NoneBehind'
  BY <1>1, BehindFrame DEF storeVars, readVars, lastVars
<1>9. Answered'
  BY <1>1, <1>4 DEF Answered, storeVars, Taking, lastVars
<1> QED
  BY <1>4, <1>6, <1>7, <1>8, <1>9

\* The copy fails.
LEMMA CreateFailsInv ==
  ASSUME IndInv, CreateFails
  PROVE  IndInv'
<1> USE DEF IndInv
<1>1. /\ pc["chkpt"] = "create" /\ ri_last_chkpt_err' = "ENOMEM"
      /\ UNCHANGED <<storeVars, readVars, chkpts, flagVars,
                     ri_checkpoint_last_idx, snap, wait, fatal, restarted>>
  BY DEF CreateFails, Running
<1>2. PICK l \in {"reap", "idle"} : Goto("chkpt", l) /\ ck' \in Locals
  BY AfterTakeIs DEF CreateFails
<1>3. /\ TypeOK' /\ StoresGood' /\ CurrentStore' /\ SyncLocals'
      /\ ReadSafe' /\ AbortsExplained'
      /\ pc'["chkpt"] = l /\ pc'["main"] = pc["main"]
  <2>1. l \in Labels /\ ri_last_chkpt_err' \in Errors
    BY <1>1 DEF Labels, Errors
  <2>2. ri_checkpoint_last_idx' \in Int
        /\ ri_user_requested_checkpoint' \in BOOLEAN
    BY <1>1 DEF TypeOK, flagVars
  <2> QED
    BY <1>1, <1>2, <2>1, <2>2, ChkptFrame
<1>4. TakeLocals' /\ ReapLocals'
  BY <1>3 DEF TakeLocals, ReapLocals, Taking, Copied
<1>5. Directories'
  <2>1. ~Pending /\ ~Pending'
    BY <1>1, <1>3 DEF Pending, Copied
  <2> QED
    BY <1>1, <2>1 DEF Directories
<1>6. NoneBehind'
  BY <1>1, BehindFrame DEF storeVars, readVars
<1>7. Answered'
  <2>1. PriorAnswered'
    BY <1>1 DEF PriorAnswered
  <2> QED
    BY <1>1, <1>3, <2>1 DEF Answered, storeVars
<1> QED
  BY <1>3, <1>4, <1>5, <1>6, <1>7

\* What the newest checkpoints keep when others go: the lemma of
\* CleanupCheckpoints and of a start.
LEMMA NewestKept ==
  ASSUME NEW c, NEW last \in Int, DOMAIN c \subseteq Nat, Newest(last, DOMAIN c)
  PROVE  Newest(last, DOMAIN Kept(c))
<1>1. CASE DOMAIN c = {}
  BY <1>1, KeptIs DEF Newest
<1>2. CASE DOMAIN c # {}
  <2>1. last \in DOMAIN c /\ \A i \in DOMAIN c : i <= last
    BY <1>2 DEF Newest
  <2>2. last \in DOMAIN Kept(c)
    BY <2>1, KeptNewest
  <2> QED
    BY <2>1, <2>2, KeptIs DEF Newest
<1> QED
  BY <1>1, <1>2

\* The same with a checkpoint k that is newer and not advertised yet
LEMMA PendingKept ==
  ASSUME NEW c, NEW last \in Int, NEW k \in DOMAIN c, DOMAIN c \subseteq Nat,
         last < k, Newest(last, DOMAIN c \ {k})
  PROVE  /\ k \in DOMAIN Kept(c) /\ Newest(k, DOMAIN c)
         /\ last \in DOMAIN c => last \in DOMAIN Kept(c)
         /\ Newest(last, DOMAIN Kept(c) \ {k})
<1>1. \A i \in DOMAIN c : i <= last \/ i = k
  BY DEF Newest
<1>2. \A i \in DOMAIN c : i <= k
  BY <1>1
<1>3. k \in DOMAIN Kept(c) /\ Newest(k, DOMAIN c)
  BY <1>2, KeptNewest DEF Newest
<1>4. last \in DOMAIN c => last \in DOMAIN Kept(c)
  BY <1>1, KeptNewest
<1>5. Newest(last, DOMAIN Kept(c) \ {k})
  <2>1. CASE DOMAIN c \ {k} = {}
    BY <2>1, KeptIs DEF Newest
  <2>2. CASE DOMAIN c \ {k} # {}
    <3>1. last \in DOMAIN c \ {k} /\ \A i \in DOMAIN c \ {k} : i <= last
      BY <2>2 DEF Newest
    <3> QED
      BY <3>1, <1>4, KeptIs DEF Newest
  <2> QED
    BY <2>1, <2>2
<1> QED
  BY <1>3, <1>4, <1>5

\* The directory takes its final name, or keeps the temporary one.
LEMMA RenameCheckpointInv ==
  ASSUME IndInv, RenameCheckpoint
  PROVE  IndInv'
<1> USE DEF IndInv
<1>1. /\ pc["chkpt"] = "rename" /\ Goto("chkpt", "cleanup")
      /\ UNCHANGED <<storeVars, readVars, flagVars, lastVars, snap, wait,
                     fatal, restarted>>
  BY DEF RenameCheckpoint, Running
<1>2. \/ /\ chkpts' = [i \in DOMAIN chkpts \cup {ck.idx} |->
                         IF i = ck.idx THEN ck.st ELSE chkpts[i]]
         /\ ck' = [ck EXCEPT !.st = NoStore]
      \/ /\ ck' = [ck EXCEPT !.st = NoStore, !.rc = "EIO"]
         /\ chkpts' = chkpts
  BY DEF RenameCheckpoint, dirVars
<1>3. ck' \in Locals /\ ck'.idx = ck.idx /\ ck.rc = "none"
  <2>1. NoStore \in Store /\ ck \in Locals
    BY DEF NoStore, Store, TypeOK
  <2>2. ck.rc = "none"
    BY <1>1 DEF TakeLocals, Taking, Copied
  <2> QED
    BY <1>2, <2>1, <2>2 DEF Locals
<1>4. /\ TypeOK' /\ StoresGood' /\ CurrentStore' /\ SyncLocals'
      /\ ReadSafe' /\ AbortsExplained'
      /\ pc'["chkpt"] = "cleanup" /\ pc'["main"] = pc["main"]
  <2>1. "cleanup" \in Labels
    BY DEF Labels
  <2>2. ri_checkpoint_last_idx' \in Int /\ ri_last_chkpt_err' \in Errors
        /\ ri_user_requested_checkpoint' \in BOOLEAN
    BY <1>1 DEF TypeOK, flagVars, lastVars
  <2> QED
    BY <1>1, <1>3, <2>1, <2>2, ChkptFrame
<1>5. TakeLocals' /\ ReapLocals'
  BY <1>1, <1>3, <1>4
     DEF TakeLocals, ReapLocals, Taking, Copied, storeVars, lastVars
<1>6. Directories'
  <2>1. ~Pending
    BY <1>1 DEF Pending, Copied
  <2>2. /\ ck.idx \in Nat /\ ri_checkpoint_last_idx < ck.idx
        /\ ri_checkpoint_last_idx \in Int /\ GoodCheckpoint(ck.st, ck.idx)
    BY <1>1 DEF TakeLocals, Taking, TypeOK, Locals
  <2>3. /\ DOMAIN chkpts \subseteq Nat /\ IsFiniteSet(DOMAIN chkpts)
        /\ \A i \in DOMAIN chkpts : GoodCheckpoint(chkpts[i], i)
        /\ Newest(ri_checkpoint_last_idx, DOMAIN chkpts)
    BY <2>1 DEF Directories
  <2>4. ri_checkpoint_last_idx' = ri_checkpoint_last_idx
    BY <1>1 DEF lastVars
  <2>5. CASE chkpts' = chkpts /\ ck' = [ck EXCEPT !.st = NoStore, !.rc = "EIO"]
    <3>1. ck'.rc = "EIO"
      BY <2>5 DEF TypeOK, Locals
    <3>2. ~Pending'
      BY <3>1 DEF Pending
    <3> QED
      BY <2>3, <2>4, <2>5, <3>2 DEF Directories
  <2>6. CASE /\ chkpts' = [i \in DOMAIN chkpts \cup {ck.idx} |->
                             IF i = ck.idx THEN ck.st ELSE chkpts[i]]
             /\ ck' = [ck EXCEPT !.st = NoStore]
    <3>1. ck'.rc = "none"
      BY <1>3, <2>6 DEF TypeOK, Locals
    <3>2. Pending'
      BY <1>4, <3>1 DEF Pending, Copied
    <3>3. DOMAIN chkpts' = DOMAIN chkpts \cup {ck.idx}
      BY <2>6
    <3>4. ck.idx \notin DOMAIN chkpts
      BY <2>2, <2>3 DEF Newest
    <3>5. DOMAIN chkpts' \ {ck.idx} = DOMAIN chkpts
      BY <3>3, <3>4
    <3>6. IsFiniteSet(DOMAIN chkpts')
      BY <2>3, <3>3, FS_AddElement
    <3>7. \A i \in DOMAIN chkpts' : GoodCheckpoint(chkpts'[i], i)
      BY <2>2, <2>3, <2>6
    <3>8. DOMAIN chkpts' \subseteq Nat
      BY <2>2, <2>3, <3>3
    <3>9. ck'.idx \in DOMAIN chkpts'
          /\ Newest(ri_checkpoint_last_idx', DOMAIN chkpts' \ {ck'.idx})
      BY <1>3, <2>3, <2>4, <3>3, <3>5
    <3> QED
      BY <3>2, <3>6, <3>7, <3>8, <3>9 DEF Directories
  <2> QED
    BY <1>2, <2>5, <2>6
<1>7. NoneBehind'
  BY <1>1, BehindFrame DEF storeVars, readVars, lastVars
<1>8. Answered'
  BY <1>1, <1>4 DEF Answered, storeVars, Taking, lastVars
<1> QED
  BY <1>4, <1>5, <1>6, <1>7, <1>8

\* Older directories go, the advertised one stays.
LEMMA CleanupCheckpointsInv ==
  ASSUME IndInv, CleanupCheckpoints
  PROVE  IndInv'
<1> USE DEF IndInv
<1>1. /\ pc["chkpt"] = "cleanup" /\ Goto("chkpt", "last")
      /\ chkpts' = Kept(chkpts) /\ ck' = ck
      /\ UNCHANGED <<storeVars, readVars, flagVars, lastVars, snap, wait,
                     fatal, restarted>>
  BY DEF CleanupCheckpoints, Running
<1>2. /\ TypeOK' /\ StoresGood' /\ CurrentStore' /\ SyncLocals'
      /\ ReadSafe' /\ AbortsExplained'
      /\ pc'["chkpt"] = "last" /\ pc'["main"] = pc["main"]
  <2>1. "last" \in Labels
    BY DEF Labels
  <2>2. ri_checkpoint_last_idx' \in Int /\ ri_last_chkpt_err' \in Errors
        /\ ri_user_requested_checkpoint' \in BOOLEAN /\ ck' \in Locals
    BY <1>1 DEF TypeOK, flagVars, lastVars
  <2> QED
    BY <1>1, <2>1, <2>2, ChkptFrame
<1>3. TakeLocals' /\ ReapLocals'
  BY <1>1, <1>2
     DEF TakeLocals, ReapLocals, Taking, Copied, storeVars, lastVars
<1>4. Directories'
  <2>1. /\ DOMAIN chkpts \subseteq Nat /\ IsFiniteSet(DOMAIN chkpts)
        /\ \A i \in DOMAIN chkpts : GoodCheckpoint(chkpts[i], i)
    BY DEF Directories
  <2>2. /\ DOMAIN chkpts' \subseteq Nat /\ IsFiniteSet(DOMAIN chkpts')
        /\ \A i \in DOMAIN chkpts' : GoodCheckpoint(chkpts'[i], i)
    <3>1. DOMAIN chkpts' \subseteq DOMAIN chkpts
          /\ \A i \in DOMAIN chkpts' : chkpts'[i] = chkpts[i]
      BY <1>1, KeptIs
    <3> QED
      BY <2>1, <3>1, FS_Subset
  <2>3. ri_checkpoint_last_idx' = ri_checkpoint_last_idx
        /\ ri_checkpoint_last_idx \in Int
    BY <1>1 DEF lastVars, TypeOK
  <2>4. Pending' = Pending
    BY <1>1, <1>2 DEF Pending, Copied
  <2>5. CASE Pending
    <3>1. ck.idx \in DOMAIN chkpts /\ ri_checkpoint_last_idx < ck.idx
          /\ Newest(ri_checkpoint_last_idx, DOMAIN chkpts \ {ck.idx})
      BY <1>1, <2>5 DEF Directories, TakeLocals, Taking
    <3>2. ck.idx \in DOMAIN chkpts'
          /\ Newest(ri_checkpoint_last_idx, DOMAIN chkpts' \ {ck.idx})
      BY <1>1, <2>1, <2>3, <3>1, PendingKept
    <3> QED
      BY <1>1, <2>2, <2>3, <2>4, <2>5, <3>2 DEF Directories
  <2>6. CASE ~Pending
    <3>1. Newest(ri_checkpoint_last_idx, DOMAIN chkpts')
      BY <1>1, <2>1, <2>3, <2>6, NewestKept DEF Directories
    <3> QED
      BY <1>1, <2>2, <2>3, <2>4, <2>6, <3>1 DEF Directories
  <2> QED
    BY <2>5, <2>6
<1>7. NoneBehind'
  BY <1>1, BehindFrame DEF storeVars, readVars, lastVars
<1>8. Answered'
  BY <1>1, <1>2 DEF Answered, storeVars, Taking, lastVars
<1> QED
  BY <1>2, <1>3, <1>4, <1>7, <1>8

\* A new index is beyond the one it replaces.
LEMMA SetCheckpointLastIdxInv ==
  ASSUME IndInv, SetCheckpointLastIdx
  PROVE  IndInv'
<1> USE DEF IndInv
<1>1. /\ pc["chkpt"] = "last"
      /\ fatal' = IF ck.rc = "none" /\ ck.idx < ri_checkpoint_last_idx
                  THEN "chkpt_index" ELSE "none"
      /\ ri_checkpoint_last_idx' =
           IF ck.rc = "none" THEN ck.idx ELSE ri_checkpoint_last_idx
      /\ ri_last_chkpt_err' =
           IF ck.rc # "none" \/ ck.idx = 0 THEN ck.rc ELSE ri_last_chkpt_err
      /\ UNCHANGED <<storeVars, readVars, chkpts, flagVars, snap, wait,
                     restarted>>
  BY DEF SetCheckpointLastIdx, Running, dirVars
<1>2. PICK l \in {"reap", "idle"} : Goto("chkpt", l) /\ ck' \in Locals
  BY AfterTakeIs DEF SetCheckpointLastIdx
<1>3. /\ ck.idx \in Nat /\ ck.idx <= rla_synced_idx
      /\ ri_checkpoint_last_idx < ck.idx /\ ck.rc \in {"none", "EIO"}
      /\ ri_checkpoint_last_idx \in Int /\ rla_synced_idx \in Int
  BY <1>1 DEF TakeLocals, Taking, TypeOK, Locals
<1>4. fatal' = "none"
  BY <1>1, <1>3
<1>5. /\ TypeOK' /\ StoresGood' /\ CurrentStore' /\ SyncLocals'
      /\ ReadSafe' /\ AbortsExplained'
      /\ pc'["chkpt"] = l /\ pc'["main"] = pc["main"]
  <2>1. l \in Labels
    BY DEF Labels
  <2>2. ri_last_chkpt_err' \in Errors
    BY <1>1, <1>3 DEF Errors, TypeOK
  <2>3. ri_checkpoint_last_idx' \in Int
        /\ ri_user_requested_checkpoint' \in BOOLEAN
    BY <1>1, <1>3 DEF TypeOK, flagVars
  <2> QED
    BY <1>1, <1>2, <1>4, <2>1, <2>2, <2>3, ChkptFrame
<1>6. TakeLocals' /\ ReapLocals'
  BY <1>5 DEF TakeLocals, ReapLocals, Taking, Copied
<1>7. Directories'
  <2>1. ~Pending'
    BY <1>5 DEF Pending, Copied
  <2>2. /\ DOMAIN chkpts \subseteq Nat /\ IsFiniteSet(DOMAIN chkpts)
        /\ \A i \in DOMAIN chkpts : GoodCheckpoint(chkpts[i], i)
    BY DEF Directories
  <2>3. CASE ck.rc = "none"
    <3>1. ck.idx \in DOMAIN chkpts
          /\ Newest(ri_checkpoint_last_idx, DOMAIN chkpts \ {ck.idx})
      BY <1>1, <2>3 DEF Directories, Pending, Copied
    <3>2. Newest(ck.idx, DOMAIN chkpts)
      BY <1>3, <2>2, <3>1, PendingKept
    <3> QED
      BY <1>1, <2>1, <2>2, <2>3, <3>2 DEF Directories
  <2>4. CASE ck.rc # "none"
    <3>1. Newest(ri_checkpoint_last_idx, DOMAIN chkpts)
      BY <2>4 DEF Directories, Pending
    <3> QED
      BY <1>1, <2>1, <2>2, <2>4, <3>1 DEF Directories
  <2> QED
    BY <2>3, <2>4
<1>8. NoneBehind'
  BY <1>1, <1>3 DEF NoneBehind, storeVars, readVars
<1>9. Answered'
  <2>1. ASSUME pc["main"] = "wait"
        PROVE  PriorAnswered' /\ wait.old <= ri_checkpoint_last_idx'
    <3>1. wait.old <= ri_checkpoint_last_idx /\ wait.old \in Int
      BY <2>1 DEF Answered, TypeOK
    <3>2. CASE ck.rc = "none"
      BY <1>1, <1>3, <3>1, <3>2 DEF PriorAnswered
    <3>3. CASE ck.rc # "none"
      BY <1>1, <1>3, <3>1, <3>3 DEF PriorAnswered
    <3> QED
      BY <3>2, <3>3
  <2> QED
    BY <1>1, <1>5, <2>1 DEF Answered, storeVars
<1> QED
  BY <1>5, <1>6, <1>7, <1>8, <1>9

(***************************************************************************)
(* The checkpoint thread reaps the log.                                    *)
(***************************************************************************)

\* The new lowest index passes no registered read, and stays behind the last
\* applied entry of the record.
LEMMA TryIncreaseInv ==
  ASSUME IndInv, TryIncreaseLowestIdx
  PROVE  IndInv'
<1> USE DEF IndInv
<1>1. /\ pc["chkpt"] = "reap"
      /\ fatal' = IF /\ num_keep_entries >= MinScanEntries
                     /\ 0 <= ChkptCompactMaxIdx
                     /\ ChkptCompactMaxIdx < ri_lowest_idx
                  THEN "reap_behind" ELSE "none"
      /\ UNCHANGED <<storeVars, ri_pending_read_idx, rd, dirVars, flagVars,
                     lastVars, snap, wait, restarted>>
  BY DEF TryIncreaseLowestIdx, Running
<1>2. AbortsExplained'
  <2>1. CASE fatal' = "none"
    BY <2>1 DEF AbortsExplained
  <2>2. CASE fatal' # "none"
    <3>1. fatal' = "reap_behind" /\ 0 <= rla_synced_idx
          /\ rla_synced_idx < ri_lowest_idx
      BY <1>1, <2>2 DEF ChkptCompactMaxIdx
    <3>2. restarted
      BY <3>1 DEF NoneBehind, TypeOK
    <3> QED
      BY <1>1, <3>1, <3>2 DEF AbortsExplained
  <2> QED
    BY <2>1, <2>2
<1>3. CASE ~(ReapIsDue /\ ~ReadInRegion(NewLowestIdx))
  <2>1. Goto("chkpt", "idle") /\ ck' = NoLocals
        /\ ri_lowest_idx' = ri_lowest_idx
    BY <1>3 DEF TryIncreaseLowestIdx
  <2>2. /\ pc' \in [Thread -> Labels] /\ pc'["chkpt"] = "idle"
        /\ pc'["main"] = pc["main"] /\ pc'["sync"] = pc["sync"]
    BY <2>1, GotoIs DEF Thread, Labels
  <2>3. TypeOK'
    BY <1>1, <2>1, <2>2, LocalsType
       DEF TypeOK, storeVars, dirVars, flagVars, lastVars
  <2>4. StoresGood' /\ CurrentStore' /\ SyncLocals' /\ ReadSafe'
    BY <1>1, <2>1, <2>2, StoresFrame, CurrentFrame, SyncFrame, ReadFrame
       DEF storeVars
  <2>5. TakeLocals' /\ ReapLocals'
    BY <2>2 DEF TakeLocals, ReapLocals, Taking, Copied
  <2>6. Directories'
    <3>1. ~Pending /\ ~Pending'
      BY <1>1, <2>2 DEF Pending, Copied
    <3> QED
      BY <1>1, <3>1 DEF Directories, lastVars, dirVars
  <2>7. NoneBehind'
    BY <1>1, <2>1, BehindFrame DEF storeVars, lastVars
  <2>8. Answered'
    BY <1>1, <2>2 DEF Answered, Taking, PriorAnswered, storeVars, lastVars,
       flagVars
  <2> QED
    BY <1>2, <2>3, <2>4, <2>5, <2>6, <2>7, <2>8
<1>4. CASE ReapIsDue /\ ~ReadInRegion(NewLowestIdx)
  <2>1. PICK new : new = NewLowestIdx
    OBVIOUS
  <2>2. Goto("chkpt", "delete") /\ ck' = [ck EXCEPT !.idx = new]
        /\ ri_lowest_idx' = new
    BY <1>4, <2>1 DEF TryIncreaseLowestIdx
  <2>3. /\ num_keep_entries \in Int /\ 1 <= num_keep_entries
        /\ rla_synced_idx \in Int /\ ri_lowest_idx \in Int
        /\ new = rla_synced_idx - num_keep_entries
    BY <1>4, <2>1, Tunables, TunableAssumption
       DEF ReapIsDue, NewLowestIdx, ChkptCompactMaxIdx, TypeOK
  <2>4. new > Max({0, ri_lowest_idx}) + num_keep_entries
    BY <1>4, <2>1 DEF ReapIsDue
  <2>5. new \in Int /\ 0 < new /\ ri_lowest_idx < new /\ new < rla_synced_idx
    BY <2>3, <2>4, MaxOfTwo
  <2>6. ri_pending_read_idx = -1 \/ new <= ri_pending_read_idx
    BY <1>4, <2>1, <2>5 DEF ReadInRegion, TypeOK
  <2>7. /\ pc' \in [Thread -> Labels] /\ pc'["chkpt"] = "delete"
        /\ pc'["main"] = pc["main"] /\ pc'["sync"] = pc["sync"]
    BY <2>2, GotoIs DEF Thread, Labels
  <2>8. ck' \in Locals /\ ck'.idx = new
    BY <2>2, <2>5 DEF TypeOK, Locals
  <2>9. TypeOK'
    BY <1>1, <2>2, <2>5, <2>7, <2>8
       DEF TypeOK, storeVars, dirVars, flagVars, lastVars
  <2>10. StoresGood' /\ SyncLocals'
    BY <1>1, <2>7, StoresFrame, SyncFrame DEF storeVars
  <2>11. CurrentStore'
    <3>1. store' = store /\ Lag' = Lag
      BY <1>1, <2>7 DEF storeVars, store, Lag
    <3>2. PICK lo \in Int : /\ Bounds(store.ents, lo, unsync)
                            /\ lo <= 0 \/ lo <= ri_lowest_idx
                            /\ lo <= store.idx + 1
      BY DEF CurrentStore
    <3>3. lo <= 0 \/ lo <= new
      BY <2>3, <2>5, <3>2
    <3> QED
      BY <1>1, <2>2, <3>1, <3>2, <3>3 DEF CurrentStore, storeVars
  <2>12. ReadSafe'
    <3>1. pc["main"] = "read" => new <= rd
      BY <2>5, <2>6 DEF ReadSafe, TypeOK
    <3> QED
      BY <1>1, <2>2, <2>7, <3>1 DEF ReadSafe, storeVars
  <2>13. TakeLocals'
    BY <2>7 DEF TakeLocals, Taking, Copied
  <2>14. ReapLocals'
    <3>1. store' = store /\ store.idx \in Int /\ rla_idx \in Int
      BY <1>1, StoreIs DEF storeVars, store, Store, TypeOK
    <3>2. rla_synced_idx <= store.idx + 1
      BY <2>3, <3>1 DEF CurrentStore, Lag
    <3>3. new <= store.idx
      BY <2>3, <2>5, <3>1, <3>2
    <3> QED
      BY <2>2, <2>5, <2>8, <3>1, <3>3 DEF ReapLocals
  <2>15. Directories'
    <3>1. ~Pending /\ ~Pending'
      BY <1>1, <2>7 DEF Pending, Copied
    <3> QED
      BY <1>1, <3>1 DEF Directories, lastVars, dirVars
  <2>16. NoneBehind'
    BY <1>1, <2>2, <2>3, <2>5 DEF NoneBehind, storeVars, lastVars
  <2>17. Answered'
    BY <1>1, <2>7 DEF Answered, Taking, PriorAnswered, storeVars, lastVars,
       flagVars
  <2> QED
    BY <1>2, <2>9, <2>10, <2>11, <2>12, <2>13, <2>14, <2>15, <2>16, <2>17
<1> QED
  BY <1>3, <1>4

\* What is deleted is applied by the record that stays.
LEMMA LogReapInv ==
  ASSUME IndInv, LogReap
  PROVE  IndInv'
<1> USE DEF IndInv
<1>0. PICK w : w = [store EXCEPT !.ents = Reaped(@, ck.idx)]
  OBVIOUS
<1>1. /\ pc["chkpt"] = "delete" /\ wal' = <<w>> /\ ck' = NoLocals
      /\ Goto("chkpt", "idle")
      /\ UNCHANGED <<unsync, sync, rla_idx, rla_synced_idx, readVars, dirVars,
                     flagVars, lastVars, snap, wait, fatal, restarted>>
  BY <1>0 DEF LogReap, Running
<1>2. /\ pc' \in [Thread -> Labels] /\ pc'["chkpt"] = "idle"
      /\ pc'["main"] = pc["main"] /\ pc'["sync"] = pc["sync"]
  BY <1>1, GotoIs DEF Thread, Labels
<1>3. /\ w \in Store /\ w.ents = {i \in store.ents : i >= ck.idx}
      /\ w.idx = store.idx /\ w.syn = store.syn
  <2>1. store \in Store
    BY StoreIs
  <2>2. {i \in store.ents : i >= ck.idx} \in SUBSET Int
    BY <2>1 DEF Store
  <2> QED
    BY <1>0, <2>1, <2>2 DEF Store, Reaped
<1>4. /\ wal' \in Seq(Store) /\ Len(wal') = 1 /\ store' = w
      /\ \A n \in 1..Len(wal') : wal'[n] = w
  <2> HIDE DEF Store
  <2> QED
    BY <1>1, <1>3, OneStore DEF store
<1>5. /\ ck.idx \in Int /\ 0 < ck.idx /\ ck.idx <= store.idx
      /\ ck.idx = ri_lowest_idx
  BY <1>1 DEF ReapLocals, TypeOK, Locals
<1>6. PICK lo \in Int : /\ Bounds(store.ents, lo, unsync)
                        /\ lo <= 0 \/ lo <= ri_lowest_idx
                        /\ lo <= store.idx + 1
  BY DEF CurrentStore
<1>7. store.idx \in Int /\ store.syn \in Int /\ store.idx <= unsync
  <2>1. store.idx \in Int /\ store.syn \in Int
    BY StoreIs DEF Store
  <2>2. rla_idx = store.idx \/ rla_idx = store.idx + 1
    BY <2>1 DEF CurrentStore, Lag
  <2> QED
    BY <2>1, <2>2 DEF CurrentStore, TypeOK
<1>8. Bounds(w.ents, ck.idx, unsync)
  <2>1. store.ents = lo..unsync /\ lo \in Nat /\ unsync \in Int
    BY <1>6 DEF Bounds
  <2>2. ck.idx \in Nat /\ ck.idx <= unsync /\ lo <= ck.idx
    BY <1>5, <1>6, <1>7, <2>1
  <2>3. w.ents = ck.idx..unsync
    BY <1>3, <2>1, <2>2
  <2> QED
    BY <2>1, <2>2, <2>3 DEF Bounds
<1>9. StoresGood'
  <2>1. GoodStore(store)
    BY StoreIs DEF StoresGood
  <2>2. -1 <= w.syn /\ w.syn <= w.idx
    BY <1>3, <2>1 DEF GoodStore
  <2>3. ck.idx <= w.idx + 1 /\ w.idx <= unsync /\ unsync \in Int
    BY <1>3, <1>5, <1>7 DEF TypeOK
  <2>4. GoodStore(w)
    BY <1>5, <1>8, <2>2, <2>3 DEF GoodStore
  <2> QED
    BY <1>4, <2>4 DEF StoresGood
<1>10. TypeOK'
  BY <1>1, <1>2, <1>4, LocalsType
     DEF TypeOK, readVars, dirVars, flagVars, lastVars
<1>11. CurrentStore'
  <2>1. Lag' = Lag
    BY <1>2 DEF Lag
  <2>2. ck.idx <= w.idx + 1
    BY <1>3, <1>5, <1>7
  <2>3. \E l \in Int : /\ Bounds(w.ents, l, unsync)
                       /\ l <= 0 \/ l <= ri_lowest_idx
                       /\ l <= w.idx + 1
    BY <1>5, <1>8, <2>2
  <2> QED
    BY <1>1, <1>3, <1>4, <2>1, <2>3 DEF CurrentStore, readVars
<1>12. SyncLocals' /\ ReadSafe'
  BY <1>1, <1>2, SyncFrame, ReadFrame DEF readVars
<1>13. TakeLocals' /\ ReapLocals'
  BY <1>2 DEF TakeLocals, ReapLocals, Taking, Copied
<1>14. Directories'
  <2>1. ~Pending /\ ~Pending'
    BY <1>1, <1>2 DEF Pending, Copied
  <2> QED
    BY <1>1, <2>1 DEF Directories, lastVars, dirVars
<1>15. NoneBehind' /\ AbortsExplained'
  BY <1>1, BehindFrame, AbortsFrame DEF readVars, lastVars
<1>16. Answered'
  BY <1>1, <1>2 DEF Answered, Taking, PriorAnswered, lastVars, flagVars
<1> QED
  BY <1>9, <1>10, <1>11, <1>12, <1>13, <1>14, <1>15, <1>16

(***************************************************************************)
(* Starts.                                                                 *)
(***************************************************************************)

\* The scan of a start finds all headers it reads.
LEMMA ScanFinds ==
  ASSUME NEW E, NEW lo \in Int, NEW hi \in Int, Bounds(E, lo, hi)
  PROVE  ScannedEntries(E) \subseteq E
<1> DEFINE num    == NumEntries(E)
           lowest == LowestEntry(E)
           start  == ScanStart(lowest, num)
<1>1. num = hi + 1 /\ lowest = IF hi = -1 THEN -1 ELSE lo
  BY BoundsEnds DEF NumEntries
<1>2. num \in Int /\ lowest \in Int /\ E = lo..hi /\ lo \in Nat
  BY <1>1 DEF Bounds
<1>3. start \in Int /\ start = IF ri_max_scan_entries > 0 /\ num > ri_max_scan_entries
              THEN IF lowest >= num - ri_max_scan_entries THEN lowest
                   ELSE num - ri_max_scan_entries
              ELSE IF 0 >= lowest THEN 0 ELSE lowest
  BY <1>2, Tunables, MaxOfTwo DEF ScanStart
<1>4. Min({lowest + InitialScan, num}) \in Int
      /\ Min({lowest + InitialScan, num}) <= num
  BY <1>2, TunableAssumption, MinOfTwo
<1>5. ScannedEntries(E) =
        (start..(num - 1)) \cup
        (IF start > 0 THEN lowest..(Min({lowest + InitialScan, num}) - 1)
         ELSE {})
  BY DEF ScannedEntries
<1> HIDE DEF num, lowest, start
<1>6. CASE hi = -1
  <2>1. num = 0 /\ lowest = -1 /\ start = 0
    BY <1>1, <1>3, <1>6, Tunables
  <2> QED
    BY <1>5, <2>1
<1>7. CASE hi # -1
  <2>1. lowest = lo /\ num = hi + 1 /\ lo <= start
    BY <1>1, <1>2, <1>3, <1>7, Tunables
  <2>2. start..(num - 1) \subseteq E
    BY <1>2, <1>3, <2>1
  <2>3. lowest..(Min({lowest + InitialScan, num}) - 1) \subseteq E
    BY <1>2, <1>4, <2>1
  <2> QED
    BY <1>5, <2>2, <2>3
<1> QED
  BY <1>6, <1>7

\* What a start leaves of the directories
LEMMA RestartDirectories ==
  ASSUME TypeOK, TakeLocals, Directories
  PROVE  /\ DOMAIN Kept(chkpts) \subseteq Nat
         /\ IsFiniteSet(DOMAIN Kept(chkpts))
         /\ \A i \in DOMAIN Kept(chkpts) : GoodCheckpoint(Kept(chkpts)[i], i)
         /\ Newest(Highest(DOMAIN chkpts), DOMAIN Kept(chkpts))
         /\ Highest(DOMAIN chkpts) \in Int
         /\ ri_checkpoint_last_idx \in DOMAIN chkpts
              => ri_checkpoint_last_idx \in DOMAIN Kept(chkpts)
<1>1. /\ DOMAIN chkpts \subseteq Nat /\ IsFiniteSet(DOMAIN chkpts)
      /\ \A i \in DOMAIN chkpts : GoodCheckpoint(chkpts[i], i)
      /\ ri_checkpoint_last_idx \in Int
  BY DEF Directories, TypeOK
<1>2. /\ DOMAIN Kept(chkpts) \subseteq Nat /\ IsFiniteSet(DOMAIN Kept(chkpts))
      /\ \A i \in DOMAIN Kept(chkpts) : GoodCheckpoint(Kept(chkpts)[i], i)
  BY <1>1, KeptIs, FS_Subset
<1>3. CASE Pending
  <2>1. /\ ck.idx \in DOMAIN chkpts /\ ri_checkpoint_last_idx < ck.idx
        /\ Newest(ri_checkpoint_last_idx, DOMAIN chkpts \ {ck.idx})
    BY <1>3 DEF Directories, Pending, TakeLocals, Taking, Copied
  <2>2. /\ Newest(ck.idx, DOMAIN chkpts)
        /\ ri_checkpoint_last_idx \in DOMAIN chkpts
              => ri_checkpoint_last_idx \in DOMAIN Kept(chkpts)
    BY <1>1, <2>1, PendingKept
  <2>3. Highest(DOMAIN chkpts) = ck.idx /\ ck.idx \in Int
    BY <1>1, <2>1, <2>2, NewestIs
  <2>4. Newest(ck.idx, DOMAIN Kept(chkpts))
    BY <1>1, <2>2, <2>3, NewestKept
  <2> QED
    BY <1>2, <2>2, <2>3, <2>4
<1>4. CASE ~Pending
  <2>1. Newest(ri_checkpoint_last_idx, DOMAIN chkpts)
    BY <1>4 DEF Directories
  <2>2. Highest(DOMAIN chkpts) = ri_checkpoint_last_idx
    BY <1>1, <2>1, NewestIs
  <2>3. Newest(ri_checkpoint_last_idx, DOMAIN Kept(chkpts))
    BY <1>1, <2>1, NewestKept
  <2>4. ri_checkpoint_last_idx \in DOMAIN chkpts
              => ri_checkpoint_last_idx \in DOMAIN Kept(chkpts)
    BY <1>1, <2>1, KeptNewest DEF Newest
  <2> QED
    BY <1>1, <1>2, <2>2, <2>3, <2>4
<1> QED
  BY <1>3, <1>4

\* A start from any store that a crash may leave
LEMMA RestartInv ==
  ASSUME IndInv, NEW n \in 1..Len(wal), Restart(wal[n])
  PROVE  IndInv'
<1> USE DEF IndInv
<1>0. PICK w : w = wal[n]
  OBVIOUS
<1>1. /\ wal' = <<w>>
      /\ unsync' = NumEntries(w.ents) - 1 /\ sync' = NumEntries(w.ents) - 1
      /\ rla_idx' = w.idx /\ rla_synced_idx' = w.syn
      /\ ri_lowest_idx' = LowestEntry(w.ents) /\ ri_pending_read_idx' = -1
      /\ rd' = -1 /\ chkpts' = Kept(chkpts)
      /\ ri_user_requested_checkpoint' = FALSE
      /\ ri_checkpoint_last_idx' = Highest(DOMAIN chkpts)
      /\ ri_last_chkpt_err' = "none"
      /\ pc' = [t \in Thread |-> "idle"]
      /\ ck' = NoLocals /\ snap' = NoSnap /\ wait' = NoWait
      /\ restarted' = TRUE
  BY <1>0 DEF Restart
<1>2. w \in Store /\ GoodStore(w)
  <2>1. wal \in Seq(Store) /\ n \in 1..Len(wal)
    BY DEF TypeOK
  <2> HIDE DEF Store
  <2>2. w \in Store
    BY <1>0, <2>1
  <2> QED
    BY <1>0, <2>2 DEF StoresGood
<1>3. w.idx \in Int /\ w.syn \in Int /\ -1 <= w.syn /\ w.syn <= w.idx
  BY <1>2 DEF GoodStore, Store
<1>4. PICK lo \in Int, hi \in Int :
        Bounds(w.ents, lo, hi) /\ lo <= w.idx + 1 /\ w.idx <= hi
  BY <1>2 DEF GoodStore
<1>5. /\ unsync' = hi /\ sync' = hi
      /\ ri_lowest_idx' = IF hi = -1 THEN -1 ELSE lo
  BY <1>1, <1>4, BoundsEnds DEF NumEntries
<1>6. fatal' = "none"
  <2>1. ScannedEntries(w.ents) \subseteq w.ents
    BY <1>4, ScanFinds
  <2> QED
    BY <1>0, <2>1 DEF Restart
<1>7. /\ wal' \in Seq(Store) /\ Len(wal') = 1 /\ store' = w
      /\ \A m \in 1..Len(wal') : wal'[m] = w
  <2> HIDE DEF Store
  <2> QED
    BY <1>1, <1>2, OneStore DEF store
<1>8. /\ pc' \in [Thread -> Labels] /\ pc'["main"] = "idle"
      /\ pc'["sync"] = "idle" /\ pc'["chkpt"] = "idle"
  BY <1>1 DEF Thread, Labels
<1>9. TypeOK'
  <2>1. ri_checkpoint_last_idx' \in Int
    BY <1>1, RestartDirectories
  <2>2. snap' \in [applied : Int, unsync : Int]
    BY <1>1 DEF NoSnap
  <2>3. wait' \in [old : Int, asked : Int, result : Errors \cup {"ok"}]
    BY <1>1 DEF NoWait, Errors
  <2>4. ck' \in Locals /\ ri_last_chkpt_err' \in Errors
    BY <1>1, LocalsType DEF Errors
  <2>5. ri_lowest_idx' \in Int /\ unsync' \in Int /\ sync' \in Int
    BY <1>5
  <2>6. ri_user_requested_checkpoint' \in BOOLEAN /\ restarted' \in BOOLEAN
    BY <1>1
  <2>7. ri_pending_read_idx' \in Int /\ rd' \in Int /\ rla_idx' \in Int
        /\ rla_synced_idx' \in Int
    BY <1>1, <1>3
  <2> QED
    BY <1>7, <1>8, <2>1, <2>2, <2>3, <2>4, <2>5, <2>6, <2>7 DEF TypeOK
<1>10. StoresGood'
  BY <1>2, <1>7 DEF StoresGood
<1>11. CurrentStore'
  <2>1. Lag' = 0
    BY <1>8 DEF Lag
  <2>2. rla_idx' = w.idx + 0 /\ w.idx <= hi
    BY <1>1, <1>3, <1>4
  <2>3. lo <= 0 \/ lo <= ri_lowest_idx'
    BY <1>4, <1>5 DEF Bounds
  <2> QED
    BY <1>1, <1>3, <1>4, <1>5, <1>7, <2>1, <2>2, <2>3 DEF CurrentStore
<1>12. SyncLocals' /\ ReadSafe' /\ ReapLocals' /\ Answered'
  BY <1>1, <1>8 DEF SyncLocals, ReadSafe, ReapLocals, Answered
<1>13. TakeLocals'
  BY <1>8 DEF TakeLocals, Taking, Copied
<1>14. Directories'
  <2>1. ~Pending'
    BY <1>8 DEF Pending, Copied
  <2> QED
    BY <1>1, <2>1, RestartDirectories DEF Directories
<1>15. NoneBehind' /\ AbortsExplained'
  BY <1>1, <1>6 DEF NoneBehind, AbortsExplained
<1> QED
  BY <1>9, <1>10, <1>11, <1>12, <1>13, <1>14, <1>15

\* The log the server starts on
LEMMA InitInv ==
  ASSUME Init
  PROVE  IndInv
<1>0. PICK w : w = FirstStore
  OBVIOUS
<1>1. /\ wal = <<w>> /\ unsync = FirstIdx /\ sync = FirstIdx
      /\ rla_idx = w.idx /\ rla_synced_idx = w.syn
      /\ ri_lowest_idx = LowestEntry(w.ents) /\ ri_pending_read_idx = -1
      /\ rd = -1 /\ chkpts = <<>> /\ ri_checkpoint_last_idx = -1
      /\ ri_user_requested_checkpoint = FALSE /\ ri_last_chkpt_err = "none"
      /\ pc = [t \in Thread |-> "idle"]
      /\ ck = NoLocals /\ snap = NoSnap /\ wait = NoWait
      /\ fatal = "none" /\ restarted = FALSE
  BY <1>0 DEF Init
<1>2. /\ FirstIdx \in Int /\ -1 <= FirstIdx /\ FirstApplied \in Int
      /\ -1 <= FirstApplied /\ FirstApplied <= FirstIdx
  BY BoundAssumption
<1>3. Max({-1, FirstApplied - 1}) = IF -1 >= FirstApplied - 1 THEN -1
                                    ELSE FirstApplied - 1
  BY <1>2, MaxOfTwo
<1>4. /\ w \in Store /\ w.ents = 0..FirstIdx /\ w.idx = FirstApplied
      /\ w.syn \in Int /\ -1 <= w.syn /\ w.syn <= FirstApplied
  <2>1. 0..FirstIdx \in SUBSET Int
    BY <1>2
  <2> QED
    BY <1>0, <1>2, <1>3, <2>1 DEF FirstStore, Store
<1>5. Bounds(w.ents, 0, FirstIdx)
  BY <1>2, <1>4 DEF Bounds
<1>6. ri_lowest_idx = IF FirstIdx = -1 THEN -1 ELSE 0
  BY <1>1, <1>5, BoundsEnds
<1>7. /\ wal \in Seq(Store) /\ Len(wal) = 1 /\ store = w
      /\ \A m \in 1..Len(wal) : wal[m] = w
  <2> HIDE DEF Store
  <2> QED
    BY <1>1, <1>4, OneStore DEF store
<1>8. /\ pc \in [Thread -> Labels] /\ pc["main"] = "idle"
      /\ pc["sync"] = "idle" /\ pc["chkpt"] = "idle"
  BY <1>1 DEF Thread, Labels
<1>9. TypeOK
  <2>2. snap \in [applied : Int, unsync : Int]
    BY <1>1 DEF NoSnap
  <2>3. wait \in [old : Int, asked : Int, result : Errors \cup {"ok"}]
    BY <1>1 DEF NoWait, Errors
  <2>4. ck \in Locals /\ ri_last_chkpt_err \in Errors
    BY <1>1, LocalsType DEF Errors
  <2>5. ri_lowest_idx \in Int /\ unsync \in Int /\ sync \in Int
    BY <1>1, <1>2, <1>6
  <2>6. ri_user_requested_checkpoint \in BOOLEAN /\ restarted \in BOOLEAN
    BY <1>1
  <2>7. ri_pending_read_idx \in Int /\ rd \in Int /\ rla_idx \in Int
        /\ rla_synced_idx \in Int /\ ri_checkpoint_last_idx \in Int
    BY <1>1, <1>2, <1>4
  <2> QED
    BY <1>7, <1>8, <2>2, <2>3, <2>4, <2>5, <2>6, <2>7 DEF TypeOK
<1>10. StoresGood
  <2>1. GoodStore(w)
    <3>1. 0 <= w.idx + 1 /\ w.idx <= FirstIdx /\ w.syn <= w.idx
      BY <1>2, <1>4
    <3> QED
      BY <1>2, <1>4, <1>5, <3>1 DEF GoodStore
  <2> QED
    BY <1>7, <2>1 DEF StoresGood
<1>11. CurrentStore
  <2>1. Lag = 0
    BY <1>8 DEF Lag
  <2>2. rla_idx = w.idx + 0 /\ w.idx <= FirstIdx /\ 0 <= w.idx + 1
    BY <1>1, <1>2, <1>4
  <2> QED
    BY <1>1, <1>2, <1>4, <1>5, <1>7, <2>1, <2>2 DEF CurrentStore
<1>12. SyncLocals /\ ReadSafe /\ ReapLocals /\ Answered
  BY <1>1, <1>8 DEF SyncLocals, ReadSafe, ReapLocals, Answered
<1>13. TakeLocals
  BY <1>8 DEF TakeLocals, Taking, Copied
<1>14. Directories
  <2>1. ~Pending
    BY <1>8 DEF Pending, Copied
  <2>2. DOMAIN chkpts = {}
    BY <1>1
  <2> QED
    BY <1>1, <2>1, <2>2, FS_EmptySet DEF Directories, Newest
<1>15. NoneBehind /\ AbortsExplained
  BY <1>1, <1>4, <1>6 DEF NoneBehind, AbortsExplained
<1> QED
  BY <1>9, <1>10, <1>11, <1>12, <1>13, <1>14, <1>15 DEF IndInv

\* A step that changes nothing
LEMMA StutterInv ==
  ASSUME IndInv, UNCHANGED vars
  PROVE  IndInv'
<1> USE DEF IndInv
<1>1. UNCHANGED <<storeVars, readVars, dirVars, flagVars, lastVars, pc, ck,
                  snap, wait, restarted, fatal>>
  BY DEF vars
<1>2. TypeOK'
  BY <1>1 DEF TypeOK, storeVars, readVars, dirVars, flagVars, lastVars
<1>3. StoresGood' /\ CurrentStore' /\ SyncLocals' /\ ReadSafe'
  BY <1>1, StoresFrame, CurrentFrame, SyncFrame, ReadFrame
     DEF storeVars, readVars
<1>4. TakeLocals' /\ Directories' /\ ReapLocals'
  BY <1>1, TakeFrame, DirFrame, ReapFrame
     DEF storeVars, lastVars, dirVars, readVars
<1>5. NoneBehind' /\ Answered' /\ AbortsExplained'
  BY <1>1, BehindFrame, AnsweredFrame, AbortsFrame
     DEF storeVars, lastVars, flagVars, readVars
<1> QED
  BY <1>2, <1>3, <1>4, <1>5

(***************************************************************************)
(* Theorems.                                                               *)
(***************************************************************************)

\* The invariant of the three threads is inductive: no step of one of them,
\* and no stop of the process, breaks what the others rely on.
THEOREM CompactionInvariant == Spec => []IndInv
<1>1. Init => IndInv
  BY InitInv
<1>2. ASSUME IndInv, [Next]_vars
      PROVE  IndInv'
  <2>1. CASE MainStep
    BY <1>2, <2>1, WriteEntryInv, SetLastAppliedInv, SmApplyOptInv,
       ReadRangeCheckInv, ReadRegisterInv, ReadRegisterAbortInv, EntryReadInv,
       PriorToRecoveryInv, PriorDoneInv DEF MainStep
  <2>2. CASE SyncStep
    BY <1>2, <2>2, SyncSnapshotInv, SyncBackendInv DEF SyncStep
  <2>3. CASE ChkptStep
    BY <1>2, <2>3, ChkptRoundInv, ChkptRoundAbortInv, TakeAlreadyInv,
       TakeStartInv, CreateCheckpointInv, CreateFailsInv, RenameCheckpointInv,
       CleanupCheckpointsInv, SetCheckpointLastIdxInv, TryIncreaseInv,
       LogReapInv DEF ChkptStep
  <2>4. CASE RequestCheckpoint \/ RequestReap
    BY <1>2, <2>4, RequestInv
  <2>5. CASE \E n \in 1..Len(wal) : Restart(wal[n])
    BY <1>2, <2>5, RestartInv
  <2>6. CASE UNCHANGED vars
    BY <1>2, <2>6, StutterInv
  <2> QED
    BY <1>2, <2>1, <2>2, <2>3, <2>4, <2>5, <2>6 DEF Next
<1> QED
  BY <1>1, <1>2, PTL DEF Spec

\* AbortsExplained: the assertions of raft_server.c that fail are the one of
\* the reader that loses the race, and the two on rla_synced_idx after a start;
\* no registered read misses its entry and every scanned header is there.
THEOREM CompactionAborts == Spec => []AbortsExplained
<1>1. IndInv => AbortsExplained
  BY DEF IndInv
<1> QED
  BY <1>1, CompactionInvariant, PTL

\* AppliedOrLogged: rsbr_log_reap() removes no entry that a start from any
\* store a crash may leave still has to apply.
THEOREM ReapedIsApplied == Spec => []AppliedOrLogged
<1>1. IndInv => AppliedOrLogged
  <2> SUFFICES ASSUME IndInv, NEW n \in 1..Len(wal)
               PROVE  Replayable(wal[n])
    BY DEF AppliedOrLogged
  <2>1. PICK w : w = wal[n]
    OBVIOUS
  <2>2. w.idx \in Int /\ GoodStore(w)
    <3>1. wal \in Seq(Store) /\ n \in 1..Len(wal)
      BY DEF IndInv, TypeOK
    <3>2. wal[n] \in Store
      <4> HIDE DEF Store
      <4> QED
        BY <3>1
    <3> QED
      BY <2>1, <3>2 DEF IndInv, StoresGood, Store
  <2>3. PICK lo \in Int, hi \in Int :
          Bounds(w.ents, lo, hi) /\ lo <= w.idx + 1 /\ w.idx <= hi
    BY <2>2 DEF GoodStore
  <2>4. Highest(w.ents) = hi /\ w.ents = lo..hi
    BY <2>3, BoundsEnds DEF Bounds
  <2>5. (w.idx + 1)..hi \subseteq lo..hi
    BY <2>2, <2>3
  <2> QED
    BY <2>1, <2>4, <2>5 DEF Replayable
<1> QED
  BY <1>1, CompactionInvariant, PTL

\* CheckpointComplete: every directory with its final name is a store to start
\* from, and the advertised index names one.
THEOREM CheckpointsComplete == Spec => []CheckpointComplete
<1>1. IndInv => CheckpointComplete
  <2> SUFFICES ASSUME IndInv
               PROVE  CheckpointComplete
    OBVIOUS
  <2>1. \A i \in DOMAIN chkpts :
          /\ Replayable(chkpts[i])
          /\ i <= Highest(chkpts[i].ents) /\ chkpts[i].idx >= i - 1
    <3> SUFFICES ASSUME NEW i \in DOMAIN chkpts
                 PROVE  /\ Replayable(chkpts[i])
                        /\ i <= Highest(chkpts[i].ents) /\ chkpts[i].idx >= i - 1
      OBVIOUS
    <3>1. PICK st : st = chkpts[i]
      OBVIOUS
    <3>2. GoodCheckpoint(st, i) /\ i \in Nat
      BY <3>1 DEF IndInv, Directories
    <3>3. PICK lo \in Int, hi \in Int :
            Bounds(st.ents, lo, hi) /\ lo <= st.idx + 1 /\ i <= hi
      BY <3>2 DEF GoodCheckpoint
    <3>4. Highest(st.ents) = hi /\ st.ents = lo..hi
      BY <3>3, BoundsEnds DEF Bounds
    <3>5. (st.idx + 1)..hi \subseteq lo..hi
      BY <3>2, <3>3 DEF GoodCheckpoint
    <3> QED
      BY <3>1, <3>2, <3>3, <3>4, <3>5 DEF Replayable, GoodCheckpoint
  <2>2. ri_checkpoint_last_idx >= 0 => ri_checkpoint_last_idx \in DOMAIN chkpts
    BY DEF IndInv, Directories, Newest
  <2> QED
    BY <2>1, <2>2 DEF CheckpointComplete
<1> QED
  BY <1>1, CompactionInvariant, PTL

\* RequestNotLost: raft_server_chkpt_prior_to_recovery() has an answer when
\* the checkpoint thread has nothing to do for it any more.
THEOREM RequestAnswered == Spec => []RequestNotLost
<1>1. IndInv => RequestNotLost
  BY DEF IndInv, RequestNotLost, Answered, Taking, TypeOK
<1> QED
  BY <1>1, CompactionInvariant, PTL

\* PreviousKept: the checkpoint that was advertised before is still there when
\* a new one is.
THEOREM PreviousCheckpointKept == Spec => PreviousKept
<1>1. ASSUME IndInv, [Next]_vars
      PROVE  /\ ri_checkpoint_last_idx >= 0
             /\ ri_checkpoint_last_idx' # ri_checkpoint_last_idx
             => ri_checkpoint_last_idx \in DOMAIN chkpts'
  <2> SUFFICES ASSUME ri_checkpoint_last_idx >= 0,
                      ri_checkpoint_last_idx' # ri_checkpoint_last_idx
               PROVE  ri_checkpoint_last_idx \in DOMAIN chkpts'
    OBVIOUS
  <2>1. ri_checkpoint_last_idx \in DOMAIN chkpts
    BY <1>1 DEF IndInv, Directories, Newest, TypeOK
  <2>2. ~MainStep
    BY DEF MainStep, WriteEntry, SetLastApplied, SmApplyOpt, ReadRangeCheck,
       ReadRegister, ReadRegisterAbort, EntryRead, PriorToRecovery, PriorDone,
       Abort, lastVars
  <2>3. ~SyncStep
    BY DEF SyncStep, SyncSnapshot, SyncBackend, lastVars
  <2>4. ~(RequestCheckpoint \/ RequestReap) /\ ~UNCHANGED vars
    BY DEF RequestCheckpoint, RequestReap, lastVars, vars
  <2>5. CASE ChkptStep
    <3>1. SetCheckpointLastIdx
      BY <2>5 DEF ChkptStep, ChkptRound, ChkptRoundAbort, TakeAlready,
         TakeStart, CreateCheckpoint, CreateFails, RenameCheckpoint,
         CleanupCheckpoints, TryIncreaseLowestIdx, LogReap, Abort, lastVars
    <3> QED
      BY <2>1, <3>1 DEF SetCheckpointLastIdx, dirVars
  <2>6. CASE \E n \in 1..Len(wal) : Restart(wal[n])
    <3>1. chkpts' = Kept(chkpts)
      BY <2>6 DEF Restart
    <3> QED
      BY <1>1, <2>1, <3>1, RestartDirectories DEF IndInv
  <2> QED
    BY <1>1, <2>2, <2>3, <2>4, <2>5, <2>6 DEF Next
<1> QED
  BY <1>1, CompactionInvariant, PTL DEF Spec, PreviousKept
====
