----------------------- MODULE ServerInstance_proofs -----------------------
(***************************************************************************)
(* Proofs about ServerInstance, for every number of leaders, log length    *)
(* and bound: whatever call fails and wherever the process ends, the       *)
(* server keeps a database, its log, and a reason for every exit.          *)
(***************************************************************************)
EXTENDS ServerInstance, FiniteSetTheorems, TLAPS

-----------------------------------------------------------------------------
(* Operators *)

\* The steps of the start, one by one
LEMMA StartSteps ==
  /\ Len(StartOrder) = 12
  /\ \A i \in 1..12 :
       /\ StartOrder[i] = "backend" <=> i = 5
       /\ StartOrder[i] = "log" <=> i = 8
       /\ StartOrder[i] = "bind" <=> i = 12
<1>1. Len(StartOrder) = 12
  BY DEF StartOrder
<1>2. ASSUME NEW i \in 1..12
      PROVE  /\ StartOrder[i] = "backend" <=> i = 5
             /\ StartOrder[i] = "log" <=> i = 8
             /\ StartOrder[i] = "bind" <=> i = 12
  <2>1. i \in {1,2,3,4,5,6,7,8,9,10,11,12}
    OBVIOUS
  <2> QED
    BY <2>1 DEF StartOrder
<1> QED
  BY <1>1, <1>2

\* Everything the start sets up
LEMMA ResourcesAre ==
  Resources = {"conf", "sockets", "timerfd", "epoll", "backend", "buffers",
               "lreg", "evps", "sync_thread", "chkpt_thread"}
<1>1. DOMAIN StartOrder = 1..12
  BY DEF StartOrder
<1>2. \A i \in 1..12 : i \in {1,2,3,4,5,6,7,8,9,10,11,12}
  OBVIOUS
<1>3. ToSet(StartOrder) = {StartOrder[i] : i \in {1,2,3,4,5,6,7,8,9,10,11,12}}
  BY <1>1, <1>2 DEF ToSet
<1>4. ToSet(StartOrder) = {"conf", "sockets", "timerfd", "epoll",
    "backend", "buffers", "lreg", "log", "evps", "sync_thread",
    "chkpt_thread", "bind"}
  BY <1>3 DEF StartOrder
<1> QED
  BY <1>4 DEF Resources

\* raft_net_instance_shutdown() releases all of it.
LEMMA ShutdownReleases ==
  ASSUME NEW h \in SUBSET Resources
  PROVE  NetShutdown(h) = {} /\ ShutdownCb(h) \subseteq Resources
BY ResourcesAre DEF NetShutdown, ShutdownCb, ChkptThreadJoin, SyncThreadJoin,
  BackendClose, EvpCleanup, LregRemove, BufferSetDestroy, SocketsClose,
  EpollCleanup, TimerfdClose, ConfDestroy

\* Max on the two numbers that a history keeps the larger of
LEMMA MaxOfTwo ==
  ASSUME NEW a \in Int, NEW b \in Int
  PROVE  Max({a, b}) \in {a, b} /\ Max({a, b}) >= a /\ Max({a, b}) >= b
<1>1. \E x \in {a, b} : \A y \in {a, b} : x >= y
  BY a >= b \/ b >= a
<1> QED
  BY <1>1 DEF Max

\* Min on two numbers
LEMMA MinOfTwo ==
  ASSUME NEW a \in Int, NEW b \in Int
  PROVE  Min({a, b}) \in {a, b} /\ Min({a, b}) <= a /\ Min({a, b}) <= b
<1>1. \E x \in {a, b} : \A y \in {a, b} : x <= y
  BY a >= b \/ b >= a
<1> QED
  BY <1>1 DEF Min

-----------------------------------------------------------------------------
(* The inductive invariant *)

\* The steps of a recovery, as pc values
Copying == {"import", "xfer", "verify", "stage"}

\* The steps from the removal of the old database on
Placing == {"open", "scrub", "header", "promote"}

\* All of them
Recovering == Copying \cup {"remove"} \cup Placing

\* There is one marker at most, and only of a server that has run.  Its directory
\* is whole, opens under the peer's uuid unless a comparison was stale, and is
\* not behind the log the server ran with.
MarkersInv ==
  /\ \A p, q \in Markers : p = q
  /\ \A p \in Markers :
       /\ born /\ stage[p].full /\ stage[p].hdr[p] >= 0
       /\ stage[p].uuid = p \/ stage[p].pre = p \/ stale
       /\ ~short => stage[p].idx >= ran.idx

\* What is in db/ is whole, and can be started from once the server has run; it
\* is not behind the log the server ran with.  If it is gone, there is a marker.
DbInv ==
  /\ db.kind = "db" =>
       /\ db.full /\ db.mine = Entries /\ db.uuid \in {Self, NoPeer}
       /\ born => Usable(db)
       /\ ~short => db.idx >= ran.idx
  /\ born => Usable(db) \/ Markers # {}
  /\ ~born => ran.idx = -1

\* The recovery that an AE request of a leader has asked for
FromLeader ==
  /\ needs /\ ~rrh.marker /\ rrh.peer \in Peers /\ Markers = {}
  /\ db.kind = "db" /\ born
  /\ ~short => rrh.idx >= 0 /\ rrh.idx >= ran.idx

\* The recovery that a marker has asked for
FromMarker == needs /\ rrh.marker /\ rrh.peer \in Markers

\* What the recovery handle, the copy and the staged directory are at each step
HandleInv ==
  /\ pc \in Copying \cup {"stop"} => FromLeader
  /\ pc = "while" => FromLeader \/ FromMarker
  /\ pc = "loop" => ~needs \/ FromLeader \/ FromMarker
  /\ pc \in {"while", "loop"} /\ needs /\ resumed => rrh.marker
  /\ pc \in {"xfer", "verify", "stage"} => rrh.idx >= 0
  /\ pc = "stage" => copy[rrh.peer] = [idx |-> rrh.idx, full |-> TRUE]
  /\ pc \in Placing \cup {"remove"} => rrh.peer \in Markers
  /\ pc \in Placing => db = NoDir
  /\ pc \in {"scrub", "header"} => hdr >= 0
  /\ pc = "scrub" /\ recuuid = rrh.peer =>
       stage[rrh.peer].pre = rrh.peer \/ stale
  /\ pc \in {"header", "promote"} =>
       stage[rrh.peer].mine = Entries /\ stage[rrh.peer].uuid = Self
  /\ pc = "promote" => stage[rrh.peer].hdr[Self] >= 0

\* What the start has found out at each step
StartInv ==
  /\ pc = "create" => ~born /\ Markers = {} /\ db.kind = "db" /\ pos = 5
  /\ pc = "start" /\ pos > 5 => Markers = {} /\ db.kind = "db" /\ db.uuid = Self
  /\ (pc = "start" /\ pos > 8) \/ pc = "run" =>
       Usable(db) /\ hdr = db.hdr[Self] /\ Markers = {}
  /\ pc = "run" => born

\* ri_proc_state: a process that has met a marker is "shutdown" for good, any
\* other holds nothing when it loops.
ProcInv ==
  /\ resumed =>
       /\ pc \in {"while", "loop", "init", "remove", "exited", "aborted"}
            \cup Placing
       /\ pc \in {"while", "loop", "init"} => proc = "shutdown"
       /\ pc \in Recovering => saved = "shutdown"
  /\ ~resumed =>
       /\ pc \in {"loop", "init"} \/ (pc = "while" /\ rc = "ok") => proc = "booting"
       /\ pc \in Recovering => saved = "booting"
       /\ pc \in {"while", "loop", "init"} \cup Recovering => held = {}

\* One attempt is used by a leader's request, one by a marker, and a recovery
\* that succeeds gives both back.
TriesInv ==
  /\ RecoveryAttempts - 2 <= tries
  /\ ~resumed => tries >= RecoveryAttempts - 1
  /\ ~resumed /\ rc = "ok" /\
       (pc \in {"init", "start", "create", "run", "stop", "while"}
          \/ (pc = "loop" /\ ~needs))
     => tries = RecoveryAttempts
  /\ resumed /\ pc = "while" => tries >= RecoveryAttempts - 1

\* The errors and the assertions, with their reasons
RcInv ==
  /\ rc = "ENODEV" => stale
  /\ rc = "EINVAL" => short \/ (pc = "exited" /\ Markers # {} /\ ~parses)
  /\ rc = "ENOENT" => pc = "exited" /\ ~born
  /\ pc = "aborted" =>
       \/ rc = "not_booting" /\ resumed
       \/ rc = "no_uuid" /\ ~born
       \/ rc = "no_backend" /\ faults > 0
  /\ pc = "exited" => rc # "ok"

\* The inductive invariant
IInv ==
  /\ TypeOK /\ MarkersInv /\ DbInv /\ HandleInv
  /\ StartInv /\ ProcInv /\ TriesInv /\ RcInv

\* Steps that leave the directories and the server's history alone
LEMMA StoreFrame ==
  ASSUME MarkersInv, DbInv, UNCHANGED <<db, stage, born, ran>>,
         stale => stale', short => short'
  PROVE  MarkersInv' /\ DbInv'
BY DEF MarkersInv, DbInv, Markers, Usable, Loadable

\* What a database directory is made of
LEMMA StoreFields ==
  ASSUME NEW st \in Store
  PROVE  /\ st.kind = "db" /\ st # NoDir /\ st # Empty
         /\ st.full \in BOOLEAN /\ st.uuid \in Uuid /\ st.pre \in Uuid
         /\ st.hdr \in [Owner -> Term] /\ st.mine \in 0..Entries /\ st.idx \in Idx
         /\ \A p \in Peers : st.hdr[p] \in Term /\ st.hdr[p] \in Int
         /\ st.hdr[Self] \in Term /\ st.hdr[Self] \in Int
<1>1. /\ st.kind = "db"
      /\ st.full \in BOOLEAN /\ st.uuid \in Uuid /\ st.pre \in Uuid
      /\ st.hdr \in [Owner -> Term] /\ st.mine \in 0..Entries /\ st.idx \in Idx
  BY DEF Store
<1>2. st # NoDir /\ st # Empty
  BY <1>1 DEF NoDir, Empty
<1>3. Self \in Owner /\ \A p \in Peers : p \in Owner
  BY DEF Owner
<1>4. \A t \in Term : t \in Int
  BY RecoveryBounds DEF Term
<1> QED
  BY <1>1, <1>2, <1>3, <1>4

\* A write to a database leaves a database.
LEMMA StoreWrites ==
  ASSUME NEW st \in Store
  PROVE  /\ \A n \in 0..Entries : [st EXCEPT !.mine = n] \in Store
         /\ \A u, v \in Uuid : [st EXCEPT !.uuid = u, !.pre = v] \in Store
         /\ \A u \in Uuid : [st EXCEPT !.uuid = u] \in Store
         /\ \A h \in [Owner -> Term] : [st EXCEPT !.hdr = h] \in Store
         /\ \A t \in Term : [st EXCEPT !.hdr[Self] = t] \in Store
<1>1. ASSUME NEW n \in 0..Entries
      PROVE  [st EXCEPT !.mine = n] \in Store
  BY DEF Store
<1>2. ASSUME NEW u \in Uuid, NEW v \in Uuid
      PROVE  [st EXCEPT !.uuid = u, !.pre = v] \in Store
  BY DEF Store
<1>3. ASSUME NEW u \in Uuid
      PROVE  [st EXCEPT !.uuid = u] \in Store
  BY DEF Store
<1>4. ASSUME NEW h \in [Owner -> Term]
      PROVE  [st EXCEPT !.hdr = h] \in Store
  BY DEF Store
<1>5. ASSUME NEW t \in Term
      PROVE  [st EXCEPT !.hdr[Self] = t] \in Store
  <2>1. [st.hdr EXCEPT ![Self] = t] \in [Owner -> Term]
    BY StoreFields DEF Owner
  <2> QED
    BY <1>4, <2>1
<1> QED
  BY <1>1, <1>2, <1>3, <1>4, <1>5

\* The directories are databases, or absent.
LEMMA DirFacts ==
  ASSUME TypeOK
  PROVE  /\ \A p \in Markers : p \in Peers /\ stage[p] \in Store
         /\ \A p \in Peers : p \notin Markers => stage[p] = NoDir
         /\ db.kind = "db" => db \in Store
         /\ db.kind # "db" => db \in {NoDir, Empty}
<1>1. \A p \in Markers : p \in Peers /\ stage[p] \in Store
  BY DEF TypeOK, Markers
<1>2. \A p \in Peers : p \notin Markers => stage[p] = NoDir
  BY DEF Markers
<1>3. db.kind = "db" => db \in Store
  BY DEF TypeOK, NoDir, Empty
<1>4. db.kind # "db" => db \in {NoDir, Empty}
  BY StoreFields DEF TypeOK
<1> QED
  BY <1>1, <1>2, <1>3, <1>4

\* The numbers among the variables
LEMMA Numbers ==
  ASSUME TypeOK
  PROVE  /\ hdr \in Int /\ ran.idx \in Int /\ ran.term \in Int
         /\ ran.idx \in Idx /\ ran.term \in Term
         /\ rrh.idx \in Int /\ tries \in Int /\ pos \in 1..12 /\ pos \in Int
         /\ rrh.peer \in Peers \cup {NoPeer}
         /\ \A p \in Peers : chkpt[p] \in Int /\ lowest[p] \in Int
BY StartSteps, RecoveryBounds, InstanceBounds DEF TypeOK, Idx, Term, Handle

-----------------------------------------------------------------------------
(* Each action preserves the invariant. *)

\* raft_server_bulk_recovery() enters the step that its handle asks for.
LEMMA LoopTopKeeps ==
  ASSUME IInv, LoopTop
  PROVE  IInv'
<1>1. TypeOK'
  BY DEF IInv, TypeOK, Labels, LoopTop, Goto, dirs, peerv, instv
<1>2. MarkersInv' /\ DbInv'
  BY StoreFrame DEF IInv, LoopTop, dirs, instv
<1>3. HandleInv'
  BY DEF IInv, HandleInv, FromLeader, FromMarker, Markers, Copying, Placing,
    LoopTop, Goto, dirs, instv
<1>4. StartInv'
  BY DEF IInv, StartInv, LoopTop, Goto
<1>5. ProcInv'
  BY DEF IInv, ProcInv, HandleInv, FromLeader, FromMarker, Copying, Placing,
    Recovering, LoopTop, Goto, dirs, instv
<1>6. TriesInv'
  BY DEF IInv, TriesInv, LoopTop, Goto, instv
<1>7. RcInv'
  BY DEF IInv, RcInv, LoopTop, Goto, instv
<1> QED
  BY <1>1, <1>2, <1>3, <1>4, <1>5, <1>6, <1>7 DEF IInv

\* The marker is the only one, so that none is left.
LEMMA RecoverySucceedsKeeps ==
  ASSUME IInv, RecoverySucceeds
  PROVE  IInv'
<1> DEFINE p == rrh.peer
<1>1. p \in Markers /\ p \in Peers /\ stage[p] \in Store
  BY DirFacts DEF IInv, HandleInv, Placing, RecoverySucceeds, PromoteScrubbedDb
<1>2. db' = stage[p] /\ stage' = [stage EXCEPT ![p] = NoDir] /\ pc' = "loop"
  BY DEF RecoverySucceeds, PromoteScrubbedDb, Goto
<1>3. stage \in [Peers -> Store \cup {NoDir}]
  BY DEF IInv, TypeOK
<1>4. Markers' = {}
  BY <1>1, <1>2, <1>3 DEF IInv, MarkersInv, Markers
<1>5. born /\ Usable(stage[p]) /\ (~short => stage[p].idx >= ran.idx)
  BY <1>1, StoreFields DEF IInv, MarkersInv, HandleInv, Usable, Loadable,
    RecoverySucceeds, PromoteScrubbedDb
<1>6. TypeOK'
  <2>1. db' \in Store /\ stage' \in [Peers -> Store \cup {NoDir}]
    BY <1>1, <1>2, <1>3
  <2>2. pc' \in Labels /\ rc' \in Codes /\ needs' \in BOOLEAN
    BY <1>2 DEF Labels, Codes, RecoverySucceeds, PromoteScrubbedDb
  <2>3. tries' \in 0..RecoveryAttempts
    BY InstanceBounds DEF RecoverySucceeds
  <2> QED
    BY <2>1, <2>2, <2>3 DEF IInv, TypeOK, RecoverySucceeds, PromoteScrubbedDb, peerv
<1>7. MarkersInv'
  BY <1>4 DEF MarkersInv
<1>8. DbInv'
  BY <1>2, <1>5 DEF DbInv, Usable, Loadable, RecoverySucceeds,
    PromoteScrubbedDb
<1>9. HandleInv'
  BY <1>2 DEF HandleInv, Copying, Placing, RecoverySucceeds, PromoteScrubbedDb
<1>10. StartInv'
  BY <1>2 DEF StartInv
<1>11. ProcInv'
  BY <1>2 DEF IInv, ProcInv, Placing, Recovering, RecoverySucceeds,
    PromoteScrubbedDb
<1>12. TriesInv'
  BY <1>2, InstanceBounds DEF TriesInv, RecoverySucceeds, PromoteScrubbedDb
<1>13. RcInv'
  BY <1>2 DEF RcInv, RecoverySucceeds, PromoteScrubbedDb
<1> QED
  BY <1>6, <1>7, <1>8, <1>9, <1>10, <1>11, <1>12, <1>13 DEF IInv

\* raft_server_instance_init() of a process that has met a marker fails.
LEMMA InstanceInitKeeps ==
  ASSUME IInv, InstanceInit
  PROVE  IInv'
<1>1. TypeOK'
  <2>1. /\ NoHandle \in Handle /\ NoPeer \in Uuid /\ -1 \in Term
        /\ {} \subseteq Resources /\ 1 \in 1..Len(StartOrder)
    BY RecoveryBounds, StartSteps DEF NoHandle, Handle, Idx, Term, Uuid
  <2>2. /\ rrh' \in Handle /\ recuuid' \in Uuid /\ hdr' \in Term
        /\ held' \subseteq Resources /\ pos' \in 1..Len(StartOrder)
        /\ needs' \in BOOLEAN
    BY <2>1 DEF IInv, TypeOK, InstanceInit
  <2>3. pc' \in Labels /\ rc' \in Codes
    BY DEF IInv, TypeOK, Labels, Codes, InstanceInit, Goto, Abort
  <2> QED
    BY <2>2, <2>3 DEF IInv, TypeOK, InstanceInit, dirs, peerv
<1>2. MarkersInv' /\ DbInv'
  BY StoreFrame DEF IInv, InstanceInit, dirs
<1>3. HandleInv'
  BY DEF HandleInv, Copying, Placing, InstanceInit, Goto, Abort
<1>4. StartInv'
  BY DEF StartInv, InstanceInit, Goto, Abort
<1>5. ProcInv'
  BY DEF IInv, ProcInv, Placing, Recovering, Copying, InstanceInit, Goto, Abort
<1>6. TriesInv'
  BY DEF IInv, TriesInv, InstanceInit, Goto, Abort
<1>7. RcInv'
  BY DEF IInv, RcInv, ProcInv, InstanceInit, Goto, Abort
<1> QED
  BY <1>1, <1>2, <1>3, <1>4, <1>5, <1>6, <1>7 DEF IInv

\* A step of the start that succeeds
LEMMA SetUpKeeps ==
  ASSUME IInv, NEW what \in Resources \ {"backend"}, SetUp(what)
  PROVE  IInv'
<1>1. pos \in 1..12 /\ StartOrder[pos] = what /\ what # "log" /\ what # "bind"
  BY Numbers, ResourcesAre DEF IInv, SetUp, Step
<1>2. pos # 5 /\ pos # 8 /\ pos # 12 /\ pos' = pos + 1 /\ pos' \in 1..12
  BY <1>1, StartSteps DEF SetUp
<1>3. TypeOK'
  <2>1. held' \subseteq Resources
    BY DEF IInv, TypeOK, SetUp
  <2> QED
    BY <1>2, <2>1, StartSteps DEF IInv, TypeOK, SetUp, dirs, peerv, mem
<1>4. MarkersInv' /\ DbInv'
  BY StoreFrame DEF IInv, SetUp, dirs
<1>5. HandleInv'
  BY DEF HandleInv, Copying, Placing, SetUp
<1>6. StartInv'
  BY <1>1, <1>2 DEF IInv, StartInv, Usable, Loadable, Markers, SetUp, dirs, mem
<1>7. ProcInv'
  BY DEF IInv, ProcInv, Placing, Recovering, Copying, SetUp
<1>8. TriesInv'
  BY DEF IInv, TriesInv, SetUp
<1>9. RcInv'
  BY DEF IInv, RcInv, SetUp
<1> QED
  BY <1>3, <1>4, <1>5, <1>6, <1>7, <1>8, <1>9 DEF IInv

\* A start that ends the process
LEMMA StartFailsKeeps ==
  ASSUME IInv, StartFails
  PROVE  IInv'
<1>1. /\ \/ pc' = "exited" /\ rc' = "EIO"
         \/ pc' = "aborted" /\ rc' = "no_backend"
      /\ held' \subseteq Resources
  BY ShutdownReleases DEF IInv, TypeOK, StartFails, Exit, Abort
<1>2. faults' \in 0..MaxFaults /\ faults' > 0
  BY RecoveryBounds DEF IInv, TypeOK, StartFails, Fault
<1>3. TypeOK'
  BY <1>1, <1>2 DEF IInv, TypeOK, Labels, Codes, StartFails, dirs, peerv, mem
<1>4. MarkersInv' /\ DbInv'
  BY StoreFrame DEF IInv, StartFails, dirs
<1>5. HandleInv'
  BY <1>1 DEF HandleInv, Copying, Placing
<1>6. StartInv'
  BY <1>1 DEF StartInv
<1>7. ProcInv'
  BY <1>1 DEF ProcInv, Placing, Recovering, Copying
<1>8. TriesInv'
  BY <1>1 DEF IInv, TriesInv, StartFails
<1>9. RcInv'
  BY <1>1, <1>2 DEF RcInv
<1> QED
  BY <1>3, <1>4, <1>5, <1>6, <1>7, <1>8, <1>9 DEF IInv

\* The start finds a marker.
LEMMA BackendMarkerKeeps ==
  ASSUME IInv, BackendMarker
  PROVE  IInv'
<1> DEFINE p == CHOOSE q \in Markers : TRUE
<1>1. p \in Markers /\ p \in Peers /\ stage[p] \in Store /\ born
  BY DirFacts DEF IInv, MarkersInv, BackendMarker
<1>2. /\ db' \in Store \cup {Empty}
      /\ db.kind = "db" => db' = db
      /\ db.kind # "db" => db' = Empty
  BY DirFacts, StoreFields DEF IInv, BackendMarker, SubdirsMade, NoDir, Empty
<1>3. Markers' = Markers
  BY DEF BackendMarker, Markers
<1>4. held' \subseteq Resources
  BY ShutdownReleases DEF IInv, TypeOK, BackendMarker
<1>5. ~resumed
  BY DEF IInv, ProcInv, Placing, BackendMarker
<1>6. \/ /\ rrh' = [peer |-> p, idx |-> -1, marker |-> TRUE]
         /\ rc' = "ok" /\ needs' = TRUE /\ resumed' = TRUE /\ pc' = "while"
      \/ /\ ~parses /\ rc' = "EINVAL" /\ pc' = "exited"
         /\ UNCHANGED <<rrh, needs, resumed>>
      \/ /\ rc' = "E2BIG" /\ pc' = "exited"
         /\ UNCHANGED <<rrh, needs, resumed>>
  BY DEF BackendMarker, Goto, Exit
<1> HIDE DEF p
<1>7. TypeOK'
  <2>1. [peer |-> p, idx |-> -1, marker |-> TRUE] \in Handle
    BY <1>1, RecoveryBounds DEF Handle, Idx
  <2>3. rrh' \in Handle
    BY <1>6, <2>1 DEF IInv, TypeOK
  <2>4. needs' \in BOOLEAN /\ resumed' \in BOOLEAN
    BY <1>6 DEF IInv, TypeOK
  <2>2. pc' \in Labels /\ rc' \in Codes
    BY <1>6 DEF Labels, Codes
  <2> QED
    BY <1>2, <1>4, <2>2, <2>3, <2>4 DEF IInv, TypeOK, BackendMarker, peerv
<1>8. MarkersInv'
  BY <1>3 DEF IInv, MarkersInv, BackendMarker
<1>9. DbInv'
  <2>1. Empty.kind # "db"
    BY DEF Empty
  <2> QED
    BY <1>1, <1>2, <1>3, <2>1 DEF IInv, DbInv, Usable, Loadable, BackendMarker
<1>10. HandleInv'
  BY <1>1, <1>3, <1>6 DEF HandleInv, FromMarker, Copying, Placing
<1>11. StartInv'
  BY <1>6 DEF StartInv
<1>12. ProcInv'
  BY <1>6 DEF ProcInv, Placing, Recovering, Copying, BackendMarker
<1>13. TriesInv'
  BY <1>5, <1>6, Numbers, InstanceBounds DEF IInv, TriesInv, BackendMarker
<1>14. RcInv'
  BY <1>1, <1>3, <1>6 DEF RcInv, BackendMarker
<1> QED
  BY <1>7, <1>8, <1>9, <1>10, <1>11, <1>12, <1>13, <1>14 DEF IInv

\* A database without uuid is one whose creation was cut short.
LEMMA BackendOpenKeeps ==
  ASSUME IInv, BackendOpen
  PROVE  IInv'
<1>1. db \in Store /\ Markers = {} /\ db.full /\ pos = 5 /\ pc = "start"
  BY DirFacts, StartSteps, Numbers DEF IInv, DbInv, BackendOpen, Step
<1>2. \/ /\ db.uuid = NoPeer /\ pc' = "aborted" /\ rc' = "no_uuid"
         /\ UNCHANGED <<held, pos, recuuid>>
      \/ /\ db.uuid = Self /\ recuuid' = RecoveryUuid(db)
         /\ held' = held \cup {"backend"} /\ pos' = 6
         /\ UNCHANGED <<pc, rc>>
  BY <1>1 DEF IInv, DbInv, BackendOpen, Abort
<1>3. UNCHANGED <<db, stage, born, ran, stale, short, parses, needs, rrh, hdr,
                  tries, resumed, proc, saved, Markers>>
  BY DEF BackendOpen, dirs, Markers
<1>4. TypeOK'
  <2>1. held' \subseteq Resources
    BY <1>2, ResourcesAre DEF IInv, TypeOK
  <2>4. pos' \in 1..Len(StartOrder)
    BY <1>1, <1>2, StartSteps
  <2>2. recuuid' \in Uuid
    BY <1>1, <1>2, StoreFields DEF IInv, TypeOK, RecoveryUuid
  <2>3. pc' \in Labels /\ rc' \in Codes
    BY <1>2 DEF IInv, TypeOK, Labels, Codes
  <2> QED
    BY <2>1, <2>2, <2>3, <2>4 DEF IInv, TypeOK, BackendOpen, dirs, peerv
<1>5. MarkersInv' /\ DbInv'
  BY <1>3, StoreFrame DEF IInv
<1>6. HandleInv'
  BY <1>1, <1>2 DEF HandleInv, Copying, Placing
<1>7. StartInv'
  BY <1>1, <1>2, <1>3, StoreFields DEF StartInv
<1>8. ProcInv'
  BY <1>1, <1>2, <1>3 DEF IInv, ProcInv, Placing, Recovering, Copying
<1>9. TriesInv'
  BY <1>1, <1>2, <1>3 DEF IInv, TriesInv
<1>10. RcInv'
  BY <1>1, <1>2, <1>3, StoreFields, PeersAssumption DEF IInv, RcInv, DbInv, Usable
<1> QED
  BY <1>4, <1>5, <1>6, <1>7, <1>8, <1>9, <1>10 DEF IInv

\* A new database is made only by a server that has never run.
LEMMA BackendCreateKeeps ==
  ASSUME IInv, BackendCreate
  PROVE  IInv'
<1> DEFINE new == [kind |-> "db", full |-> TRUE, uuid |-> NoPeer, pre |-> NoPeer,
                   hdr |-> [o \in Owner |-> -1], mine |-> Entries, idx |-> -1]
<1>1. Markers = {} /\ db.kind # "db" /\ pos = 5 /\ pc = "start"
  BY StartSteps, Numbers DEF IInv, BackendCreate, Step, NoDir, Empty
<1>2. ~born /\ ran.idx = -1
  BY <1>1 DEF IInv, DbInv, Usable
<1>3. db' = new /\ pc' = "create" /\ Markers' = Markers
  BY DEF BackendCreate, Goto, Markers
<1>4. /\ new \in Store /\ new.kind = "db" /\ new.full /\ new.uuid = NoPeer
      /\ new.mine = Entries /\ new.idx = -1
  <2>1. [o \in Owner |-> -1] \in [Owner -> Term]
    BY RecoveryBounds DEF Term
  <2>2. Entries \in 0..Entries /\ -1 \in Idx /\ NoPeer \in Uuid
    BY RecoveryBounds DEF Idx, Uuid
  <2> QED
    BY <2>1, <2>2 DEF Store
<1> HIDE DEF new
<1>5. TypeOK'
  BY <1>3, <1>4 DEF IInv, TypeOK, Labels, BackendCreate, peerv, mem, instv
<1>6. MarkersInv'
  BY <1>1, <1>3 DEF MarkersInv
<1>7. DbInv'
  BY <1>2, <1>3, <1>4 DEF DbInv, BackendCreate, instv
<1>8. HandleInv'
  BY <1>3 DEF HandleInv, Copying, Placing
<1>9. StartInv'
  BY <1>1, <1>2, <1>3, <1>4 DEF StartInv, BackendCreate, instv
<1>10. ProcInv'
  BY <1>1, <1>3 DEF IInv, ProcInv, Placing, Recovering, Copying, BackendCreate, instv
<1>11. TriesInv'
  BY <1>1, <1>3 DEF IInv, TriesInv, BackendCreate, instv
<1>12. RcInv'
  BY <1>1, <1>3 DEF IInv, RcInv, BackendCreate, instv
<1> QED
  BY <1>5, <1>6, <1>7, <1>8, <1>9, <1>10, <1>11, <1>12 DEF IInv

\* The two writes that make a new database
LEMMA CreateHeaderKeeps ==
  ASSUME IInv, CreateHeader
  PROVE  IInv'
<1>1. /\ pc = "create" /\ ~born /\ Markers = {} /\ db \in Store /\ pos = 5
      /\ ran.idx = -1
  BY DirFacts DEF IInv, StartInv, DbInv, CreateHeader
<1>2. /\ db' \in Store /\ db'.full = db.full /\ db'.mine = db.mine
      /\ db'.idx = db.idx /\ db'.uuid \in {Self, NoPeer}
  <2>1. CASE db.uuid = NoPeer
    <3>1. db' = [db EXCEPT !.uuid = Self]
      BY <2>1 DEF CreateHeader
    <3>2. Self \in Uuid
      BY DEF Uuid, Owner
    <3> QED
      BY <1>1, <3>1, <3>2, StoreWrites, StoreFields DEF Store
  <2>2. CASE db.uuid # NoPeer
    <3>1. db' = [db EXCEPT !.hdr[Self] = 0]
      BY <2>2 DEF CreateHeader
    <3>2. 0 \in Term
      BY RecoveryBounds DEF Term
    <3>3. db' \in Store
      BY <1>1, <3>1, <3>2, StoreWrites
    <3> QED
      BY <1>1, <3>1, <3>3, StoreFields DEF IInv, DbInv, Store
  <2> QED
    BY <2>1, <2>2
<1>3. pc' \in {"create", "start"} /\ Markers' = Markers
  BY DEF CreateHeader, Goto, Markers
<1>4. TypeOK'
  BY <1>2, <1>3 DEF IInv, TypeOK, Labels, CreateHeader, peerv, mem, instv
<1>5. MarkersInv'
  BY <1>1, <1>3 DEF MarkersInv
<1>6. DbInv'
  BY <1>1, <1>2, StoreFields DEF IInv, DbInv, CreateHeader, instv
<1>7. HandleInv'
  BY <1>3 DEF HandleInv, Copying, Placing
<1>8. StartInv'
  BY <1>1, <1>2, <1>3, StoreFields DEF StartInv, CreateHeader, instv
<1>9. ProcInv'
  BY <1>1, <1>3 DEF IInv, ProcInv, Placing, Recovering, Copying, CreateHeader, instv
<1>10. TriesInv'
  BY <1>1, <1>3 DEF IInv, TriesInv, CreateHeader, instv
<1>11. RcInv'
  BY <1>1, <1>3 DEF IInv, RcInv, CreateHeader, instv
<1> QED
  BY <1>4, <1>5, <1>6, <1>7, <1>8, <1>9, <1>10, <1>11 DEF IInv

\* The log of a server that has run can always be loaded.
LEMMA LogLoadKeeps ==
  ASSUME IInv, LogLoad
  PROVE  IInv'
<1>1. /\ pc = "start" /\ pos = 8 /\ Markers = {}
      /\ db \in Store /\ db.full /\ db.uuid = Self
  BY StartSteps, Numbers, DirFacts DEF IInv, StartInv, DbInv, LogLoad, Step
<1>2. UNCHANGED <<db, stage, born, ran, stale, short, parses, needs, rrh,
                  tries, resumed, proc, saved, recuuid, Markers>>
  BY DEF LogLoad, dirs, Markers
<1>3. \/ /\ Usable(db) /\ hdr' = db.hdr[Self] /\ pos' = 9
         /\ UNCHANGED <<pc, rc, held>>
      \/ /\ ~born /\ pc' = "exited" /\ rc' = "ENOENT"
         /\ held' = NetShutdown(held) /\ UNCHANGED <<hdr, pos>>
  BY <1>1, StoreFields DEF IInv, DbInv, Usable, LogLoad, Exit
<1>4. TypeOK'
  <2>1. held' \subseteq Resources
    BY <1>3, ShutdownReleases DEF IInv, TypeOK
  <2>2. hdr' \in Term
    BY <1>1, <1>3, StoreFields DEF IInv, TypeOK
  <2>3. pos' \in 1..Len(StartOrder)
    BY <1>1, <1>3, StartSteps
  <2>4. pc' \in Labels /\ rc' \in Codes
    BY <1>3 DEF IInv, TypeOK, Labels, Codes
  <2> QED
    BY <2>1, <2>2, <2>3, <2>4 DEF IInv, TypeOK, LogLoad, dirs, peerv
<1>5. MarkersInv' /\ DbInv'
  BY <1>2, StoreFrame DEF IInv
<1>6. HandleInv'
  BY <1>1, <1>3 DEF HandleInv, Copying, Placing
<1>7. StartInv'
  BY <1>1, <1>2, <1>3, StoreFields DEF StartInv, Usable, Loadable
<1>8. ProcInv'
  BY <1>1, <1>2, <1>3 DEF IInv, ProcInv, Placing, Recovering, Copying
<1>9. TriesInv'
  BY <1>1, <1>2, <1>3 DEF IInv, TriesInv
<1>10. RcInv'
  BY <1>1, <1>2, <1>3 DEF IInv, RcInv
<1> QED
  BY <1>4, <1>5, <1>6, <1>7, <1>8, <1>9, <1>10 DEF IInv

\* The server runs; the histories record with what.
LEMMA BindKeeps ==
  ASSUME IInv, Bind
  PROVE  IInv'
<1>1. /\ pc = "start" /\ pos = 12 /\ Markers = {} /\ db \in Store
      /\ Usable(db) /\ hdr = db.hdr[Self] /\ ~resumed
  BY StartSteps, Numbers, DirFacts DEF IInv, StartInv, ProcInv, Usable, Placing,
    Bind, Step
<1>2. db.idx \in Idx /\ db.idx \in Int
  BY <1>1, StoreFields, RecoveryBounds DEF Idx
<1>3. /\ ran'.idx = Max({ran.idx, db.idx}) /\ ran'.term = Max({ran.term, hdr})
      /\ ran' \in [idx : Idx, term : Term]
  <2>1. ran' = [idx |-> Max({ran.idx, db.idx}), term |-> Max({ran.term, hdr})]
    BY DEF Bind
  <2>2. Max({ran.idx, db.idx}) \in Idx
    BY <1>2, Numbers, MaxOfTwo DEF IInv
  <2>3. Max({ran.term, hdr}) \in Term
    BY Numbers, MaxOfTwo DEF IInv, TypeOK
  <2> QED
    BY <2>1, <2>2, <2>3
<1>4. ~short => db.idx >= ran'.idx
  <2>1. ~short => db.idx >= ran.idx
    BY <1>1 DEF IInv, DbInv, Usable
  <2>2. Max({ran.idx, db.idx}) \in {ran.idx, db.idx}
    BY <1>2, Numbers, MaxOfTwo DEF IInv
  <2> QED
    BY <1>2, <1>3, <2>1, <2>2
<1>5. /\ UNCHANGED <<db, stage, short, stale, rc, resumed, tries, hdr, Markers>>
      /\ born' = TRUE /\ pc' = "run"
  BY DEF Bind, dirs, Goto, Markers
<1>6. TypeOK'
  BY <1>3, <1>5 DEF IInv, TypeOK, Labels, Bind, dirs, peerv
<1>7. MarkersInv'
  BY <1>1, <1>5 DEF MarkersInv
<1>8. DbInv'
  BY <1>1, <1>4, <1>5 DEF IInv, DbInv, Usable, Loadable
<1>9. HandleInv'
  BY <1>5 DEF HandleInv, Copying, Placing
<1>10. StartInv'
  BY <1>1, <1>5 DEF StartInv, Usable, Loadable
<1>11. ProcInv'
  BY <1>1, <1>5 DEF ProcInv, Placing, Recovering, Copying
<1>12. TriesInv'
  BY <1>1, <1>5 DEF IInv, TriesInv
<1>13. RcInv'
  BY <1>1, <1>5 DEF IInv, RcInv
<1> QED
  BY <1>6, <1>7, <1>8, <1>9, <1>10, <1>11, <1>12, <1>13 DEF IInv

\* A new term in the header
LEMMA RaiseTermKeeps ==
  ASSUME IInv, RaiseTerm
  PROVE  IInv'
<1>1. /\ pc = "run" /\ Markers = {} /\ db \in Store /\ born
      /\ Usable(db) /\ hdr = db.hdr[Self] /\ db.hdr[Self] < MaxTerm
  BY DirFacts DEF IInv, StartInv, Usable, RaiseTerm
<1>2. hdr + 1 \in Term /\ hdr + 1 >= 0 /\ hdr + 1 \in Int
  BY <1>1, StoreFields, RecoveryBounds DEF Term, Usable, Loadable
<1>3. db' = [db EXCEPT !.hdr[Self] = hdr + 1]
  BY <1>1 DEF RaiseTerm
<1>4. /\ db' \in Store /\ db'.full = db.full /\ db'.mine = db.mine
      /\ db'.idx = db.idx /\ db'.uuid = db.uuid /\ db'.hdr[Self] = hdr + 1
  <2>1. db' \in Store
    BY <1>1, <1>2, <1>3, StoreWrites
  <2>2. Self \in DOMAIN db.hdr
    BY <1>1, StoreFields DEF Owner
  <2> QED
    BY <1>1, <1>3, <2>1, <2>2 DEF Store
<1>5. ran' \in [idx : Idx, term : Term] /\ ran'.idx = ran.idx
  <2>1. ran \in [idx : Idx, term : Term]
    BY DEF IInv, TypeOK
  <2>2. Max({ran.term, hdr + 1}) \in Term
    BY <1>2, Numbers, MaxOfTwo DEF IInv
  <2>3. ran' = [ran EXCEPT !.term = Max({ran.term, hdr + 1})]
    BY DEF RaiseTerm
  <2> QED
    BY <2>1, <2>2, <2>3
<1>6. UNCHANGED <<stage, pc, rc, short, stale, born, resumed, tries, Markers>>
      /\ hdr' = hdr + 1
  BY DEF RaiseTerm, Markers
<1>7. TypeOK'
  BY <1>2, <1>4, <1>5, <1>6 DEF IInv, TypeOK, RaiseTerm, peerv
<1>8. MarkersInv'
  BY <1>1, <1>6 DEF MarkersInv
<1>9. DbInv'
  BY <1>1, <1>2, <1>4, <1>5, <1>6, StoreFields DEF IInv, DbInv, Usable, Loadable
<1>10. HandleInv'
  BY <1>1, <1>6 DEF HandleInv, Copying, Placing
<1>11. StartInv'
  BY <1>1, <1>2, <1>4, <1>6, StoreFields DEF StartInv, Usable, Loadable
<1>12. ProcInv'
  BY <1>1, <1>6 DEF IInv, ProcInv, Placing, Recovering, Copying
<1>13. TriesInv'
  BY <1>1, <1>6 DEF IInv, TriesInv
<1>14. RcInv'
  BY <1>1, <1>6 DEF IInv, RcInv
<1> QED
  BY <1>7, <1>8, <1>9, <1>10, <1>11, <1>12, <1>13, <1>14 DEF IInv

\* The checkpoint a leader names is not behind its log, or short records it.
LEMMA OutOfRangeKeeps ==
  ASSUME IInv, NEW p \in Peers, OutOfRange(p)
  PROVE  IInv'
<1>1. /\ pc = "run" /\ Markers = {} /\ db \in Store /\ born
      /\ Usable(db) /\ ~resumed
  BY DirFacts DEF IInv, StartInv, ProcInv, Usable, Placing, OutOfRange
<1>2. lowest[p] > 0 /\ db.idx < lowest[p] /\ db.idx \in Int
  BY <1>1, StoreFields, RecoveryBounds
  DEF OutOfRange, LeaderOutOfRange, NeedsRecovery, Idx
<1>3. rrh' = [peer |-> p, idx |-> chkpt[p], marker |-> FALSE] /\ needs' = TRUE
      /\ pc' = "stop" /\ short' = (short \/ chkpt[p] < lowest[p])
  BY DEF OutOfRange, Goto
<1>4. UNCHANGED <<db, stage, rc, stale, born, ran, resumed, tries, Markers>>
  BY DEF OutOfRange, dirs, instv, Markers
<1>5. ~short' => chkpt[p] >= 0 /\ chkpt[p] >= ran.idx
  <2>1. ~short => db.idx >= ran.idx
    BY <1>1 DEF IInv, DbInv, Usable
  <2>2. chkpt[p] \in Int /\ lowest[p] \in Int /\ ran.idx \in Int
    BY Numbers DEF IInv
  <2>3. ~short' => ~short /\ ~(chkpt[p] < lowest[p])
    BY <1>3
  <2> QED
    BY <1>2, <2>1, <2>2, <2>3
<1>6. TypeOK'
  <2>1. rrh' \in Handle
    BY <1>3 DEF IInv, TypeOK, Handle
  <2>2. short' \in BOOLEAN
    BY <1>3
  <2> QED
    BY <1>3, <2>1, <2>2 DEF IInv, TypeOK, Labels, OutOfRange, dirs, peerv, instv
<1>7. MarkersInv' /\ DbInv'
  BY <1>3, <1>4, StoreFrame DEF IInv
<1>8. FromLeader'
  BY <1>1, <1>3, <1>4, <1>5 DEF FromLeader, Usable
<1>9. HandleInv'
  BY <1>3, <1>8 DEF HandleInv, Copying, Placing
<1>10. StartInv'
  BY <1>3 DEF StartInv
<1>11. ProcInv'
  BY <1>1, <1>3, <1>4 DEF ProcInv, Placing, Recovering, Copying
<1>12. TriesInv'
  BY <1>1, <1>3, <1>4 DEF IInv, TriesInv
<1>13. RcInv'
  BY <1>1, <1>3, <1>4 DEF IInv, RcInv
<1> QED
  BY <1>6, <1>7, <1>9, <1>10, <1>11, <1>12, <1>13 DEF IInv

\* The main loop fails with an error of its own, or ends with an older one.
LEMMA MainLoopFailsKeeps ==
  ASSUME IInv, MainLoopFails
  PROVE  IInv'
<1>1. held' = {} /\ pc = "run" /\ pc' = "exited" /\ proc' = "shutdown"
  BY ShutdownReleases DEF IInv, TypeOK, MainLoopFails, Exit
<1>2. rc' = (IF rc = "ok" THEN "EIO" ELSE rc) /\ faults' \in 0..MaxFaults
  BY RecoveryBounds DEF IInv, TypeOK, MainLoopFails, Exit, Fault
<1>3. UNCHANGED <<db, stage, stale, short, born, ran, resumed, tries, needs, rrh,
                  Markers>>
  BY DEF MainLoopFails, dirs, Markers
<1>4. TypeOK'
  <2>1. rc' \in Codes /\ pc' \in Labels
    BY <1>1, <1>2 DEF IInv, TypeOK, Codes, Labels
  <2> QED
    BY <1>1, <1>2, <2>1 DEF IInv, TypeOK, MainLoopFails, dirs, peerv
<1>5. MarkersInv' /\ DbInv'
  BY <1>3, StoreFrame DEF IInv
<1>6. HandleInv'
  BY <1>1 DEF HandleInv, Copying, Placing
<1>7. StartInv'
  BY <1>1 DEF StartInv
<1>8. ProcInv'
  BY <1>1, <1>3 DEF IInv, ProcInv, Placing, Recovering, Copying
<1>9. TriesInv'
  BY <1>1, <1>3 DEF IInv, TriesInv
<1>10. RcInv'
  BY <1>1, <1>2, <1>3 DEF IInv, RcInv
<1> QED
  BY <1>4, <1>5, <1>6, <1>7, <1>8, <1>9, <1>10 DEF IInv

\* The stop releases all that was set up.
LEMMA StopKeeps ==
  ASSUME IInv, Stop
  PROVE  IInv'
<1>1. held' = {}
  BY ShutdownReleases DEF IInv, TypeOK, Stop
<1>2. pc = "stop" /\ pc' = "while" /\ ~resumed /\ FromLeader
  BY DEF IInv, HandleInv, ProcInv, Placing, Stop, Goto
<1>3. UNCHANGED <<db, stage, stale, short, born, ran, resumed, tries, needs, rrh,
                  Markers>>
  BY DEF Stop, dirs, Markers
<1>4. rc' \in {rc, "ETIMEDOUT"} /\ faults' \in 0..MaxFaults
      /\ proc' = IF rc' = "ok" THEN "booting" ELSE "shutdown"
  BY RecoveryBounds DEF IInv, TypeOK, Stop, Fault
<1>5. TypeOK'
  <2>1. rc' \in Codes /\ pc' \in Labels
    BY <1>2, <1>4 DEF IInv, TypeOK, Codes, Labels
  <2> QED
    BY <1>1, <1>4, <2>1 DEF IInv, TypeOK, Stop, dirs, peerv
<1>6. MarkersInv' /\ DbInv'
  BY <1>3, StoreFrame DEF IInv
<1>7. HandleInv'
  BY <1>2, <1>3 DEF HandleInv, FromLeader, Copying, Placing
<1>8. StartInv'
  BY <1>2 DEF StartInv
<1>9. ProcInv'
  BY <1>1, <1>2, <1>3, <1>4 DEF ProcInv, Placing, Recovering, Copying
<1>10. TriesInv'
  BY <1>2, <1>3, <1>4 DEF IInv, TriesInv
<1>11. RcInv'
  BY <1>2, <1>3, <1>4 DEF IInv, RcInv
<1> QED
  BY <1>5, <1>6, <1>7, <1>8, <1>9, <1>10, <1>11 DEF IInv

\* The attempts are never used up, so that rc is an error when the loop ends.
LEMMA WhileKeeps ==
  ASSUME IInv, While
  PROVE  IInv'
<1>1. pc = "while" /\ needs /\ (FromLeader \/ FromMarker)
  BY DEF IInv, HandleInv, FromLeader, FromMarker, While
<1>2. UNCHANGED <<db, stage, stale, short, parses, born, ran, resumed, needs, rrh,
                  held, proc, saved, faults, Markers>>
  BY DEF While, dirs, mem, Markers
<1>3. rc = "ok" => tries > 0
  BY <1>1, Numbers, InstanceBounds DEF IInv, TriesInv
<1>4. rc' = rc /\ (\/ rc = "ok" /\ tries' = tries - 1 /\ pc' = "loop"
                   \/ rc # "ok" /\ pc' = "exited" /\ tries' = tries)
  BY <1>1, <1>3 DEF While, Goto, Exit
<1>5. TypeOK'
  <2>1. tries' \in 0..RecoveryAttempts
    BY <1>3, <1>4, InstanceBounds DEF IInv, TypeOK
  <2> QED
    BY <1>4, <2>1 DEF IInv, TypeOK, Labels, While, dirs, peerv, mem
<1>6. MarkersInv' /\ DbInv'
  BY <1>2, StoreFrame DEF IInv
<1>7. HandleInv'
  BY <1>1, <1>2, <1>4 DEF IInv, HandleInv, FromLeader, FromMarker, Copying, Placing
<1>8. StartInv'
  BY <1>4 DEF StartInv
<1>9. ProcInv'
  BY <1>1, <1>2, <1>4 DEF IInv, ProcInv, Placing, Recovering, Copying
<1>10. TriesInv'
  BY <1>1, <1>2, <1>4, Numbers, InstanceBounds DEF IInv, TriesInv
<1>11. RcInv'
  BY <1>1, <1>2, <1>4 DEF IInv, RcInv
<1> QED
  BY <1>5, <1>6, <1>7, <1>8, <1>9, <1>10, <1>11 DEF IInv

\* A crash may lose entry headers of the staged copy, which stays a marker.
LEMMA NewProcessKeeps ==
  ASSUME IInv, NewProcess
  PROVE  IInv'
<1>1. /\ UNCHANGED <<db, copy, parses, stale, short, born, ran>>
      /\ pc' = "loop" /\ rc' = "ok" /\ needs' = FALSE /\ proc' = "booting"
      /\ held' = {} /\ tries' = RecoveryAttempts /\ resumed' = FALSE
  BY DEF NewProcess, Goto
<1>2. /\ stage' \in [Peers -> Store \cup {NoDir}] /\ Markers' = Markers
      /\ \A p \in Markers :
           /\ stage'[p].full = stage[p].full /\ stage'[p].hdr = stage[p].hdr
           /\ stage'[p].uuid = stage[p].uuid /\ stage'[p].pre = stage[p].pre
           /\ stage'[p].idx = stage[p].idx
  <2>1. stage \in [Peers -> Store \cup {NoDir}]
    BY DEF IInv, TypeOK
  <2>2. CASE pc = "scrub"
    <3>1. rrh.peer \in Markers /\ rrh.peer \in Peers /\ stage[rrh.peer] \in Store
      BY <2>2, DirFacts DEF IInv, HandleInv, Placing
    <3>2. PICK n \in 0..stage[rrh.peer].mine :
            stage' = [stage EXCEPT ![rrh.peer] = Lost(stage[rrh.peer], n)]
      BY <2>2 DEF NewProcess
    <3>3. n \in 0..Entries
      BY <3>1, <3>2, StoreFields, RecoveryBounds
    <3> DEFINE st == [stage[rrh.peer] EXCEPT !.mine = n]
    <3>4. stage' = [stage EXCEPT ![rrh.peer] = st]
      BY <3>1, <3>2, StoreFields DEF Lost
    <3>5. st \in Store /\ st # NoDir
      BY <3>1, <3>3, StoreWrites, StoreFields
    <3>6. /\ st.full = stage[rrh.peer].full /\ st.hdr = stage[rrh.peer].hdr
          /\ st.uuid = stage[rrh.peer].uuid /\ st.pre = stage[rrh.peer].pre
          /\ st.idx = stage[rrh.peer].idx
      BY <3>1 DEF Store
    <3> HIDE DEF st
    <3>7. Markers' = Markers
      BY <2>1, <3>1, <3>4, <3>5 DEF Markers
    <3> QED
      BY <2>1, <3>1, <3>4, <3>5, <3>6, <3>7 DEF Markers
  <2>3. CASE pc # "scrub"
    BY <2>1, <2>3 DEF NewProcess, Markers
  <2> QED
    BY <2>2, <2>3
<1>3. TypeOK'
  <2>1. /\ NoHandle \in Handle /\ NoPeer \in Uuid /\ -1 \in Term
        /\ 1 \in 1..Len(StartOrder) /\ 0 \in 0..(RsyncTries - 1)
        /\ RecoveryAttempts \in 0..RecoveryAttempts
    BY RecoveryBounds, InstanceBounds, StartSteps
    DEF NoHandle, Handle, Idx, Term, Uuid
  <2>2. crashes' \in 0..MaxCrashes
    BY InstanceBounds DEF IInv, TypeOK, NewProcess
  <2>3. pc' \in Labels /\ rc' \in Codes /\ needs' \in BOOLEAN /\ resumed' \in BOOLEAN
    BY <1>1 DEF Labels, Codes
  <2> QED
    BY <1>1, <1>2, <2>1, <2>2, <2>3 DEF IInv, TypeOK, NewProcess, peerv
<1>4. MarkersInv'
  BY <1>1, <1>2 DEF IInv, MarkersInv
<1>5. DbInv'
  BY <1>1, <1>2 DEF IInv, DbInv, Usable, Loadable
<1>6. HandleInv'
  BY <1>1 DEF HandleInv, Copying, Placing
<1>7. StartInv'
  BY <1>1 DEF StartInv
<1>8. ProcInv'
  BY <1>1 DEF ProcInv, Placing, Recovering, Copying
<1>9. TriesInv'
  BY <1>1, InstanceBounds DEF TriesInv
<1>10. RcInv'
  BY <1>1 DEF RcInv
<1> QED
  BY <1>3, <1>4, <1>5, <1>6, <1>7, <1>8, <1>9, <1>10 DEF IInv

\* An error of the recovery: it explains itself, and the loop goes on.
LEMMA RecoveryFailsKeeps ==
  ASSUME IInv, pc \in Recovering, NEW e \in Codes \ {"ok", "ENOENT"},
         RecoveryFails(e), e = "ENODEV" => stale, e = "EINVAL" => short,
         faults' \in 0..MaxFaults,
         UNCHANGED <<dirs, peerv, parses, stale, short>>, UNCHANGED instv
  PROVE  IInv'
<1>1. pc' = "init" /\ rc' = e /\ proc' = saved /\ retries' = 0
      /\ UNCHANGED <<saved, needs, rrh, recuuid, hdr>>
  BY DEF RecoveryFails, Goto
<1>2. TypeOK'
  <2>1. 0 \in 0..(RsyncTries - 1)
    BY RecoveryBounds
  <2>2. pc' \in Labels /\ rc' \in Codes
    BY <1>1 DEF Labels
  <2> QED
    BY <1>1, <2>1, <2>2 DEF IInv, TypeOK, dirs, peerv, instv
<1>3. MarkersInv' /\ DbInv'
  BY StoreFrame DEF IInv, dirs, instv
<1>4. HandleInv'
  BY <1>1 DEF HandleInv, Copying, Placing
<1>5. StartInv'
  BY <1>1 DEF StartInv
<1>6. ProcInv'
  BY <1>1 DEF IInv, ProcInv, Placing, Recovering, Copying, instv
<1>7. TriesInv'
  BY <1>1 DEF IInv, TriesInv, instv
<1>8. RcInv'
  BY <1>1 DEF RcInv
<1> QED
  BY <1>2, <1>3, <1>4, <1>5, <1>6, <1>7, <1>8 DEF IInv

\* A handle is refused only if it names no checkpoint.
LEMMA ImportFailsKeeps ==
  ASSUME IInv, ImportInvalid \/ ImportRefused, UNCHANGED instv
  PROVE  IInv'
<1>1. CASE ImportInvalid
  <2>1. pc = "import" /\ ~Importable(rrh)
    BY <1>1 DEF ImportInvalid
  <2>2. FromLeader
    BY <2>1 DEF IInv, HandleInv, Copying
  <2>3. short
    BY <2>1, <2>2 DEF FromLeader, Importable
  <2>4. pc \in Recovering /\ "EINVAL" \in Codes
    BY <2>1 DEF Recovering, Copying, Codes
  <2>5. RecoveryFails("EINVAL") /\ UNCHANGED <<dirs, peerv, parses, stale, short>>
    BY <1>1 DEF ImportInvalid
  <2>6. faults' \in 0..MaxFaults
    BY <1>1 DEF IInv, TypeOK, ImportInvalid
  <2> QED
    BY <2>3, <2>4, <2>5, <2>6, RecoveryFailsKeeps
<1>2. CASE ImportRefused
  <2>1. pc \in Recovering /\ "ENOSPC" \in Codes
    BY <1>2 DEF ImportRefused, Recovering, Copying, Codes
  <2>2. RecoveryFails("ENOSPC") /\ UNCHANGED <<dirs, peerv, parses, stale, short>>
    BY <1>2 DEF ImportRefused
  <2>3. faults' \in 0..MaxFaults
    BY <1>2, RecoveryBounds DEF IInv, TypeOK, ImportRefused, Fault
  <2> QED
    BY <2>1, <2>2, <2>3, RecoveryFailsKeeps
<1> QED
  BY <1>1, <1>2

\* A step of a recovery that stays within the copying
LEMMA CopyingKeeps ==
  ASSUME IInv, pc \in Copying, pc' \in Copying,
         copy' \in [Peers -> [idx : Idx, full : BOOLEAN]],
         retries' \in 0..(RsyncTries - 1), faults' \in 0..MaxFaults,
         UNCHANGED <<db, stage, peerv, rc, mem, parses, stale, short, instv>>,
         pc' \in {"xfer", "verify", "stage"} => rrh.idx >= 0,
         pc' = "stage" => copy'[rrh.peer] = [idx |-> rrh.idx, full |-> TRUE]
  PROVE  IInv'
<1>1. TypeOK'
  BY DEF IInv, TypeOK, Labels, Copying, peerv, mem, instv
<1>2. MarkersInv' /\ DbInv'
  BY StoreFrame DEF IInv, instv
<1>3. HandleInv'
  BY DEF IInv, HandleInv, FromLeader, Markers, Copying, Placing, mem, instv
<1>4. StartInv'
  BY DEF StartInv, Copying
<1>5. ProcInv'
  BY DEF IInv, ProcInv, Placing, Recovering, Copying, mem, instv
<1>6. TriesInv'
  BY DEF IInv, TriesInv, Copying, instv
<1>7. RcInv'
  BY DEF IInv, RcInv, Copying, instv
<1> QED
  BY <1>1, <1>2, <1>3, <1>4, <1>5, <1>6, <1>7 DEF IInv

\* An rsync call that fails
LEMMA RsyncErrorKeeps ==
  ASSUME IInv, NEW label \in {"import", "xfer", "verify"}, RsyncError(label),
         UNCHANGED <<dirs, peerv, parses, stale, short>>, UNCHANGED instv
  PROVE  IInv'
<1>1. pc = label /\ faults' \in 0..MaxFaults
  BY RecoveryBounds DEF IInv, TypeOK, RsyncError, Fault
<1>2. CASE RetriesExhausted
  <2>1. RecoveryFails("EIO")
    BY <1>2 DEF RsyncError
  <2>2. pc \in Recovering /\ "EIO" \in Codes
    BY <1>1 DEF Recovering, Copying, Codes
  <2> QED
    BY <1>1, <2>1, <2>2, RecoveryFailsKeeps
<1>3. CASE ~RetriesExhausted
  <2>1. retries' = retries + 1 /\ UNCHANGED <<pc, rc, mem>>
    BY <1>3 DEF RsyncError
  <2>2. retries' \in 0..(RsyncTries - 1)
    BY <1>3, <2>1, RecoveryBounds DEF IInv, TypeOK, RetriesExhausted
  <2>3. pc \in Copying /\ pc' \in Copying /\ pc' # "stage"
    BY <1>1, <2>1 DEF Copying
  <2>4. copy' \in [Peers -> [idx : Idx, full : BOOLEAN]]
    BY DEF IInv, TypeOK, dirs
  <2>5. pc' \in {"xfer", "verify", "stage"} => rrh.idx >= 0
    BY <2>1 DEF IInv, HandleInv
  <2>6. UNCHANGED <<db, stage, peerv, rc, mem, parses, stale, short, instv>>
    BY <2>1 DEF dirs
  <2> QED
    BY <1>1, <2>2, <2>3, <2>4, <2>5, <2>6, CopyingKeeps
<1> QED
  BY <1>2, <1>3

\* The steps of the copying: two dry runs and the transfer between them
LEMMA TransferKeeps ==
  ASSUME IInv, DryRun \/ XferSome \/ XferDone \/ Verify, UNCHANGED instv
  PROVE  IInv'
<1>1. 0 \in 0..(RsyncTries - 1)
  BY RecoveryBounds
<1>2. /\ copy \in [Peers -> [idx : Idx, full : BOOLEAN]]
      /\ retries \in 0..(RsyncTries - 1) /\ faults \in 0..MaxFaults
  BY DEF IInv, TypeOK
<1>3. pc \in {"xfer", "verify"} => rrh.idx >= 0 /\ rrh.peer \in Peers
  BY DEF IInv, HandleInv, FromLeader, Copying
<1>4. rrh.idx \in Idx
  BY DEF IInv, TypeOK, Handle
<1>5. \A b \in BOOLEAN :
        rrh.peer \in Peers =>
          [copy EXCEPT ![rrh.peer] = [idx |-> rrh.idx, full |-> b]]
            \in [Peers -> [idx : Idx, full : BOOLEAN]]
  BY <1>2, <1>4
<1>6. CASE DryRun
  <2>1. pc \in Copying /\ pc' = "xfer" /\ pc' \in Copying /\ rrh.idx >= 0
    BY <1>6 DEF DryRun, Importable, Copying, Goto
  <2>2. /\ copy' = copy /\ retries' = 0 /\ faults' = faults
        /\ UNCHANGED <<db, stage, peerv, rc, mem, parses, stale, short, instv>>
    BY <1>6 DEF DryRun, dirs
  <2> QED
    BY <1>1, <1>2, <2>1, <2>2, CopyingKeeps
<1>7. CASE XferSome
  <2>1. pc \in Copying /\ pc = "xfer" /\ pc' = "xfer"
    BY <1>7 DEF XferSome, Copying
  <2>2. /\ copy' \in [Peers -> [idx : Idx, full : BOOLEAN]]
        /\ retries' = retries /\ faults' = faults
        /\ UNCHANGED <<db, stage, peerv, rc, mem, parses, stale, short, instv>>
    BY <1>3, <1>5, <1>7 DEF XferSome
  <2> QED
    BY <1>2, <1>3, <2>1, <2>2, CopyingKeeps
<1>8. CASE XferDone
  <2>1. pc \in Copying /\ pc = "xfer" /\ pc' = "verify" /\ pc' \in Copying
    BY <1>8 DEF XferDone, Copying, Goto
  <2>2. /\ retries' = 0
        /\ UNCHANGED <<db, stage, peerv, rc, mem, parses, stale, short, instv>>
    BY <1>8 DEF XferDone
  <2>3. \/ /\ copy' = [copy EXCEPT ![rrh.peer] = [idx |-> rrh.idx, full |-> TRUE]]
           /\ faults' = faults
        \/ copy' = copy /\ Fault
    BY <1>8 DEF XferDone
  <2>4. copy' \in [Peers -> [idx : Idx, full : BOOLEAN]]
    BY <1>2, <1>3, <1>5, <2>1, <2>3
  <2>5. faults' \in 0..MaxFaults
    BY <1>2, <2>3, RecoveryBounds DEF Fault
  <2> QED
    BY <1>1, <1>3, <2>1, <2>2, <2>4, <2>5, CopyingKeeps
<1>9. CASE Verify
  <2>1. pc \in Copying /\ pc = "verify" /\ pc' = "stage" /\ pc' \in Copying
    BY <1>9 DEF Verify, Copying, Goto
  <2>2. /\ copy' = copy /\ retries' = 0 /\ faults' = faults
        /\ UNCHANGED <<db, stage, peerv, rc, mem, parses, stale, short, instv>>
    BY <1>9 DEF Verify, dirs
  <2>3. copy[rrh.peer] = [idx |-> rrh.idx, full |-> TRUE]
    BY <1>9 DEF Verify, Remaining
  <2> QED
    BY <1>1, <1>2, <1>3, <2>1, <2>2, <2>3, CopyingKeeps
<1> QED
  BY <1>6, <1>7, <1>8, <1>9

\* The second dry run finds files that are missing.
LEMMA VerifyIncompleteKeeps ==
  ASSUME IInv, VerifyIncomplete, UNCHANGED instv
  PROVE  IInv'
<1>1. pc \in Recovering /\ "EBADE" \in Codes
  BY DEF VerifyIncomplete, Recovering, Copying, Codes
<1>2. RecoveryFails("EBADE") /\ UNCHANGED <<dirs, peerv, parses, stale, short>>
  BY DEF VerifyIncomplete
<1>3. faults' \in 0..MaxFaults
  BY DEF IInv, TypeOK, VerifyIncomplete
<1> QED
  BY <1>1, <1>2, <1>3, RecoveryFailsKeeps

\* The rename makes the only marker, of a whole checkpoint.
LEMMA StageRemoteDbKeeps ==
  ASSUME IInv, StageRemoteDb, UNCHANGED instv
  PROVE  IInv'
<1> DEFINE p == rrh.peer
           st == CheckpointOf(p, copy[p])
<1>1. /\ pc = "stage" /\ FromLeader /\ p \in Peers /\ Markers = {} /\ born
      /\ rrh.idx >= 0 /\ copy[p] = [idx |-> rrh.idx, full |-> TRUE]
  BY DEF IInv, HandleInv, FromLeader, Copying, StageRemoteDb
<1>2. rrh.idx \in Idx /\ rrh.idx \in Int
  BY RecoveryBounds DEF IInv, TypeOK, Handle, Idx
<1>3. /\ Min({rrh.idx + 1, MaxTerm}) \in Term
      /\ Min({rrh.idx + 1, MaxTerm}) >= 0
  <2>1. rrh.idx + 1 \in Int /\ MaxTerm \in Int
    BY <1>2, RecoveryBounds
  <2>2. /\ Min({rrh.idx + 1, MaxTerm}) \in {rrh.idx + 1, MaxTerm}
        /\ Min({rrh.idx + 1, MaxTerm}) <= MaxTerm
    BY <2>1, MinOfTwo
  <2> QED
    BY <1>1, <1>2, <2>2, RecoveryBounds DEF Term
<1>4. /\ st.kind = "db" /\ st.full = TRUE /\ st.uuid = p /\ st.idx = rrh.idx
      /\ st.hdr[p] = Min({rrh.idx + 1, MaxTerm}) /\ st \in Store
  <2> DEFINE h == [o \in Owner |-> IF o = p THEN Min({rrh.idx + 1, MaxTerm}) ELSE -1]
  <2>1. h \in [Owner -> Term] /\ h[p] = Min({rrh.idx + 1, MaxTerm})
    BY <1>1, <1>3, RecoveryBounds DEF Owner, Term
  <2>2. st = [kind |-> "db", full |-> TRUE, uuid |-> p, pre |-> NoPeer,
              hdr |-> h, mine |-> 0, idx |-> rrh.idx]
    BY <1>1 DEF CheckpointOf
  <2>3. p \in Uuid /\ NoPeer \in Uuid /\ 0 \in 0..Entries
    BY <1>1, RecoveryBounds DEF Uuid, Owner
  <2> HIDE DEF h
  <2> QED
    BY <1>2, <2>1, <2>2, <2>3 DEF Store
<1>5. stage' = [stage EXCEPT ![p] = st] /\ pc' = "remove"
      /\ copy' = [copy EXCEPT ![p] = NoCopy]
  BY DEF StageRemoteDb, Goto
<1> HIDE DEF st
<1>6. UNCHANGED <<db, rc, mem, stale, short, born, ran, held, tries, resumed>>
  BY DEF StageRemoteDb, instv
<1>7. Markers' = {p} /\ stage'[p] = st
  <2>1. stage \in [Peers -> Store \cup {NoDir}]
    BY DEF IInv, TypeOK
  <2> QED
    BY <1>1, <1>4, <1>5, <2>1, StoreFields DEF Markers
<1>8. TypeOK'
  <2>1. stage' \in [Peers -> Store \cup {NoDir}]
    BY <1>1, <1>4, <1>5 DEF IInv, TypeOK
  <2>2. copy' \in [Peers -> [idx : Idx, full : BOOLEAN]]
    BY <1>1, <1>5, RecoveryBounds DEF IInv, TypeOK, NoCopy, Idx
  <2> QED
    BY <1>5, <2>1, <2>2 DEF IInv, TypeOK, Labels, StageRemoteDb, peerv, mem, instv
<1>9. MarkersInv'
  BY <1>1, <1>3, <1>4, <1>6, <1>7 DEF MarkersInv, FromLeader
<1>10. DbInv'
  BY <1>6, <1>7 DEF IInv, DbInv, Usable, Loadable
<1>11. HandleInv'
  BY <1>5, <1>6, <1>7 DEF HandleInv, Copying, Placing, mem
<1>12. StartInv'
  BY <1>5 DEF StartInv
<1>13. ProcInv'
  BY <1>1, <1>5, <1>6 DEF IInv, ProcInv, Placing, Recovering, Copying, mem
<1>14. TriesInv'
  BY <1>1, <1>5, <1>6 DEF IInv, TriesInv
<1>15. RcInv'
  BY <1>1, <1>5, <1>6 DEF IInv, RcInv
<1> QED
  BY <1>8, <1>9, <1>10, <1>11, <1>12, <1>13, <1>14, <1>15 DEF IInv

\* The old database goes when the marker is there.
LEMMA RemoveCurrentDbKeeps ==
  ASSUME IInv, RemoveCurrentDb, UNCHANGED instv
  PROVE  IInv'
<1>1. /\ pc = "remove" /\ pc' = "open" /\ db' = NoDir /\ NoDir.kind # "db"
      /\ UNCHANGED <<stage, rc, mem, stale, short, born, ran, held, tries, resumed,
                     Markers>>
  BY DEF RemoveCurrentDb, Goto, Markers, NoDir, instv
<1>2. rrh.peer \in Markers
  BY <1>1 DEF IInv, HandleInv
<1>3. TypeOK'
  BY <1>1 DEF IInv, TypeOK, Labels, RemoveCurrentDb, peerv, mem, instv
<1>4. MarkersInv'
  BY <1>1 DEF IInv, MarkersInv
<1>5. DbInv'
  BY <1>1, <1>2 DEF IInv, DbInv
<1>6. HandleInv'
  BY <1>1, <1>2 DEF HandleInv, Copying, Placing, mem
<1>7. StartInv'
  BY <1>1 DEF StartInv
<1>8. ProcInv'
  BY <1>1 DEF IInv, ProcInv, Placing, Recovering, Copying, mem
<1>9. TriesInv'
  BY <1>1 DEF IInv, TriesInv
<1>10. RcInv'
  BY <1>1 DEF IInv, RcInv
<1> QED
  BY <1>3, <1>4, <1>5, <1>6, <1>7, <1>8, <1>9, <1>10 DEF IInv

\* An error of the removal or of the promotion
LEMMA PlacingFailsKeeps ==
  ASSUME IInv, RemoveError \/ PromoteError, UNCHANGED instv
  PROVE  IInv'
<1>1. pc \in Recovering /\ "EIO" \in Codes
  BY DEF RemoveError, PromoteError, Recovering, Placing, Codes
<1>2. RecoveryFails("EIO") /\ UNCHANGED <<dirs, peerv, parses, stale, short>>
  BY DEF RemoveError, PromoteError
<1>3. faults' \in 0..MaxFaults
  BY RecoveryBounds DEF IInv, TypeOK, RemoveError, PromoteError, Fault
<1> QED
  BY <1>1, <1>2, <1>3, RecoveryFailsKeeps

\* A uuid is refused only if the header was written after a stale comparison.
LEMMA OpenErrorKeeps ==
  ASSUME IInv, OpenError, UNCHANGED instv
  PROVE  IInv'
<1> DEFINE p == rrh.peer
<1>1. /\ pc = "open" /\ p \in Markers /\ p \in Peers /\ stage[p] \in Store
      /\ stage[p].full /\ UNCHANGED <<dirs, peerv, parses, stale, short>>
  BY DirFacts DEF IInv, HandleInv, MarkersInv, Placing, OpenError
<1>2. \/ ~UuidMatches(stage[p], p) /\ RecoveryFails("ENODEV") /\ UNCHANGED faults
      \/ Fault /\ RecoveryFails("ENOTCONN")
  BY <1>1 DEF OpenError
<1>3. pc \in Recovering /\ "ENODEV" \in Codes /\ "ENOTCONN" \in Codes
  BY <1>1 DEF Recovering, Placing, Codes
<1>4. faults' \in 0..MaxFaults
  BY <1>2, RecoveryBounds DEF IInv, TypeOK, Fault
<1>5. ~UuidMatches(stage[p], p) => stale
  <2>1. stage[p].uuid = p \/ stage[p].pre = p \/ stale
    BY <1>1 DEF IInv, MarkersInv
  <2>2. p # NoPeer
    BY <1>1, PeersAssumption
  <2> QED
    BY <2>1, <2>2 DEF UuidMatches, RecoveryUuid
<1>6. CASE ~UuidMatches(stage[p], p) /\ RecoveryFails("ENODEV")
  BY <1>1, <1>3, <1>4, <1>5, <1>6, RecoveryFailsKeeps
<1>7. CASE RecoveryFails("ENOTCONN")
  BY <1>1, <1>3, <1>4, <1>7, RecoveryFailsKeeps
<1> QED
  BY <1>2, <1>6, <1>7

\* ri_db_recovery_uuid is the peer's only if the staged database says so, or it
\* is of a database opened before.
LEMMA OpenStagedKeeps ==
  ASSUME IInv, OpenStaged, UNCHANGED instv
  PROVE  IInv'
<1> DEFINE p == rrh.peer
<1>1. /\ pc = "open" /\ p \in Markers /\ p \in Peers /\ stage[p] \in Store
      /\ db = NoDir
  BY DirFacts DEF IInv, HandleInv, Placing, OpenStaged
<1>2. /\ pc' = "scrub" /\ hdr' = stage[p].hdr[p] /\ hdr' >= 0
      /\ recuuid' = RecoveryUuid(stage[p])
      /\ stale' = (stale \/ (stage[p].pre = NoPeer /\ recuuid # NoPeer))
      /\ UNCHANGED <<db, stage, rc, short, rrh, saved, born, ran, held, tries, resumed,
                     Markers>>
  BY DEF OpenStaged, Goto, dirs, instv, Markers
<1>3. recuuid' = p => stage[p].pre = p \/ stale'
  <2>1. p # NoPeer
    BY <1>1, PeersAssumption
  <2>2. CASE stage[p].pre = NoPeer
    BY <1>2, <2>1, <2>2 DEF RecoveryUuid
  <2>3. CASE stage[p].pre # NoPeer
    BY <1>2, <2>3 DEF RecoveryUuid
  <2> QED
    BY <2>2, <2>3
<1>4. TypeOK'
  <2>1. hdr' \in Term /\ recuuid' \in Uuid
    BY <1>1, <1>2, StoreFields DEF IInv, TypeOK, RecoveryUuid
  <2>2. stale' \in BOOLEAN /\ pc' \in Labels
    BY <1>2 DEF Labels
  <2> QED
    BY <2>1, <2>2 DEF IInv, TypeOK, OpenStaged, dirs, peerv, instv
<1>5. MarkersInv' /\ DbInv'
  <2>1. (stale => stale') /\ (short => short')
    BY <1>2
  <2> QED
    BY <1>2, <2>1, StoreFrame DEF IInv
<1>6. HandleInv'
  BY <1>1, <1>2, <1>3 DEF HandleInv, Copying, Placing
<1>7. StartInv'
  BY <1>2 DEF StartInv
<1>8. ProcInv'
  BY <1>1, <1>2 DEF IInv, ProcInv, Placing, Recovering, Copying
<1>9. TriesInv'
  BY <1>1, <1>2 DEF IInv, TriesInv
<1>10. RcInv'
  BY <1>1, <1>2 DEF IInv, RcInv
<1> QED
  BY <1>4, <1>5, <1>6, <1>7, <1>8, <1>9, <1>10 DEF IInv

\* A write to the staged database keeps it a marker.
LEMMA StagedWriteKeeps ==
  ASSUME IInv, pc \in {"scrub", "header"}, pc' \in {"scrub", "header", "promote"},
         NEW st \in Store, rrh.peer \in Peers,
         stage' = [stage EXCEPT ![rrh.peer] = st],
         st.full = stage[rrh.peer].full, st.idx = stage[rrh.peer].idx,
         st.hdr[rrh.peer] = stage[rrh.peer].hdr[rrh.peer],
         st.uuid = rrh.peer \/ st.pre = rrh.peer \/ stale,
         UNCHANGED <<db, copy, peerv, rc, mem, retries, faults, parses, stale, short>>,
         UNCHANGED instv,
         pc' = "scrub" => pc = "scrub" /\ st.pre = stage[rrh.peer].pre,
         pc' \in {"header", "promote"} => st.mine = Entries /\ st.uuid = Self,
         pc' = "header" => hdr >= 0,
         pc' = "promote" => st.hdr[Self] >= 0
  PROVE  IInv'
<1> DEFINE p == rrh.peer
<1>1. p \in Markers /\ db = NoDir
  BY DEF IInv, HandleInv, Placing
<1>2. stage \in [Peers -> Store \cup {NoDir}] /\ st # NoDir
  BY StoreFields DEF IInv, TypeOK
<1>3. /\ Markers' = Markers /\ stage'[p] = st
      /\ \A q \in Markers : q # p => stage'[q] = stage[q]
  BY <1>1, <1>2 DEF Markers
<1>4. UNCHANGED <<born, ran, held, tries, resumed, rrh, saved, hdr, recuuid>>
  BY DEF instv, mem
<1>5. TypeOK'
  <2>1. stage' \in [Peers -> Store \cup {NoDir}]
    BY <1>2
  <2> QED
    BY <2>1 DEF IInv, TypeOK, Labels, peerv, mem, instv
<1>6. MarkersInv'
  BY <1>1, <1>3, <1>4 DEF IInv, MarkersInv
<1>7. DbInv'
  BY <1>3, <1>4 DEF IInv, DbInv, Usable, Loadable
<1>8. HandleInv'
  BY <1>1, <1>3, <1>4 DEF IInv, HandleInv, Copying, Placing
<1>9. StartInv'
  BY DEF StartInv
<1>10. ProcInv'
  BY <1>4 DEF IInv, ProcInv, Placing, Recovering, Copying
<1>11. TriesInv'
  BY <1>4 DEF IInv, TriesInv
<1>12. RcInv'
  BY <1>4 DEF IInv, RcInv
<1> QED
  BY <1>5, <1>6, <1>7, <1>8, <1>9, <1>10, <1>11, <1>12 DEF IInv

\* The scrub rewrites entry headers, then the uuids, then the log header.
LEMMA ScrubKeeps ==
  ASSUME IInv, ScrubEntryHeader \/ InitHeader \/ HeaderWrite, UNCHANGED instv
  PROVE  IInv'
<1> DEFINE p == rrh.peer
<1>1. /\ pc \in {"scrub", "header"} /\ p \in Markers /\ p \in Peers
      /\ stage[p] \in Store /\ p # Self /\ hdr >= 0
      /\ stage[p].uuid = p \/ stage[p].pre = p \/ stale
  BY DirFacts, PeersAssumption
  DEF IInv, HandleInv, MarkersInv, Placing, ScrubEntryHeader, InitHeader, HeaderWrite
<1>2. stage \in [Peers -> Store \cup {NoDir}]
  BY DEF IInv, TypeOK
<1>3. CASE ScrubEntryHeader
  <2> DEFINE st == [stage[p] EXCEPT !.mine = @ + 1]
  <2>1. /\ pc = "scrub" /\ pc' = "scrub" /\ stage' = [stage EXCEPT ![p] = st]
        /\ UNCHANGED <<db, copy, peerv, rc, mem, retries, faults, parses, stale, short>>
    BY <1>3 DEF ScrubEntryHeader
  <2>2. stage[p].mine + 1 \in 0..Entries
    BY <1>1, <1>3, StoreFields, RecoveryBounds DEF ScrubEntryHeader
  <2>3. st \in Store
    BY <1>1, <2>2, StoreWrites
  <2>4. /\ st.full = stage[p].full /\ st.idx = stage[p].idx /\ st.hdr = stage[p].hdr
        /\ st.uuid = stage[p].uuid /\ st.pre = stage[p].pre
    BY <1>1 DEF Store
  <2> HIDE DEF st
  <2> QED
    BY <1>1, <2>1, <2>3, <2>4, StagedWriteKeeps
<1>4. CASE InitHeader
  <2> DEFINE v == IF recuuid = p THEN stage[p].pre ELSE p
             st == [stage[p] EXCEPT !.uuid = Self, !.pre = v]
  <2>1. /\ pc = "scrub" /\ pc' = "header" /\ stage' = [stage EXCEPT ![p] = st]
        /\ stage[p].mine = Entries
        /\ UNCHANGED <<db, copy, peerv, rc, mem, retries, faults, parses, stale, short>>
    BY <1>2, <1>4 DEF InitHeader, ScrubIsDone, Goto
  <2>2. v \in Uuid /\ Self \in Uuid /\ (v = p \/ stale)
    BY <1>1, <2>1, StoreFields DEF IInv, HandleInv, Uuid, Owner
  <2>3. st \in Store
    BY <1>1, <2>2, StoreWrites
  <2>4. /\ st.full = stage[p].full /\ st.idx = stage[p].idx /\ st.hdr = stage[p].hdr
        /\ st.mine = stage[p].mine /\ st.uuid = Self /\ st.pre = v
    BY <1>1 DEF Store
  <2> HIDE DEF st, v
  <2> QED
    BY <1>1, <2>1, <2>2, <2>3, <2>4, StagedWriteKeeps
<1>5. CASE HeaderWrite
  <2> DEFINE h == [stage[p].hdr EXCEPT ![Self] = hdr]
             st == [stage[p] EXCEPT !.hdr = h]
  <2>1. /\ pc = "header" /\ pc' = "promote" /\ stage' = [stage EXCEPT ![p] = st]
        /\ UNCHANGED <<db, copy, peerv, rc, mem, retries, faults, parses, stale, short>>
    BY <1>5 DEF HeaderWrite, ScrubbedHeader, Goto
  <2>2. h \in [Owner -> Term] /\ h[p] = stage[p].hdr[p] /\ h[Self] = hdr
    BY <1>1, StoreFields DEF IInv, TypeOK, Owner
  <2>3. st \in Store
    BY <1>1, <2>2, StoreWrites
  <2>4. /\ st.full = stage[p].full /\ st.idx = stage[p].idx /\ st.hdr = h
        /\ st.mine = stage[p].mine /\ st.uuid = stage[p].uuid /\ st.pre = stage[p].pre
    BY <1>1 DEF Store
  <2>5. stage[p].mine = Entries /\ stage[p].uuid = Self
    BY <2>1 DEF IInv, HandleInv
  <2> HIDE DEF st, h
  <2> QED
    BY <1>1, <2>1, <2>2, <2>3, <2>4, <2>5, StagedWriteKeeps
<1> QED
  BY <1>3, <1>4, <1>5

\* Checkpoints and compactions of the leaders
LEMMA PeerStepKeeps ==
  ASSUME IInv, PeerStep, UNCHANGED instv
  PROVE  IInv'
<1>1. UNCHANGED <<dirs, pc, rc, mem, retries, faults, parses, stale, short>>
  BY DEF PeerStep, PeerCheckpoint, PeerCompacts
<1>2. chkpt' \in [Peers -> Idx] /\ lowest' \in [Peers -> Idx]
  <2>1. PICK p \in Peers : PeerCheckpoint(p) \/ PeerCompacts(p)
    BY DEF PeerStep
  <2>2. chkpt \in [Peers -> Idx] /\ lowest \in [Peers -> Idx]
    BY DEF IInv, TypeOK
  <2>3. CASE PeerCheckpoint(p)
    BY <2>2, <2>3, RecoveryBounds DEF PeerCheckpoint, Idx
  <2>4. CASE PeerCompacts(p)
    BY <2>2, <2>4, RecoveryBounds DEF PeerCompacts, Idx
  <2> QED
    BY <2>1, <2>3, <2>4
<1>3. TypeOK'
  BY <1>1, <1>2 DEF IInv, TypeOK, dirs, mem, instv
<1>4. UNCHANGED <<db, stage, copy, pc, rc, proc, saved, needs, rrh, recuuid, hdr,
                  faults, parses, stale, short, held, pos, tries, born, ran,
                  resumed, Markers>>
  BY <1>1 DEF dirs, mem, instv, Markers
<1>5. MarkersInv' /\ DbInv'
  BY <1>4, StoreFrame DEF IInv
<1>6. HandleInv'
  BY <1>4 DEF IInv, HandleInv, FromLeader, FromMarker
<1>7. StartInv'
  BY <1>4 DEF IInv, StartInv, Usable, Loadable
<1>8. ProcInv' /\ TriesInv' /\ RcInv'
  BY <1>4 DEF IInv, ProcInv, TriesInv, RcInv
<1> QED
  BY <1>3, <1>5, <1>6, <1>7, <1>8 DEF IInv

\* Steps that change nothing, events of the main loop among them
LEMMA StutterKeeps ==
  ASSUME IInv, UNCHANGED vars
  PROVE  IInv'
<1>1. UNCHANGED <<db, stage, copy, pc, rc, proc, saved, needs, rrh, recuuid, hdr,
                  faults, parses, stale, short, held, pos, tries, born, ran,
                  resumed, Markers>>
  BY DEF vars, dirs, mem, instv, Markers
<1>2. TypeOK'
  BY DEF IInv, TypeOK, vars, dirs, peerv, mem, instv
<1>3. MarkersInv' /\ DbInv'
  BY <1>1, StoreFrame DEF IInv
<1>4. HandleInv'
  BY <1>1 DEF IInv, HandleInv, FromLeader, FromMarker
<1>5. StartInv'
  BY <1>1 DEF IInv, StartInv, Usable, Loadable
<1>6. ProcInv' /\ TriesInv' /\ RcInv'
  BY <1>1 DEF IInv, ProcInv, TriesInv, RcInv
<1> QED
  BY <1>2, <1>3, <1>4, <1>5, <1>6 DEF IInv

\* The steps of raft_server_instance_run()
LEMMA ProcessStepKeeps ==
  ASSUME IInv, ProcessStep
  PROVE  IInv'
<1>1. /\ {"conf", "sockets", "timerfd", "epoll", "buffers", "lreg", "evps",
          "sync_thread", "chkpt_thread"} \subseteq Resources \ {"backend"}
  BY ResourcesAre
<1>2. CASE \/ ConfInit \/ SocketsSetup \/ TimerfdCreate \/ EpollSetup
           \/ BufferSetSetup \/ LregInit \/ EvpSetup
           \/ SyncThreadStart \/ ChkptThreadStart
  <2>1. \E what \in Resources \ {"backend"} : SetUp(what)
    BY <1>1, <1>2 DEF ConfInit, SocketsSetup, TimerfdCreate, EpollSetup,
      BufferSetSetup, LregInit, EvpSetup, SyncThreadStart, ChkptThreadStart
  <2> QED
    BY <2>1, SetUpKeeps
<1>3. CASE MainLoop
  BY <1>3, StutterKeeps DEF MainLoop
<1>4. CASE \E p \in Peers : OutOfRange(p)
  BY <1>4, OutOfRangeKeeps
<1> QED
  BY <1>2, <1>3, <1>4, LoopTopKeeps, RecoverySucceedsKeeps, InstanceInitKeeps,
    StartFailsKeeps, BackendMarkerKeeps, BackendOpenKeeps, BackendCreateKeeps,
    CreateHeaderKeeps, LogLoadKeeps, BindKeeps, MainLoopFailsKeeps,
    RaiseTermKeeps, StopKeeps, WhileKeeps, NewProcessKeeps
  DEF ProcessStep

\* The steps of rsbr_bulk_recover()
LEMMA RecoveryStepKeeps ==
  ASSUME IInv, RecoveryStep, UNCHANGED instv
  PROVE  IInv'
<1>1. CASE DryRunError \/ XferError \/ VerifyError
  <2>1. /\ \E label \in {"import", "xfer", "verify"} : RsyncError(label)
        /\ UNCHANGED <<dirs, peerv, parses, stale, short>>
    BY <1>1 DEF DryRunError, XferError, VerifyError
  <2> QED
    BY <2>1, RsyncErrorKeeps
<1> QED
  BY <1>1, ImportFailsKeeps, TransferKeeps, VerifyIncompleteKeeps,
    StageRemoteDbKeeps, RemoveCurrentDbKeeps, PlacingFailsKeeps, OpenErrorKeeps,
    OpenStagedKeeps, ScrubKeeps
  DEF RecoveryStep

\* A new server
LEMMA InitHolds == Init => IInv
<1> SUFFICES ASSUME Init PROVE IInv
  OBVIOUS
<1>1. /\ db = NoDir /\ stage = [p \in Peers |-> NoDir] /\ pc = "loop" /\ rc = "ok"
      /\ proc = "booting" /\ saved = "booting" /\ needs = FALSE /\ held = {}
      /\ tries = RecoveryAttempts /\ born = FALSE /\ resumed = FALSE
      /\ ran = [idx |-> -1, term |-> -1]
  BY DEF Init, RecoveryInit
<1>2. Markers = {}
  BY <1>1 DEF Markers
<1>3. TypeOK
  <2>1. /\ NoHandle \in Handle /\ NoPeer \in Uuid /\ -1 \in Term /\ -1 \in Idx
        /\ 1 \in 1..Len(StartOrder) /\ 0 \in 0..(RsyncTries - 1) /\ 0 \in Idx
        /\ RecoveryAttempts \in 0..RecoveryAttempts /\ 0 \in 0..MaxCrashes
        /\ 0 \in 0..MaxFaults /\ NoCopy \in [idx : Idx, full : BOOLEAN]
    BY RecoveryBounds, InstanceBounds, StartSteps
    DEF NoHandle, NoCopy, Handle, Idx, Term, Uuid
  <2>2. pc \in Labels /\ rc \in Codes
    BY <1>1 DEF Labels, Codes
  <2>3. parses \in BOOLEAN
    BY RecoveryBounds DEF Init, RecoveryInit
  <2>4. /\ stage \in [Peers -> Store \cup {NoDir}]
        /\ copy \in [Peers -> [idx : Idx, full : BOOLEAN]]
        /\ chkpt \in [Peers -> Idx] /\ lowest \in [Peers -> Idx]
    BY <1>1, <2>1 DEF Init, RecoveryInit
  <2>5. /\ rrh \in Handle /\ recuuid \in Uuid /\ hdr \in Term
        /\ retries \in 0..(RsyncTries - 1) /\ faults \in 0..MaxFaults
        /\ held \subseteq Resources /\ pos \in 1..Len(StartOrder)
        /\ tries \in 0..RecoveryAttempts /\ crashes \in 0..MaxCrashes
    BY <2>1 DEF Init, RecoveryInit
  <2>6. {needs, parses, stale, short, born, resumed} \subseteq BOOLEAN
    BY <2>3 DEF Init, RecoveryInit
  <2>7. ran \in [idx : Idx, term : Term]
    BY <1>1, <2>1
  <2> QED
    BY <1>1, <2>2, <2>4, <2>5, <2>6, <2>7 DEF TypeOK
<1>4. MarkersInv
  BY <1>2 DEF MarkersInv
<1>5. DbInv
  BY <1>1 DEF DbInv, NoDir
<1>6. HandleInv /\ StartInv
  BY <1>1 DEF HandleInv, StartInv, Copying, Placing
<1>7. ProcInv
  BY <1>1 DEF ProcInv, Recovering, Copying, Placing
<1>8. TriesInv
  BY <1>1, InstanceBounds DEF TriesInv
<1>9. RcInv
  BY <1>1 DEF RcInv
<1> QED
  BY <1>3, <1>4, <1>5, <1>6, <1>7, <1>8, <1>9 DEF IInv

\* The invariant holds in every state of every process.
THEOREM Invariance == Spec => []IInv
<1>1. Init => IInv
  BY InitHolds
<1>2. IInv /\ [Next]_vars => IInv'
  BY ProcessStepKeeps, RecoveryStepKeeps, PeerStepKeeps, StutterKeeps DEF Next
<1> QED
  BY <1>1, <1>2, PTL DEF Spec

-----------------------------------------------------------------------------
(* The properties *)

\* Every variable of the process and of the recovery keeps its type; no rsync
\* command is called more often than BULK_RECOVERY_RSYNC_RETRY_MAX.
THEOREM TypeCorrect == Spec => []TypeOK
<1>1. IInv => TypeOK
  BY DEF IInv
<1> QED
  BY <1>1, Invariance, PTL

\* Whatever fails and wherever the process ends in rsbr_bulk_recover(), a
\* server that has run keeps a database it can start from, or one whole copy
\* of a leader's under the only marker.
THEOREM ServerKeepsAStore == Spec => []StoreKept
<1>1. IInv => StoreKept
  <2> SUFFICES ASSUME IInv PROVE StoreKept
    OBVIOUS
  <2>1. Cardinality(Markers) <= 1
    <3>1. CASE Markers = {}
      BY <3>1, FS_EmptySet
    <3>2. CASE Markers # {}
      <4>1. PICK p : p \in Markers
        BY <3>2
      <4>2. Markers = {p}
        BY <4>1 DEF IInv, MarkersInv
      <4> QED
        BY <4>2, FS_Singleton
    <3> QED
      BY <3>1, <3>2
  <2>2. born => (db.kind = "db" => Usable(db)) /\ pc # "create"
    BY DEF IInv, DbInv, StartInv
  <2>3. born => Usable(db) \/ \E p \in Markers : stage[p].full /\ stage[p].hdr[p] >= 0
    BY DEF IInv, DbInv, MarkersInv
  <2> QED
    BY <2>1, <2>2, <2>3 DEF StoreKept
<1> QED
  BY <1>1, Invariance, PTL

\* A recovery never puts a database in place that is behind the log the server
\* ran with, unless a leader has compacted beyond its last checkpoint.
THEOREM RecoveryKeepsTheLog == Spec => []LogKept
<1>1. IInv => LogKept
  BY DEF IInv, LogKept, StartInv, DbInv, Usable
<1> QED
  BY <1>1, Invariance, PTL

\* raft_server_instance_run() returns, and its assertions fail, only for the
\* reasons that ExitsExplained lists.
THEOREM ProcessEndsExplained == Spec => []ExitsExplained
<1>1. IInv => ExitsExplained
  <2> SUFFICES ASSUME IInv PROVE ExitsExplained
    OBVIOUS
  <2>1. pc = "aborted" =>
          CASE rc = "not_booting" -> resumed
            [] rc = "no_uuid" -> ~born
            [] rc = "no_backend" -> faults > 0
            [] OTHER -> FALSE
    BY DEF IInv, RcInv
  <2>2. pc = "exited" =>
          CASE rc = "EINVAL" -> (Markers # {} /\ ~parses) \/ short
            [] rc = "ENOENT" -> ~born
            [] OTHER -> rc # "ok"
    BY DEF IInv, RcInv
  <2>3. (rc = "ENODEV" => stale) /\ tries >= RecoveryAttempts - 2
    BY Numbers, InstanceBounds DEF IInv, RcInv, TriesInv
  <2> QED
    BY <2>1, <2>2, <2>3 DEF ExitsExplained
<1> QED
  BY <1>1, Invariance, PTL

\* The instance is wiped with resources in use only by a process that resumes
\* a recovery from a marker.
THEOREM RestartIsClean == Spec => []CleanRestart
<1>1. IInv => CleanRestart
  BY DEF IInv, CleanRestart, ProcInv
<1> QED
  BY <1>1, Invariance, PTL
=============================================================================
