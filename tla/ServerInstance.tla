--------------------------- MODULE ServerInstance ---------------------------
(***************************************************************************)
(* The process of one server: raft_server_instance_run() starts the        *)
(* subsystems, runs the main loop, stops them, and enters bulk recovery    *)
(* when a leader says that the server's next entry is gone.  A process     *)
(* that has exited, aborted or crashed is started again.                   *)
(***************************************************************************)
EXTENDS BulkRecovery, Sequences, SequencesExt, TLC

CONSTANTS
  RecoveryAttempts,  \* RAFT_SERVER_RECOVERY_ATTEMPTS
  MaxCrashes         \* bound: crashes of the process

\* The code allows 100 attempts; two can be in use at a time.
ASSUME InstanceBounds ==
  RecoveryAttempts \in Nat \ {0, 1} /\ MaxCrashes \in Nat

VARIABLES
  held,     \* what the start has set up and nothing has released
  pos,      \* the next step of the start
  tries,    \* remaining_recovery_tries
  crashes,
  born,     \* history: the server has run before
  ran,      \* history: the newest entry and the term it has run with
  resumed   \* history: this process has found a marker at its start

instv == <<held, pos, tries, crashes, born, ran, resumed>>
vars  == <<dirs, peerv, pc, rc, mem, retries, faults, parses, stale, short, instv>>

\* The steps of raft_net_instance_startup(); those from "backend" to
\* "chkpt_thread" are raft_server_instance_startup().
StartOrder ==
  <<"conf", "sockets", "timerfd", "epoll",
    "backend", "buffers", "lreg", "log", "evps", "sync_thread",
    "chkpt_thread", "bind">>

Resources == ToSet(StartOrder) \ {"log", "bind"}

Init ==
  /\ RecoveryInit
  /\ pc = "loop" /\ held = {} /\ pos = 1 /\ tries = RecoveryAttempts
  /\ crashes = 0 /\ born = FALSE /\ ran = [idx |-> -1, term |-> -1]
  /\ resumed = FALSE

Exit(e)    == pc' = "exited" /\ rc' = e
Abort(why) == pc' = "aborted" /\ rc' = why

(***************************************************************************)
(* The loop of raft_server_instance_run().                                 *)
(***************************************************************************)

\* raft_server_bulk_recovery(), or straight to the initialization
LoopTop ==
  /\ pc = "loop"
  /\ Goto(IF ~needs THEN "init" ELSE IF rrh.marker THEN "remove" ELSE "import")
  /\ saved' = proc
  /\ proc' = IF needs THEN "recovering" ELSE proc
  /\ UNCHANGED <<dirs, peerv, rc, needs, rrh, recuuid, hdr, retries, faults,
                 parses, stale, short, instv>>

\* The recovery has succeeded: the attempts count again from the start.
RecoverySucceeds ==
  /\ PromoteScrubbedDb
  /\ tries' = RecoveryAttempts
  /\ UNCHANGED <<held, pos, crashes, born, ran, resumed>>

\* raft_server_instance_init() wipes the instance, but asserts first that it
\* is booting.  rc keeps the error of a recovery that has failed.
InstanceInit ==
  /\ pc = "init"
  /\ IF proc = "booting"
     THEN /\ Goto("start") /\ UNCHANGED rc
          /\ held' = {} /\ pos' = 1
          /\ needs' = FALSE /\ rrh' = NoHandle /\ recuuid' = NoPeer
          /\ hdr' = -1
     ELSE /\ Abort("not_booting")
          /\ UNCHANGED <<held, pos, needs, rrh, recuuid, hdr>>
  /\ UNCHANGED <<dirs, peerv, proc, saved, retries, faults, parses, stale, short,
                 tries, crashes, born, ran, resumed>>

(***************************************************************************)
(* The start.                                                              *)
(***************************************************************************)

Step == StartOrder[pos]

SetUp(what) ==
  /\ pc = "start" /\ Step = what
  /\ held' = held \cup {what} /\ pos' = pos + 1
  /\ UNCHANGED <<dirs, peerv, pc, rc, mem, retries, faults, parses, stale, short,
                 tries, crashes, born, ran, resumed>>

ConfInit         == SetUp("conf")
SocketsSetup     == SetUp("sockets")
TimerfdCreate    == SetUp("timerfd")
EpollSetup       == SetUp("epoll")
BufferSetSetup   == SetUp("buffers")
LregInit         == SetUp("lreg")
EvpSetup         == SetUp("evps")
SyncThreadStart  == SetUp("sync_thread")
ChkptThreadStart == SetUp("chkpt_thread")

\* What releases it
ChkptThreadJoin(h)  == h \ {"chkpt_thread"}
SyncThreadJoin(h)   == h \ {"sync_thread"}
BackendClose(h)     == h \ {"backend"}
EvpCleanup(h)       == h \ {"evps"}
LregRemove(h)       == h \ {"lreg"}
BufferSetDestroy(h) == h \ {"buffers"}
SocketsClose(h)     == h \ {"sockets"}
EpollCleanup(h)     == h \ {"epoll"}
TimerfdClose(h)     == h \ {"timerfd"}
ConfDestroy(h)      == h \ {"conf"}

\* raft_server_instance_shutdown(), which leaves the network to its caller
ShutdownCb(h) ==
  BufferSetDestroy(LregRemove(EvpCleanup(BackendClose(
    SyncThreadJoin(ChkptThreadJoin(h))))))

\* Mutant: the configuration is not released.
NetShutdownKeepsConf(h) ==
  TimerfdClose(ShutdownCb(EpollCleanup(SocketsClose(h))))

\* raft_net_instance_shutdown()
NetShutdown(h) ==
  ConfDestroy(TimerfdClose(ShutdownCb(EpollCleanup(SocketsClose(h)))))

\* A step of the start fails.  The timer and the event loop are set up before
\* a backend is chosen, and the shutdown reads ri_backend.
StartFails ==
  /\ pc = "start" /\ Fault
  /\ CASE Step \in {"conf", "sockets"} -> Exit("EIO") /\ UNCHANGED held
       [] Step \in {"timerfd", "epoll"} ->
            Abort("no_backend") /\ UNCHANGED held
       [] Step \in {"backend", "bind"} ->
            Exit("EIO") /\ held' = ShutdownCb(held)
       [] OTHER -> Exit("EIO") /\ held' = NetShutdown(held)
  /\ UNCHANGED <<dirs, peerv, mem, retries, parses, stale, short, pos, tries,
                 crashes, born, ran, resumed>>

\* rsbr_setup(): the subdirectories are made before the markers are read.
SubdirsMade == IF db = NoDir THEN Empty ELSE db

\* rsbr_recovery_marker_scan() and rsbr_setup_detect_recovery().  With EUCLEAN
\* raft_net_instance_startup() calls the shutdown callback only, and
\* raft_server_instance_run() sets ri_needs_bulk_recovery and loops.
BackendMarker ==
  /\ pc = "start" /\ Step = "backend" /\ Markers # {}
  /\ db' = SubdirsMade
  /\ held' = ShutdownCb(held) /\ proc' = "shutdown"
  /\ IF Cardinality(Markers) = 1 /\ parses
     THEN /\ rrh' = [peer |-> CHOOSE p \in Markers : TRUE, idx |-> -1,
                     marker |-> TRUE]
          /\ rc' = "ok" /\ needs' = TRUE /\ resumed' = TRUE
          /\ Goto("while")
     ELSE /\ Exit(IF parses THEN "E2BIG" ELSE "EINVAL")
          /\ UNCHANGED <<rrh, needs, resumed>>
  /\ UNCHANGED <<copy, stage, peerv, saved, recuuid, hdr, retries, faults,
                 parses, stale, short, pos, tries, crashes, born, ran>>

\* rsbr_db_open() of an existing database.  Without a uuid it is fatal.
BackendOpen ==
  /\ pc = "start" /\ Step = "backend" /\ Markers = {} /\ db.kind = "db"
  /\ CASE ~db.full -> Exit("ENOTCONN") /\ UNCHANGED <<held, pos, recuuid>>
       [] db.full /\ db.uuid = NoPeer ->
            Abort("no_uuid") /\ UNCHANGED <<held, pos, recuuid>>
       [] OTHER -> /\ recuuid' = RecoveryUuid(db)
                   /\ held' = held \cup {"backend"} /\ pos' = pos + 1
                   /\ UNCHANGED <<pc, rc>>
  /\ UNCHANGED <<dirs, peerv, proc, saved, needs, rrh, hdr, retries, faults,
                 parses, stale, short, tries, crashes, born, ran, resumed>>

\* rsbr_db_open() makes a database, and rsbr_init_header() writes its uuid and
\* then its header.
BackendCreate ==
  /\ pc = "start" /\ Step = "backend" /\ Markers = {}
  /\ db \in {NoDir, Empty}
  /\ db' = [kind |-> "db", full |-> TRUE, uuid |-> NoPeer, pre |-> NoPeer,
            hdr |-> [o \in Owner |-> -1], mine |-> Entries, idx |-> -1]
  /\ Goto("create")
  /\ UNCHANGED <<copy, stage, peerv, rc, mem, retries, faults, parses, stale, short,
                 instv>>

CreateHeader ==
  /\ pc = "create"
  /\ db' = IF db.uuid = NoPeer THEN [db EXCEPT !.uuid = Self]
           ELSE [db EXCEPT !.hdr[Self] = 0]
  /\ Goto(IF db.uuid = NoPeer THEN "create" ELSE "start")
  /\ UNCHANGED <<copy, stage, peerv, rc, mem, retries, faults, parses, stale, short,
                 instv>>

\* raft_server_log_load(): the header and all entries must be this server's.
Loadable(st) == st.hdr[Self] >= 0 /\ st.mine = Entries

LogLoad ==
  /\ pc = "start" /\ Step = "log"
  /\ IF Loadable(db)
     THEN /\ hdr' = db.hdr[Self] /\ pos' = pos + 1
          /\ UNCHANGED <<pc, rc, held>>
     ELSE Exit("ENOENT") /\ held' = NetShutdown(held) /\ UNCHANGED <<hdr, pos>>
  /\ UNCHANGED <<dirs, peerv, proc, saved, needs, rrh, recuuid, retries,
                 faults, parses, stale, short, tries, crashes, born, ran, resumed>>

\* raft_net_sockets_bind(); the server runs.
Bind ==
  /\ pc = "start" /\ Step = "bind"
  /\ proc' = "running" /\ born' = TRUE
  /\ ran' = [idx |-> Max({ran.idx, db.idx}), term |-> Max({ran.term, hdr})]
  /\ Goto("run")
  /\ UNCHANGED <<dirs, peerv, rc, saved, needs, rrh, recuuid, hdr, retries,
                 faults, parses, stale, short, held, pos, tries, crashes, resumed>>

(***************************************************************************)
(* The main loop and the stop.                                             *)
(***************************************************************************)

\* raft_server_main_loop(): any other event
MainLoop == pc = "run" /\ UNCHANGED vars

\* epoll_mgr_wait_and_process_events() fails: the instance is stopped without a
\* checkpoint, and the error, unless rc holds an older one, ends the loop of
\* raft_server_instance_run().
MainLoopFails ==
  /\ pc = "run" /\ Fault
  /\ held' = NetShutdown(held) /\ proc' = "shutdown"
  /\ Exit(IF rc = "ok" THEN "EIO" ELSE rc)
  /\ UNCHANGED <<dirs, peerv, saved, needs, rrh, recuuid, hdr, retries,
                 parses, stale, short, pos, tries, crashes, born, ran, resumed>>

\* raft_server_log_header_write_prep(): a vote or a newer leader raises the term.
RaiseTerm ==
  /\ pc = "run" /\ db.hdr[Self] < MaxTerm
  /\ db' = [db EXCEPT !.hdr[Self] = @ + 1]
  /\ hdr' = hdr + 1
  /\ ran' = [ran EXCEPT !.term = Max({@, hdr + 1})]
  /\ UNCHANGED <<copy, stage, peerv, pc, rc, proc, saved, needs, rrh, recuuid,
                 retries, faults, parses, stale, short, held, pos, tries, crashes,
                 born, resumed>>

\* Mutant: the server's own newest entry is not compared.
NeedsRecoveryAlways(p) == TRUE

NeedsRecovery(p) == db.idx < lowest[p]

\* The leader cannot read the entry before the one this server needs.
LeaderOutOfRange(p) == lowest[p] > 0

\* raft_server_process_bulk_recovery_check(): an AE request of leader p says
\* that the next entry is out of its range.  The main loop ends.
OutOfRange(p) ==
  /\ pc = "run" /\ LeaderOutOfRange(p) /\ NeedsRecovery(p)
  /\ needs' = TRUE
  /\ short' = (short \/ chkpt[p] < lowest[p])
  /\ rrh' = [peer |-> p, idx |-> chkpt[p], marker |-> FALSE]
  /\ Goto("stop")
  /\ UNCHANGED <<dirs, peerv, rc, proc, saved, recuuid, hdr, retries, faults,
                 parses, stale, instv>>

\* raft_server_chkpt_prior_to_recovery() and raft_net_instance_shutdown().
\* An error of either is returned unless rc holds an older one.
Stop ==
  /\ pc = "stop"
  /\ \/ UNCHANGED <<rc, faults>>
     \/ Fault /\ rc' = IF rc = "ok" THEN "ETIMEDOUT" ELSE rc
  /\ held' = NetShutdown(held)
  /\ proc' = IF rc' = "ok" THEN "booting" ELSE "shutdown"
  /\ Goto("while")
  /\ UNCHANGED <<dirs, peerv, saved, needs, rrh, recuuid, hdr, retries,
                 parses, stale, short, pos, tries, crashes, born, ran, resumed>>

\* The condition of the loop
While ==
  /\ pc = "while"
  /\ IF rc = "ok" /\ needs /\ tries > 0
     THEN tries' = tries - 1 /\ Goto("loop") /\ UNCHANGED rc
     ELSE Exit(rc) /\ UNCHANGED tries
  /\ UNCHANGED <<dirs, peerv, mem, retries, faults, parses, stale, short, held, pos,
                 crashes, born, ran, resumed>>

(***************************************************************************)
(* Crashes and new processes.                                              *)
(***************************************************************************)

\* The entry headers that were rewritten since the last synchronous write may
\* be lost.
Lost(st, n) == IF st = NoDir THEN st ELSE [st EXCEPT !.mine = n]

NewProcess ==
  /\ IF pc \in {"exited", "aborted"} THEN UNCHANGED crashes
     ELSE crashes < MaxCrashes /\ crashes' = crashes + 1
  /\ IF pc = "scrub"
     THEN \E n \in 0..stage[rrh.peer].mine :
            stage' = [stage EXCEPT ![rrh.peer] = Lost(@, n)]
     ELSE UNCHANGED stage
  /\ Goto("loop") /\ rc' = "ok"
  /\ proc' = "booting" /\ saved' = "booting" /\ needs' = FALSE
  /\ rrh' = NoHandle /\ recuuid' = NoPeer /\ hdr' = -1 /\ retries' = 0
  /\ held' = {} /\ pos' = 1 /\ tries' = RecoveryAttempts
  /\ resumed' = FALSE
  /\ UNCHANGED <<db, copy, peerv, faults, parses, stale, short, born, ran>>

ProcessStep ==
  \/ LoopTop \/ RecoverySucceeds \/ InstanceInit
  \/ ConfInit \/ SocketsSetup \/ TimerfdCreate \/ EpollSetup
  \/ BufferSetSetup \/ LregInit \/ EvpSetup
  \/ SyncThreadStart \/ ChkptThreadStart
  \/ StartFails \/ BackendMarker \/ BackendOpen
  \/ BackendCreate \/ CreateHeader \/ LogLoad \/ Bind
  \/ MainLoop \/ MainLoopFails \/ RaiseTerm \/ Stop \/ While \/ NewProcess
  \/ \E p \in Peers : OutOfRange(p)

Next ==
  \/ ProcessStep
  \/ RecoveryStep /\ UNCHANGED instv
  \/ PeerStep /\ UNCHANGED instv

Spec == Init /\ [][Next]_vars

\* The leaders are interchangeable.
PeerSymmetry == Permutations(Peers)

(***************************************************************************)
(* Properties.                                                             *)
(***************************************************************************)

\* Where the process stands, and what a call has returned
Labels ==
  {"loop", "init", "start", "create", "run", "stop", "while",
   "import", "xfer", "verify", "stage", "remove",
   "open", "scrub", "header", "promote", "exited", "aborted"}
Codes ==
  {"ok", "EINVAL", "ENOSPC", "EIO", "EBADE", "ENOTCONN", "ENODEV", "E2BIG",
   "ENOENT", "ETIMEDOUT", "not_booting", "no_backend", "no_uuid"}

\* Every variable has its type: the directories, the recovery handle and the
\* fields of the instance; an rsync call is repeated at most RsyncTries times
\* (RSBR_BULK_RECOVER_RSYNC_CMD) and the attempts never run below zero.
TypeOK ==
  /\ db \in Store \cup {NoDir, Empty}
  /\ stage \in [Peers -> Store \cup {NoDir}]
  /\ copy \in [Peers -> [idx : Idx, full : BOOLEAN]]
  /\ chkpt \in [Peers -> Idx] /\ lowest \in [Peers -> Idx]
  /\ pc \in Labels /\ rc \in Codes
  /\ {proc, saved} \subseteq {"booting", "running", "shutdown", "recovering"}
  /\ {needs, parses, stale, short, born, resumed} \subseteq BOOLEAN
  /\ rrh \in Handle /\ recuuid \in Uuid /\ hdr \in Term
  /\ retries \in 0..(RsyncTries - 1) /\ faults \in 0..MaxFaults
  /\ held \subseteq Resources /\ pos \in 1..Len(StartOrder)
  /\ tries \in 0..RecoveryAttempts /\ crashes \in 0..MaxCrashes
  /\ ran \in [idx : Idx, term : Term]

\* A database this server can start from
Usable(d) == d.kind = "db" /\ d.full /\ d.uuid = Self /\ Loadable(d)

\* StoreKept: once the server has run, a crash or an error at any step of a
\* recovery (rsbr_bulk_recover) never leaves it with a database in db/ that it
\* cannot start from, never makes it start on an empty one, and never leaves
\* it without a whole copy.  Two markers never exist.
StoreKept ==
  /\ Cardinality(Markers) <= 1
  /\ born =>
       /\ db.kind = "db" => Usable(db)
       /\ pc # "create"
       /\ Usable(db) \/ \E p \in Markers : stage[p].full /\ stage[p].hdr[p] >= 0

\* LogKept: unless a leader has compacted beyond its last checkpoint, the
\* database a recovery puts in place is never behind the log the server had,
\* which it may have acknowledged.
LogKept == pc = "run" /\ ~short => db.idx >= ran.idx

\* ExitsExplained: no assertion fails and no error ends the process except
\* those below.  A process that resumes a recovery always fails the assertion
\* of raft_server_instance_init(), even if the recovery has succeeded; a scrub
\* is refused only after a header for which ri_db_recovery_uuid was stale; a
\* marker ends the start if its name is not parsed; a database whose creation
\* was cut short cannot be opened; at most two of the attempts are used.
ExitsExplained ==
  /\ pc = "aborted" =>
       CASE rc = "not_booting" -> resumed
         [] rc = "no_uuid" -> ~born
         [] rc = "no_backend" -> faults > 0
         [] OTHER -> FALSE
  /\ rc = "ENODEV" => stale
  /\ pc = "exited" =>
       CASE rc = "EINVAL" -> (Markers # {} /\ ~parses) \/ short
         [] rc = "ENOENT" -> ~born
         [] OTHER -> rc # "ok"
  /\ tries >= RecoveryAttempts - 2

\* CleanRestart: when the loop initializes the instance again, which forgets
\* what it holds, sockets, timer, event loop, database and threads have been
\* released, unless the start before has found a marker.
CleanRestart == pc = "init" /\ held # {} => resumed

\* TermKept: "Recovering raft instance must keep the contents of the previous
\* header to maintain the term and voted-for values"
\* (raft_server_backend_rocksdb.c:890): a server that has recovered is not in
\* an older term than before, in which it may vote again.
TermKept == pc = "run" => db.hdr[Self] >= ran.term
====
