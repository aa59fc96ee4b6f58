------------------------------ MODULE LogStore ------------------------------
(***************************************************************************)
(* What one server's log promises to the protocol: entries are appended at *)
(* the end, a growing prefix of them is synced, a prune cuts the end off   *)
(* and leaves everything that remains synced, and a crash loses none of    *)
(* the synced entries.  RaftServer takes the two ends of a log to behave   *)
(* like this; LogSync shows that the threads of a server implement it.     *)
(***************************************************************************)
EXTENDS Integers, Sequences

CONSTANT Term  \* what is told of an entry

VARIABLES
  log,     \* the entries
  synced   \* how many of them are known to be durable

vars == <<log, synced>>

Init == log = <<>> /\ synced = 0

AppendEntry ==
  \E t \in Term :
    /\ log' = Append(log, t)
    /\ UNCHANGED synced

Sync ==
  /\ synced' \in synced + 1 .. Len(log)
  /\ UNCHANGED log

Prune ==
  \E n \in 1 .. Len(log) - 1 :
    /\ log' = SubSeq(log, 1, n)
    /\ synced' = n

Crash ==
  \E n \in synced .. Len(log) :
    /\ log' = SubSeq(log, 1, n)
    /\ synced' = n

Next == AppendEntry \/ Sync \/ Prune \/ Crash

Spec == Init /\ [][Next]_vars
=============================================================================
