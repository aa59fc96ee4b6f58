----------------------- MODULE ClientRequests_proofs -----------------------
(***************************************************************************)
(* Theorems of ClientRequests: each committed write is applied once and in *)
(* order, answered writes are committed and seen by reads, no write is     *)
(* committed twice, and which assertions fail.                             *)
(*                                                                         *)
(* The writes of a log are one sequence (All).  What a server has applied  *)
(* is a prefix of the one of the committed log; what a leader has under    *)
(* way, in its log, in the coalesced write and in a worker, continues it,  *)
(* with at most one write of each client.                                  *)
(***************************************************************************)
EXTENDS ClientRequests, FiniteSetTheorems, SequenceTheorems,
        WellFoundedInduction, TLAPS

(***************************************************************************)
(* The inductive invariant.                                                *)
(***************************************************************************)

\* The writes of the first n entries of L, and of all of them
Flat(L, n) == FlattenSeq([i \in 1..n |-> L[i].ops])
All(L)     == Flat(L, Len(L))

\* The values of the variables
Ops     == Seq(Op)
Entry   == [term : Nat, ops : Ops, ws : Ops]
Log     == Seq(Entry)
Server  == [role : {"follower", "candidate", "prevote", "leader"}, term : Nat,
            log : Log, initial : Nat, commit : Nat]
Applied == [idx : Nat, sub : Nat, max : Nat, crc : SUBSET Nat, kv : Ops]
State   == [la : Applied, app : Ops]
Item    == [op : Op, term : Nat]
Buffer  == [items : Seq(Item), ws : Ops]
Request == [pc : {"check", "lock", "write"}, op : Op, term : Nat,
            leader : BOOLEAN]
Mark    == [seq : Nat, term : Nat]

\* What the variables hold
TypeOK ==
  /\ top \in Nat /\ clog \in Log
  /\ raft \in [Servers -> Server]
  /\ co \in [Servers -> Buffer]
  /\ sm \in [Servers -> State] /\ disk \in [Servers -> State]
  /\ pend \in [Servers -> [Clients -> Mark]]
  /\ wk \in [Servers -> [Workers -> Request \cup {Idle}]]
  /\ nai \in [Servers -> Applied \cup {Idle}]
  /\ evp \in [Servers -> BOOLEAN]
  /\ fatal \in [Servers -> {"none", "commit_behind", "not_leader", "pending",
                            "seqno", "handle"}]
  /\ acked \subseteq Op /\ stale \in BOOLEAN /\ late \in BOOLEAN
  /\ restarted \subseteq Servers /\ won \subseteq Servers \X Workers

\* L and M have the same first n entries.
Agree(L, M, n) ==
  n <= Len(L) /\ n <= Len(M) /\ \A i \in 1..n : L[i] = M[i]

\* r is the newest leader, of term tp; r leads or has lost its quorum.
Newest(tp, r) == r.role = "leader" /\ r.term = tp
Elected(r)    == r.role \in {"leader", "prevote"}

\* The log of a server that has applied st holds what is committed and what
\* is applied, also in state dk; a leader has all of it, and its marker after
\* it.
LogHolds(tp, L, r, st, dk) ==
  /\ Elected(r) => r.term <= tp
  /\ r.term = 0 => r.log = <<>>
  /\ Agree(r.log, L, r.commit)
  /\ Agree(r.log, L, st.la.idx)
  /\ Agree(r.log, L, dk.la.idx)
  /\ Newest(tp, r) => Agree(r.log, L, Len(L))
  /\ Elected(r) => /\ r.term # 0 /\ r.initial < Len(r.log)
                   /\ r.log[r.initial + 1].ops = <<>>

\* It holds on every server, and a term has one elected server at most.
Logs ==
  /\ \A s \in Servers : LogHolds(top, clog, raft[s], sm[s], disk[s])
  /\ \A s, t \in Servers :
       Elected(raft[s]) /\ Elected(raft[t]) /\ raft[s].term = raft[t].term
         => s = t

\* The number of the last sub-entry of e
LastSub(e) == IF e.ops = <<>> THEN 0 ELSE Len(e.ops) - 1

\* The writes of L that la stands for
Upto(L, la) ==
  LET part == IF la.idx = 0 THEN <<>> ELSE L[la.idx].ops
      n    == IF Len(part) > la.sub THEN la.sub + 1 ELSE Len(part)
  IN Flat(L, la.idx - 1) \o SubSeq(part, 1, n)

\* la is a place in L.
Place(L, la) ==
  /\ la.idx <= Len(L)
  /\ la.idx = 0 => la.sub = 0 /\ la.max = 0
  /\ la.idx # 0 => la.max = LastSub(L[la.idx]) /\ la.sub <= la.max

\* What is applied is what the record says; kv is the sum over it if known.
Correct(L, st, known) ==
  /\ Place(L, st.la)
  /\ st.app = Upto(L, st.la)
  /\ st.la.crc = 1..WholeIdx(st.la)
  /\ known => st.la.kv = Flat(L, WholeIdx(st.la))

\* It is so in memory and on disk.
StoresCorrect ==
  \A s \in Servers : /\ Correct(clog, sm[s], s \notin restarted)
                     /\ Correct(clog, disk[s], s \notin restarted)

\* Within a coalesced entry the main thread has the next sub-entry at hand.
AtHand(r, st, next, known) ==
  /\ next.idx = st.la.idx /\ next.sub = st.la.sub + 1
  /\ st.la.sub < st.la.max /\ next.max = st.la.max
  /\ next.crc = 1..st.la.idx
  /\ st.la.idx # 0 /\ st.la.idx <= r.commit
  /\ known => next.kv = st.app

\* A server that was not restarted is otherwise between entries.
ApplyingAt(r, st, next, known) ==
  /\ next # Idle => AtHand(r, st, next, known)
  /\ known => st.la.idx <= r.commit
  /\ known /\ next = Idle => st.la.sub = st.la.max

\* The main threads
Applying ==
  \A s \in Servers : ApplyingAt(raft[s], sm[s], nai[s], s \notin restarted)

\* The writes of a client are numbered from 1.
Numbered(st) ==
  \A c \in Clients : \A n \in 1..AppSeq(st, c) :
    [c |-> c, n |-> n] \in ToSet(st.app)

\* The newest leader has every answered write before its marker or applied,
\* and a leader that is not the newest one answers nothing else.
HasAnswered(A, r, st) ==
  A \subseteq ToSet(Flat(r.log, r.initial)) \cup ToSet(st.app)

\* rx has committed and applied nothing behind the marker of r.
Behind(r, rx, stx) == rx.commit <= r.initial /\ stx.la.idx <= r.initial

\* Answered writes are committed, numbered without gaps, and seen by reads.
Acks ==
  /\ ~stale
  /\ acked \subseteq ToSet(All(clog))
  /\ \A s \in Servers : Numbered(sm[s]) /\ Numbered(disk[s])
  /\ \A s \in Servers :
       Newest(top, raft[s]) => HasAnswered(acked, raft[s], sm[s])
  /\ \A s, x \in Servers :
       Newest(top, raft[s]) /\ raft[x].role = "leader" /\ x # s =>
         Behind(raft[s], raft[x], sm[x])

\* One worker at most has the mutex.
Mutex(ws) ==
  \A v, w \in Workers : ws[v].pc = "write" /\ ws[w].pc = "write" => v = w

\* A failed check of leadership leaves its worker there.
Explained(f, ws, isLate, wasDown) ==
  /\ f = "not_leader" => \E w \in Workers : ws[w].pc = "write"
  /\ f = "commit_behind" => wasDown
  /\ f \in {"pending", "seqno"} => isLate

\* No term is ahead of the server's term T.
TermsPast(T, b, p, ws) ==
  /\ \A w \in Workers : ws[w] # Idle => ws[w].term <= T
  /\ \A i \in 1..Len(b.items) : b.items[i].term <= T
  /\ \A c \in Clients : p[c].term <= T

\* The workers of every server
Workings ==
  \A s \in Servers :
    /\ Mutex(wk[s])
    /\ Explained(fatal[s], wk[s], late, s \in restarted)
    /\ TermsPast(raft[s].term, co[s], pend[s], wk[s])

\* The server has applied the marker of its leadership.
Active(r, st) == Elected(r) /\ st.la.idx > r.initial

\* The request has passed the check of leadership.
Checked(q) == q.pc \in {"lock", "write"}

\* Requests of this term are there only after the marker was applied.
OfTheTerm(r, st, b, p, ws) ==
  /\ Elected(r) /\ ~Active(r, st) => Len(r.log) = r.initial + 1
  /\ \A w \in Workers : Checked(ws[w]) /\ ws[w].term = r.term => Active(r, st)
  /\ \A i \in 1..Len(b.items) : b.items[i].term = r.term => Active(r, st)
  /\ \A c \in Clients : p[c].term = r.term => Active(r, st) \/ r.term = 0

\* The writes of client c among the first k of z
CountOf(z, k, c) == Cardinality({i \in 1..k : z[i].c = c})

\* Each client's writes are numbered from 1, in order.
InOrder(z) == \A k \in 1..Len(z) : z[k].n = CountOf(z, k, z[k].c)

\* Every entry has the supplements of its requests.
Supplied(L) == \A i \in 1..Len(L) : L[i].ws = L[i].ops

\* Nothing in the coalesced write is of an earlier term.
Fresh(b, T) == \A i \in 1..Len(b.items) : b.items[i].term = T
CoOps(b) == [i \in 1..Len(b.items) |-> b.items[i].op]

\* The writes of the log and, if it is of this term, of the coalesced write
Queue(r, b) == All(r.log) \o (IF Fresh(b, r.term) THEN CoOps(b) ELSE <<>>)

\* z continues what st has applied with writes that are pending in term T,
\* one of a client.
InFlight(T, st, p, z) ==
  /\ InOrder(z)
  /\ \A k \in Len(st.app) + 1 .. Len(z) :
       /\ p[z[k].c] = [seq |-> z[k].n, term |-> T]
       /\ z[k].n = AppSeq(st, z[k].c) + 1

\* What a leader has under way: its log, the coalesced write and a worker
Queued(r, st, b, p, ws) ==
  /\ Fresh(b, r.term) => b.ws = CoOps(b)
  /\ Active(r, st) => InFlight(r.term, st, p, Queue(r, b))
  /\ Active(r, st) =>
       \A w \in Workers :
         ws[w].pc = "write" /\ ws[w].term = r.term =>
           InFlight(r.term, st, p, Append(Queue(r, b), ws[w].op))

\* What holds as long as no request was accepted or logged in another term
\* than it was taken in
InTermAt(r, st, b, p, ws) ==
  /\ InOrder(All(r.log)) /\ Supplied(r.log)
  /\ OfTheTerm(r, st, b, p, ws)
  /\ Queued(r, st, b, p, ws)

\* It holds on every server, and no write is committed twice.
InTerm ==
  /\ InOrder(All(clog))
  /\ \A s \in Servers : InTermAt(raft[s], sm[s], co[s], pend[s], wk[s])

\* The invariant
IndInv ==
  /\ TypeOK /\ Logs /\ StoresCorrect /\ Applying /\ Acks /\ Workings
  /\ ~late => InTerm

(***************************************************************************)
(* The writes of a log.  The library defines FlattenSeq by recursion over  *)
(* the positions; induction goes by the least counterexample.              *)
(***************************************************************************)

\* A nonempty set of naturals has a smallest element.
LEMMA LeastNatural ==
  ASSUME NEW T \in SUBSET Nat, T # {}
  PROVE  \E x \in T : \A y \in T : x <= y
<1> DEFINE R == {ss \in Nat \X Nat : ss[1] < ss[2]}
<1>1. IsWellFoundedOn(R, Nat)
  <2>1. R = OpToRel(<, Nat)
    BY Zenon DEF OpToRel
  <2> QED
    BY <2>1, NatLessThanWellFounded, Zenon
<1>2. \A x, y \in Nat : <<y, x>> \in R <=> y < x
  OBVIOUS
<1> HIDE DEF R
<1>3. PICK x \in T : \A y \in T : ~(<<y, x>> \in R)
  BY <1>1, WFMin
<1>4. \A y \in T : x <= y
  <2> SUFFICES ASSUME NEW y \in T PROVE x <= y
    OBVIOUS
  <2>1. x \in Nat /\ y \in Nat
    OBVIOUS
  <2>2. ~(y < x)
    BY <1>2, <1>3, <2>1
  <2> QED
    BY <2>1, <2>2
<1> QED
  BY <1>4

\* Induction over a set of naturals
LEMMA SetInduction ==
  ASSUME NEW T, 0 \in T, \A n \in Nat : n \in T => n + 1 \in T
  PROVE  \A n \in Nat : n \in T
<1> SUFFICES ASSUME NEW m \in Nat, m \notin T PROVE FALSE
  OBVIOUS
<1> DEFINE B == {n \in Nat : n \notin T}
<1>1. B \in SUBSET Nat /\ B # {}
  OBVIOUS
<1>2. PICK x \in B : \A y \in B : x <= y
  BY <1>1, LeastNatural
<1>3. x \in Nat /\ x # 0 /\ x - 1 \in Nat /\ ~(x <= x - 1)
  OBVIOUS
<1>4. x - 1 \in T
  BY <1>2, <1>3
<1>5. (x - 1) + 1 = x
  BY <1>3
<1> QED
  BY <1>3, <1>4, <1>5

\* f concatenates the first n elements of ss, step by step.
Flattens(f, ss, n) ==
  f = [i \in 1..n |-> IF i = 1 THEN ss[i] ELSE f[i - 1] \o ss[i]]

\* There is such a function.
LEMMA FlattenExists ==
  ASSUME NEW ss
  PROVE  \A n \in Nat : \E f : Flattens(f, ss, n)
<1> DEFINE T == {n \in Nat : \E f : Flattens(f, ss, n)}
<1>1. 0 \in T
  <2> DEFINE f == [i \in 1..0 |-> ss[i]]
  <2>1. 1..0 = {}
    OBVIOUS
  <2>2. Flattens(f, ss, 0)
    BY <2>1 DEF Flattens
  <2> QED
    BY <2>2
<1>2. ASSUME NEW n \in Nat, n \in T PROVE n + 1 \in T
  <2>1. PICK f : Flattens(f, ss, n)
    BY <1>2
  <2> DEFINE g == [i \in 1..(n + 1) |->
                     IF i \in 1..n THEN f[i]
                     ELSE IF i = 1 THEN ss[i] ELSE f[i - 1] \o ss[i]]
  <2>2. ASSUME NEW i \in 1..(n + 1)
        PROVE  g[i] = IF i = 1 THEN ss[i] ELSE g[i - 1] \o ss[i]
    <3>1. CASE i \in 1..n
      <4>1. g[i] = f[i]
        BY <3>1
      <4>2. f[i] = IF i = 1 THEN ss[i] ELSE f[i - 1] \o ss[i]
        BY <2>1, <3>1 DEF Flattens
      <4>3. i # 1 => i - 1 \in 1..n /\ i - 1 \in 1..(n + 1)
        BY <3>1
      <4>4. i # 1 => g[i - 1] = f[i - 1]
        BY <4>3
      <4> QED
        BY <4>1, <4>2, <4>4
    <3>2. CASE i \notin 1..n
      <4>1. g[i] = IF i = 1 THEN ss[i] ELSE f[i - 1] \o ss[i]
        BY <3>2
      <4>2. i # 1 => i - 1 \in 1..n /\ i - 1 \in 1..(n + 1)
        BY <3>2
      <4>3. i # 1 => g[i - 1] = f[i - 1]
        BY <4>2
      <4> QED
        BY <4>1, <4>3
    <3> QED
      BY <3>1, <3>2
  <2>3. g = [i \in 1..(n + 1) |-> g[i]]
    OBVIOUS
  <2> HIDE DEF g
  <2>4. Flattens(g, ss, n + 1)
    BY <2>2, <2>3 DEF Flattens
  <2> QED
    BY <2>4
<1> HIDE DEF T
<1>3. \A n \in Nat : n \in T
  BY <1>1, <1>2, SetInduction
<1> QED
  BY <1>3 DEF T

\* It depends on the first elements only.
LEMMA FlattenUnique ==
  ASSUME NEW ss, NEW tt, NEW m \in Nat, NEW n \in Nat, NEW f, NEW g,
         Flattens(f, ss, m), Flattens(g, tt, n), \A i \in 1..m : ss[i] = tt[i],
         m <= n
  PROVE  \A i \in 1..m : f[i] = g[i]
<1> DEFINE T == {k \in Nat : k \in 1..m => f[k] = g[k]}
<1>1. 0 \in T
  OBVIOUS
<1>2. ASSUME NEW k \in Nat, k \in T PROVE k + 1 \in T
  <2> SUFFICES ASSUME k + 1 \in 1..m PROVE f[k + 1] = g[k + 1]
    OBVIOUS
  <2>1. k + 1 \in 1..n
    OBVIOUS
  <2>2. f[k + 1] = IF k + 1 = 1 THEN ss[k + 1] ELSE f[(k + 1) - 1] \o ss[k + 1]
    BY DEF Flattens
  <2>3. g[k + 1] = IF k + 1 = 1 THEN tt[k + 1] ELSE g[(k + 1) - 1] \o tt[k + 1]
    BY <2>1 DEF Flattens
  <2>4. (k + 1) - 1 = k /\ ss[k + 1] = tt[k + 1]
    OBVIOUS
  <2>5. CASE k = 0
    BY <2>2, <2>3, <2>4, <2>5
  <2>6. CASE k # 0
    <3>1. k \in 1..m
      BY <2>6
    <3>2. f[k] = g[k]
      BY <1>2, <3>1
    <3> QED
      BY <2>2, <2>3, <2>4, <2>6, <3>2
  <2> QED
    BY <2>5, <2>6
<1> HIDE DEF T
<1>3. \A k \in Nat : k \in T
  BY <1>1, <1>2, SetInduction
<1> QED
  BY <1>3 DEF T

\* The n-th value of such a function is the concatenation.
LEMMA FlatIs ==
  ASSUME NEW L, NEW n \in Nat, n # 0, NEW f,
         Flattens(f, [i \in 1..n |-> L[i].ops], n)
  PROVE  Flat(L, n) = f[n]
<1> DEFINE ss == [i \in 1..n |-> L[i].ops]
<1> DEFINE g == CHOOSE h : Flattens(h, ss, n)
<1>1. Len(ss) = n
  OBVIOUS
<1>2. Flat(L, n) = g[n]
  BY <1>1 DEF Flat, FlattenSeq, Flattens
<1>3. Flattens(g, ss, n)
  OBVIOUS
<1> HIDE DEF g, ss
<1>4. \A i \in 1..n : g[i] = f[i]
  BY <1>3, FlattenUnique DEF ss
<1> QED
  BY <1>2, <1>4

\* No entries have no writes.
LEMMA FlatZero ==
  ASSUME NEW L, NEW n \in Int, n <= 0
  PROVE  Flat(L, n) = <<>>
<1>1. 1..n = {}
  OBVIOUS
<1>2. [i \in 1..n |-> L[i].ops] = <<>>
  BY <1>1
<1>3. FlattenSeq(<<>>) = <<>>
  BY DEF FlattenSeq
<1> QED
  BY <1>2, <1>3 DEF Flat

\* The writes of one more entry come at the end.
LEMMA FlatNext ==
  ASSUME NEW L, NEW n \in Nat, L[n + 1].ops \in Ops
  PROVE  Flat(L, n + 1) = Flat(L, n) \o L[n + 1].ops
<1> DEFINE ss == [i \in 1..n |-> L[i].ops]
           tt == [i \in 1..(n + 1) |-> L[i].ops]
<1>2. n + 1 \in Nat /\ n + 1 # 0 /\ n + 1 \in 1..(n + 1)
  OBVIOUS
<1>0. \E f : Flattens(f, tt, n + 1)
  <2> HIDE DEF tt
  <2> QED
    BY <1>2, FlattenExists
<1>1. PICK f : Flattens(f, tt, n + 1)
  BY <1>0
<1>3. Flat(L, n + 1) = f[n + 1]
  BY <1>1, <1>2, FlatIs
<1>4. f[n + 1] = IF n + 1 = 1 THEN tt[n + 1] ELSE f[(n + 1) - 1] \o tt[n + 1]
  BY <1>1, <1>2 DEF Flattens
<1>5. tt[n + 1] = L[n + 1].ops /\ (n + 1) - 1 = n
  BY <1>2
<1>6. CASE n = 0
  <2>1. Flat(L, n) = <<>>
    BY <1>6, FlatZero
  <2>2. <<>> \o L[n + 1].ops = L[n + 1].ops
    BY DEF Ops
  <2>3. f[n + 1] = L[n + 1].ops
    BY <1>4, <1>5, <1>6
  <2> QED
    BY <1>3, <2>1, <2>2, <2>3
<1>7. CASE n # 0
  <2>1. PICK g : Flattens(g, ss, n)
    BY FlattenExists
  <2>2. Flat(L, n) = g[n]
    BY <1>7, <2>1, FlatIs
  <2>3. \A i \in 1..n : ss[i] = tt[i]
    OBVIOUS
  <2>4. n <= n + 1 /\ n \in 1..n
    BY <1>7
  <2> HIDE DEF ss, tt
  <2>5. \A i \in 1..n : g[i] = f[i]
    BY <1>1, <1>2, <2>1, <2>3, <2>4, FlattenUnique
  <2>6. g[n] = f[n]
    BY <2>4, <2>5
  <2>7. n + 1 # 1
    BY <1>7
  <2>8. f[n + 1] = f[n] \o L[n + 1].ops
    BY <1>4, <1>5, <2>7 DEF tt
  <2> QED
    BY <1>3, <2>2, <2>6, <2>8
<1> QED
  BY <1>6, <1>7

\* The writes are those of the entries.
LEMMA FlatSame ==
  ASSUME NEW L, NEW M, NEW n \in Int, \A i \in 1..n : L[i] = M[i]
  PROVE  Flat(L, n) = Flat(M, n)
<1>1. [i \in 1..n |-> L[i].ops] = [i \in 1..n |-> M[i].ops]
  OBVIOUS
<1> QED
  BY <1>1 DEF Flat

\* What an entry of a log is
LEMMA LogEntry ==
  ASSUME NEW L \in Log, NEW i \in 1..Len(L)
  PROVE  L[i] \in Entry /\ L[i].ops \in Ops /\ L[i].ws \in Ops
<1>1. L[i] \in Entry
  BY DEF Log
<1> QED
  BY <1>1 DEF Entry

\* The writes up to the next entry of a log
LEMMA LogNext ==
  ASSUME NEW L \in Log, NEW n \in Nat, n < Len(L)
  PROVE  Flat(L, n + 1) = Flat(L, n) \o L[n + 1].ops
<1>1. Len(L) \in Nat
  BY DEF Log
<1>2. n + 1 \in 1..Len(L)
  BY <1>1
<1> QED
  BY <1>2, LogEntry, FlatNext

\* They are a sequence of writes.
LEMMA FlatType ==
  ASSUME NEW L \in Log, NEW n \in Int, n <= Len(L)
  PROVE  Flat(L, n) \in Ops
<1> DEFINE T == {k \in Nat : k <= Len(L) => Flat(L, k) \in Ops}
<1>0. Len(L) \in Nat
  BY DEF Log
<1>1. 0 \in T
  <2>1. Flat(L, 0) = <<>>
    BY FlatZero
  <2>2. <<>> \in Ops
    BY DEF Ops
  <2> QED
    BY <2>1, <2>2
<1>2. ASSUME NEW k \in Nat, k \in T PROVE k + 1 \in T
  <2> SUFFICES ASSUME k + 1 <= Len(L) PROVE Flat(L, k + 1) \in Ops
    OBVIOUS
  <2>1. k < Len(L) /\ k <= Len(L) /\ k + 1 \in 1..Len(L)
    BY <1>0
  <2>2. Flat(L, k + 1) = Flat(L, k) \o L[k + 1].ops
    BY <2>1, LogNext
  <2>3. Flat(L, k) \in Ops /\ L[k + 1].ops \in Ops
    BY <1>2, <2>1, LogEntry
  <2> HIDE DEF T
  <2>4. Flat(L, k) \o L[k + 1].ops \in Ops
    BY <2>3 DEF Ops
  <2> QED
    BY <2>2, <2>4
<1> HIDE DEF T
<1>3. \A k \in Nat : k \in T
  BY <1>1, <1>2, SetInduction
<1>4. CASE n \in Nat
  BY <1>3, <1>4 DEF T
<1>5. CASE n \notin Nat
  <2>1. n <= 0
    BY <1>5
  <2>2. Flat(L, n) = <<>>
    BY <2>1, FlatZero
  <2> QED
    BY <2>2 DEF Ops
<1> QED
  BY <1>4, <1>5

\* y begins with x.
Begins(x, y) == Len(x) <= Len(y) /\ \A i \in 1..Len(x) : x[i] = y[i]

\* A sequence begins what it is continued to.
LEMMA BeginsConcat ==
  ASSUME NEW S, NEW x \in Seq(S), NEW y \in Seq(S)
  PROVE  Begins(x, x \o y) /\ Len(x \o y) = Len(x) + Len(y)
<1>1. x \o y \in Seq(S) /\ Len(x \o y) = Len(x) + Len(y)
  OBVIOUS
<1>2. \A i \in 1..Len(x) : (x \o y)[i] = x[i]
  OBVIOUS
<1>3. Len(x) \in Nat /\ Len(y) \in Nat
  OBVIOUS
<1> QED
  BY <1>1, <1>2, <1>3 DEF Begins

\* A beginning of a beginning
LEMMA BeginsTrans ==
  ASSUME NEW S, NEW x \in Seq(S), NEW y \in Seq(S), NEW z \in Seq(S),
         Begins(x, y), Begins(y, z)
  PROVE  Begins(x, z)
<1>1. Len(x) \in Nat /\ Len(y) \in Nat /\ Len(z) \in Nat
  OBVIOUS
<1>2. \A i \in 1..Len(x) : i \in 1..Len(y)
  BY <1>1 DEF Begins
<1> QED
  BY <1>1, <1>2 DEF Begins

\* The writes of fewer entries are at the beginning.
LEMMA FlatBegins ==
  ASSUME NEW L \in Log, NEW m \in Int, NEW n \in Nat, m <= n, n <= Len(L)
  PROVE  Begins(Flat(L, m), Flat(L, n))
<1>0. Len(L) \in Nat
  BY DEF Log
<1>1. CASE m <= 0
  <2>1. Flat(L, m) = <<>>
    BY <1>1, FlatZero
  <2>2. Flat(L, n) \in Ops
    BY FlatType
  <2>3. Len(Flat(L, n)) \in Nat
    BY <2>2 DEF Ops
  <2> QED
    BY <2>1, <2>3 DEF Begins
<1>2. CASE m > 0
  <2>0. m \in Nat /\ m <= Len(L)
    BY <1>0, <1>2
  <2> DEFINE T == {k \in Nat : m <= k /\ k <= Len(L)
                                 => Begins(Flat(L, m), Flat(L, k))}
  <2>1. 0 \in T
    BY <1>2
  <2>2. ASSUME NEW k \in Nat, k \in T PROVE k + 1 \in T
    <3> SUFFICES ASSUME m <= k + 1, k + 1 <= Len(L)
                 PROVE  Begins(Flat(L, m), Flat(L, k + 1))
      OBVIOUS
    <3>1. CASE m = k + 1
      <4>1. Flat(L, m) \in Ops
        BY <2>0, FlatType
      <4>2. Len(Flat(L, m)) \in Nat
        BY <4>1 DEF Ops
      <4> QED
        BY <3>1, <4>2 DEF Begins
    <3>2. CASE m # k + 1
      <4>1. m <= k /\ k < Len(L) /\ k <= Len(L) /\ k + 1 \in 1..Len(L)
        BY <1>0, <3>2
      <4>2. Flat(L, k + 1) = Flat(L, k) \o L[k + 1].ops
        BY <4>1, LogNext
      <4>3. /\ Flat(L, k) \in Ops /\ L[k + 1].ops \in Ops /\ Flat(L, m) \in Ops
            /\ Flat(L, k + 1) \in Ops
        BY <2>0, <4>1, FlatType, LogEntry
      <4>4. Begins(Flat(L, m), Flat(L, k))
        BY <2>2, <4>1
      <4>5. Begins(Flat(L, k), Flat(L, k + 1))
        BY <4>2, <4>3, BeginsConcat DEF Ops
      <4> QED
        BY <4>3, <4>4, <4>5, BeginsTrans DEF Ops
    <3> QED
      BY <3>1, <3>2
  <2> HIDE DEF T
  <2>3. \A k \in Nat : k \in T
    BY <2>1, <2>2, SetInduction
  <2> QED
    BY <2>3 DEF T
<1> QED
  BY <1>1, <1>2

(***************************************************************************)
(* The writes that a last-applied record stands for.                       *)
(***************************************************************************)

\* The fields of a last-applied record
LEMMA AppliedType ==
  ASSUME NEW la \in Applied
  PROVE  /\ la.idx \in Nat /\ la.sub \in Nat /\ la.max \in Nat
         /\ la.crc \in SUBSET Nat /\ la.kv \in Ops
BY DEF Applied

\* Within entry idx, the first sub + 1 of its writes
LEMMA UptoIs ==
  ASSUME NEW L, NEW la \in Applied, la.idx # 0, NEW ops \in Ops,
         L[la.idx].ops = ops
  PROVE  /\ Len(ops) > la.sub =>
              Upto(L, la) = Flat(L, la.idx - 1) \o SubSeq(ops, 1, la.sub + 1)
         /\ ~(Len(ops) > la.sub) => Upto(L, la) = Flat(L, la.idx - 1) \o ops
<1>1. Len(ops) \in Nat /\ SubSeq(ops, 1, Len(ops)) = ops
  BY DEF Ops
<1> QED
  BY <1>1 DEF Upto

\* Nothing is applied.
LEMMA UptoZero ==
  ASSUME NEW L, NEW la \in Applied, la.idx = 0
  PROVE  Upto(L, la) = <<>>
<1>1. Flat(L, la.idx - 1) = <<>>
  BY FlatZero
<1>2. la.sub \in Nat /\ Len(<<>>) = 0
  BY AppliedType
<1>3. Upto(L, la) = <<>> \o SubSeq(<<>>, 1, 0)
  BY <1>1, <1>2 DEF Upto
<1>4. SubSeq(<<>>, 1, 0) = <<>>
  OBVIOUS
<1>5. <<>> \o <<>> = <<>>
  OBVIOUS
<1> QED
  BY <1>3, <1>4, <1>5

\* The first n elements
LEMMA SubSeqBegins ==
  ASSUME NEW S, NEW x \in Seq(S), NEW n \in Nat, n <= Len(x)
  PROVE  /\ SubSeq(x, 1, n) \in Seq(S) /\ Len(SubSeq(x, 1, n)) = n
         /\ \A i \in 1..n : SubSeq(x, 1, n)[i] = x[i]
OBVIOUS

\* The first n of a sequence of writes
LEMMA BeginningOps ==
  ASSUME NEW x \in Ops, NEW n \in Nat, n <= Len(x)
  PROVE  \E v \in Ops : /\ v = SubSeq(x, 1, n) /\ Len(v) = n
                        /\ \A i \in 1..Len(v) : v[i] = x[i]
<1> DEFINE v == SubSeq(x, 1, n)
<1>1. x \in Seq(Op)
  BY DEF Ops
<1>2. v \in Seq(Op) /\ Len(v) = n /\ \A i \in 1..n : v[i] = x[i]
  BY <1>1, SubSeqBegins
<1>3. v \in Ops
  BY <1>2 DEF Ops
<1> HIDE DEF v
<1>4. /\ v = SubSeq(x, 1, n) /\ Len(v) = n
      /\ \A i \in 1..Len(v) : v[i] = x[i]
  BY <1>2 DEF v
<1> QED
  BY <1>3, <1>4

\* A place in L has an entry.
LEMMA PlaceEntry ==
  ASSUME NEW L \in Log, NEW la \in Applied, Place(L, la), la.idx # 0
  PROVE  /\ la.idx \in 1..Len(L) /\ la.idx - 1 \in Nat
         /\ (la.idx - 1) + 1 = la.idx
         /\ la.idx - 1 < Len(L)
         /\ L[la.idx].ops \in Ops
<1>1. Len(L) \in Nat /\ la.idx \in Nat
  BY AppliedType DEF Log
<1>2. la.idx \in 1..Len(L)
  BY <1>1 DEF Place
<1> QED
  BY <1>1, <1>2, LogEntry

\* It is between the entry before and the end of its entry.
LEMMA UptoBetween ==
  ASSUME NEW L \in Log, NEW la \in Applied, Place(L, la)
  PROVE  /\ Upto(L, la) \in Ops
         /\ Begins(Flat(L, la.idx - 1), Upto(L, la))
         /\ Begins(Upto(L, la), Flat(L, la.idx))
         /\ la.sub = la.max => Upto(L, la) = Flat(L, la.idx)
<1>0. /\ la.idx \in Nat /\ la.sub \in Nat /\ la.max \in Nat
      /\ la.idx <= Len(L)
  BY AppliedType DEF Place
<1>1. CASE la.idx = 0
  <2>1. Upto(L, la) = <<>> /\ Flat(L, la.idx) = <<>> /\ Flat(L, la.idx - 1) = <<>>
    BY <1>0, <1>1, UptoZero, FlatZero
  <2> QED
    BY <2>1 DEF Ops, Begins
<1>2. CASE la.idx # 0
  <2>1. /\ la.idx \in 1..Len(L) /\ la.idx - 1 \in Nat
        /\ (la.idx - 1) + 1 = la.idx
        /\ la.idx - 1 < Len(L) /\ la.idx - 1 <= Len(L)
    BY <1>0, <1>2, PlaceEntry
  <2>2. PICK ops \in Ops : ops = L[la.idx].ops
    BY <1>2, PlaceEntry
  <2>3. PICK x \in Ops : x = Flat(L, la.idx - 1)
    BY <2>1, FlatType
  <2>4. PICK z \in Ops : z = Flat(L, la.idx)
    BY <1>0, FlatType
  <2>5. z = x \o ops
    BY <2>1, <2>2, <2>3, <2>4, LogNext
  <2>6. PICK u : u = Upto(L, la)
    OBVIOUS
  <2>7. Len(ops) \in Nat /\ Len(x) \in Nat
    BY DEF Ops
  <2>8. la.max = (IF ops = <<>> THEN 0 ELSE Len(ops) - 1) /\ la.sub <= la.max
    BY <1>2, <2>2 DEF Place, LastSub
  <2>9. CASE Len(ops) > la.sub
    <3>1. u = x \o SubSeq(ops, 1, la.sub + 1)
      BY <1>2, <2>2, <2>3, <2>6, <2>9, UptoIs
    <3>2. la.sub + 1 \in Nat /\ la.sub + 1 <= Len(ops)
      BY <1>0, <2>7, <2>9
    <3>3. PICK v \in Ops : /\ v = SubSeq(ops, 1, la.sub + 1)
                           /\ Len(v) = la.sub + 1
                           /\ \A i \in 1..Len(v) : v[i] = ops[i]
      BY <3>2, BeginningOps
    <3>a. x \o v \in Ops
      BY DEF Ops
    <3>4. u \in Ops /\ Begins(x, u)
      BY <3>1, <3>3, <3>a, BeginsConcat DEF Ops
    <3>5. Begins(u, z)
      <4>1. /\ Len(u) = Len(x) + Len(v) /\ Len(z) = Len(x) + Len(ops)
        BY <2>5, <3>1, <3>3 DEF Ops
      <4>2. ASSUME NEW i \in 1..Len(u) PROVE u[i] = z[i]
        <5>1. u[i] = IF i <= Len(x) THEN x[i] ELSE v[i - Len(x)]
          BY <3>1, <3>3, <4>1 DEF Ops
        <5>2. i \in 1..Len(z)
          BY <2>7, <3>2, <3>3, <4>1
        <5>3. z[i] = IF i <= Len(x) THEN x[i] ELSE ops[i - Len(x)]
          BY <2>5, <4>1, <5>2 DEF Ops
        <5>4. ~(i <= Len(x)) => i - Len(x) \in 1..Len(v)
          <6>1. Len(v) \in Nat /\ i \in 1..(Len(x) + Len(v))
            BY <3>2, <3>3, <4>1
          <6> QED
            BY <2>7, <6>1
        <5> QED
          BY <3>3, <5>1, <5>3, <5>4
      <4> QED
        BY <2>7, <3>2, <3>3, <4>1, <4>2 DEF Begins
    <3>6. la.sub = la.max => u = z
      <4> SUFFICES ASSUME la.sub = la.max PROVE u = z
        OBVIOUS
      <4>1. ops # <<>>
        BY <2>9, <1>0
      <4>2. la.sub + 1 = Len(ops)
        BY <2>7, <2>8, <4>1
      <4>3. SubSeq(ops, 1, Len(ops)) = ops
        BY DEF Ops
      <4> QED
        BY <2>5, <3>1, <4>2, <4>3
    <3> QED
      BY <2>3, <2>4, <2>6, <3>4, <3>5, <3>6
  <2>10. CASE ~(Len(ops) > la.sub)
    <3>1. u = x \o ops
      BY <1>2, <2>2, <2>3, <2>6, <2>10, UptoIs
    <3>2. Begins(x, u) /\ u \in Ops
      BY <3>1, BeginsConcat DEF Ops
    <3>3. Begins(z, z)
      BY DEF Ops, Begins
    <3> QED
      BY <2>3, <2>4, <2>5, <2>6, <3>1, <3>2, <3>3
  <2> QED
    BY <2>9, <2>10
<1> QED
  BY <1>1, <1>2

\* The log may grow.
LEMMA PlaceKept ==
  ASSUME NEW L \in Log, NEW M \in Log, NEW la \in Applied, Place(L, la),
         Agree(L, M, la.idx)
  PROVE  Place(M, la) /\ Upto(M, la) = Upto(L, la)
<1>0. la.idx \in Nat
  BY AppliedType
<1>1. \A i \in 1..la.idx : L[i] = M[i]
  BY DEF Agree
<1>2. la.idx # 0 => L[la.idx] = M[la.idx]
  BY <1>0, <1>1
<1>3. Flat(L, la.idx - 1) = Flat(M, la.idx - 1)
  <2>1. \A i \in 1..(la.idx - 1) : L[i] = M[i]
    BY <1>0, <1>1
  <2> QED
    BY <1>0, <2>1, FlatSame
<1>4. Place(M, la)
  BY <1>2 DEF Place, Agree
<1>5. Upto(M, la) = Upto(L, la)
  BY <1>2, <1>3, Zenon DEF Upto
<1> QED
  BY <1>4, <1>5

\* One more element of the second sequence
LEMMA ConcatSub ==
  ASSUME NEW x \in Ops, NEW ops \in Ops, NEW k \in Nat, k + 1 <= Len(ops)
  PROVE  x \o SubSeq(ops, 1, k + 1) = Append(x \o SubSeq(ops, 1, k), ops[k + 1])
<1>0. Len(ops) \in Nat /\ k <= Len(ops)
  BY DEF Ops
<1>1. PICK v \in Ops : /\ v = SubSeq(ops, 1, k) /\ Len(v) = k
                       /\ \A i \in 1..Len(v) : v[i] = ops[i]
  BY <1>0, BeginningOps
<1>2. SubSeq(ops, 1, k + 1) = Append(v, ops[k + 1])
  BY <1>0, <1>1 DEF Ops
<1>3. ops[k + 1] \in Op
  BY <1>0 DEF Ops
<1>4. x \o Append(v, ops[k + 1]) = Append(x \o v, ops[k + 1])
  BY <1>3 DEF Ops
<1> QED
  BY <1>1, <1>2, <1>4

\* m is the place after la, a sub-entry with a write.
LEMMA UptoNext ==
  ASSUME NEW L \in Log, NEW la \in Applied, Place(L, la),
         NEW m \in Applied, Place(L, m), m.idx # 0,
         L[m.idx].ops # <<>>,
         \/ la.sub = la.max /\ m.idx = la.idx + 1 /\ m.sub = 0
         \/ la.sub # la.max /\ m.idx = la.idx /\ m.sub = la.sub + 1
  PROVE  /\ Upto(L, m) = Append(Upto(L, la), L[m.idx].ops[m.sub + 1])
         /\ m.sub + 1 \in 1..Len(L[m.idx].ops)
<1>0. /\ la.idx \in Nat /\ la.sub \in Nat /\ la.max \in Nat
      /\ m.idx \in Nat /\ m.sub \in Nat /\ m.max \in Nat
  BY AppliedType
<1>1. PICK ops \in Ops : ops = L[m.idx].ops
  BY PlaceEntry
<1>2. ops # <<>> /\ Len(ops) \in Nat /\ Len(ops) # 0
  BY <1>1 DEF Ops
<1>3. m.max = Len(ops) - 1 /\ m.sub <= m.max
  BY <1>1, <1>2 DEF Place, LastSub
<1>4. Len(ops) > m.sub /\ m.sub + 1 \in 1..Len(ops)
  BY <1>0, <1>2, <1>3
<1>5. m.idx - 1 \in Nat /\ m.idx - 1 <= Len(L)
  BY <1>0, PlaceEntry DEF Place
<1>6. PICK x \in Ops : x = Flat(L, m.idx - 1)
  BY <1>5, FlatType
<1>7. Upto(L, m) = x \o SubSeq(ops, 1, m.sub + 1)
  BY <1>1, <1>4, <1>6, UptoIs
<1>8. CASE la.sub = la.max
  <2>1. m.idx - 1 = la.idx /\ m.sub = 0
    BY <1>0, <1>8
  <2>2. Upto(L, la) = x
    BY <1>6, <1>8, <2>1, UptoBetween
  <2>3. 0 \in Nat /\ 0 + 1 <= Len(ops) /\ 0 + 1 = 1
    BY <1>2
  <2>4. x \o SubSeq(ops, 1, 1) = Append(x \o SubSeq(ops, 1, 0), ops[1])
    BY <2>3, ConcatSub
  <2>6. x \o SubSeq(ops, 1, 0) = x
    <3>1. SubSeq(ops, 1, 0) = <<>>
      BY DEF Ops
    <3> QED
      BY <3>1 DEF Ops
  <2>5. m.sub + 1 = 1
    BY <2>1
  <2> QED
    BY <1>1, <1>4, <1>7, <2>2, <2>4, <2>5, <2>6
<1>9. CASE la.sub # la.max
  <2>1. m.idx = la.idx /\ m.sub = la.sub + 1
    BY <1>9
  <2>2. Len(ops) > la.sub /\ la.sub + 1 <= Len(ops)
    BY <1>0, <1>4, <2>1
  <2>3. Upto(L, la) = x \o SubSeq(ops, 1, la.sub + 1)
    <3>1. la.idx # 0 /\ L[la.idx].ops = ops
      BY <1>1, <2>1
    <3>2. Flat(L, la.idx - 1) = x
      BY <1>6, <2>1
    <3> QED
      BY <2>2, <3>1, <3>2, UptoIs
  <2>4. PICK k \in Nat : k = la.sub + 1
    BY <1>0
  <2>5. k + 1 <= Len(ops)
    BY <1>4, <2>1, <2>4
  <2>6. x \o SubSeq(ops, 1, k + 1) = Append(x \o SubSeq(ops, 1, k), ops[k + 1])
    BY <2>5, ConcatSub
  <2> QED
    BY <1>1, <1>4, <1>7, <2>1, <2>3, <2>4, <2>6
<1> QED
  BY <1>8, <1>9

\* A marker has no writes.
LEMMA UptoMarker ==
  ASSUME NEW L \in Log, NEW la \in Applied, Place(L, la), la.sub = la.max,
         NEW m \in Applied, Place(L, m), m.idx = la.idx + 1,
         L[m.idx].ops = <<>>
  PROVE  Upto(L, m) = Upto(L, la) /\ m.sub = m.max
<1>0. /\ la.idx \in Nat /\ m.idx \in Nat /\ m.sub \in Nat /\ m.max \in Nat
      /\ m.idx # 0 /\ m.idx - 1 = la.idx
  BY AppliedType
<1>1. m.max = 0 /\ m.sub <= m.max
  BY <1>0 DEF Place, LastSub
<1>2. m.sub = m.max
  BY <1>0, <1>1
<1>3. Upto(L, m) = Flat(L, m.idx) /\ Upto(L, la) = Flat(L, la.idx)
  BY <1>2, UptoBetween
<1>4. la.idx < Len(L) /\ la.idx <= Len(L)
  BY <1>0, PlaceEntry
<1>5. Flat(L, m.idx) = Flat(L, la.idx) \o <<>>
  BY <1>0, <1>4, LogNext
<1>6. Flat(L, la.idx) \in Ops
  BY <1>0, <1>4, FlatType
<1>7. Flat(L, la.idx) \o <<>> = Flat(L, la.idx)
  BY <1>6 DEF Ops
<1> QED
  BY <1>2, <1>3, <1>5, <1>7

(***************************************************************************)
(* The numbers of a client's writes.                                       *)
(***************************************************************************)

\* Only the first k positions matter.
LEMMA CountSame ==
  ASSUME NEW y, NEW z, NEW k \in Int, NEW c, \A i \in 1..k : y[i] = z[i]
  PROVE  CountOf(y, k, c) = CountOf(z, k, c)
<1>1. {i \in 1..k : y[i].c = c} = {i \in 1..k : z[i].c = c}
  OBVIOUS
<1> QED
  BY <1>1 DEF CountOf

\* The count is a number.
LEMMA CountFinite ==
  ASSUME NEW z, NEW k \in Nat, NEW c
  PROVE  IsFiniteSet({i \in 1..k : z[i].c = c}) /\ CountOf(z, k, c) \in Nat
<1>1. IsFiniteSet(1..k)
  BY FS_Interval
<1>2. {i \in 1..k : z[i].c = c} \subseteq 1..k
  OBVIOUS
<1>3. IsFiniteSet({i \in 1..k : z[i].c = c})
  BY <1>1, <1>2, FS_Subset
<1> QED
  BY <1>3, FS_CardinalityType DEF CountOf

\* One more position
LEMMA CountNext ==
  ASSUME NEW z, NEW k \in Nat, NEW c
  PROVE  /\ z[k + 1].c = c => CountOf(z, k + 1, c) = CountOf(z, k, c) + 1
         /\ z[k + 1].c # c => CountOf(z, k + 1, c) = CountOf(z, k, c)
<1> DEFINE A == {i \in 1..k : z[i].c = c}
           B == {i \in 1..(k + 1) : z[i].c = c}
<1>0. IsFiniteSet(A) /\ Cardinality(A) = CountOf(z, k, c)
      /\ Cardinality(B) = CountOf(z, k + 1, c)
  BY CountFinite DEF CountOf
<1>1. ASSUME z[k + 1].c = c PROVE Cardinality(B) = Cardinality(A) + 1
  <2>1. B = A \cup {k + 1} /\ k + 1 \notin A
    BY <1>1
  <2> HIDE DEF A, B
  <2> QED
    BY <1>0, <2>1, FS_AddElement
<1>2. ASSUME z[k + 1].c # c PROVE Cardinality(B) = Cardinality(A)
  <2>1. B = A
    BY <1>2
  <2> QED
    BY <2>1
<1> QED
  BY <1>0, <1>1, <1>2

\* Positions without a write of c do not count.
LEMMA CountSkip ==
  ASSUME NEW z, NEW j \in Nat, NEW k \in Nat, NEW c, j <= k,
         \A i \in (j + 1)..k : z[i].c # c
  PROVE  CountOf(z, j, c) = CountOf(z, k, c)
<1>1. {i \in 1..j : z[i].c = c} = {i \in 1..k : z[i].c = c}
  OBVIOUS
<1> QED
  BY <1>1 DEF CountOf

\* More positions do not count less.
LEMMA CountMono ==
  ASSUME NEW z, NEW j \in Nat, NEW k \in Nat, NEW c, j <= k
  PROVE  CountOf(z, j, c) <= CountOf(z, k, c)
<1> DEFINE A == {i \in 1..j : z[i].c = c}
           B == {i \in 1..k : z[i].c = c}
<1>1. A \subseteq B
  OBVIOUS
<1>2. IsFiniteSet(B)
  BY CountFinite
<1>3. Cardinality(A) = CountOf(z, j, c) /\ Cardinality(B) = CountOf(z, k, c)
  BY DEF CountOf
<1> HIDE DEF A, B
<1> QED
  BY <1>1, <1>2, <1>3, FS_Subset

\* No two writes of a client have the same number.
LEMMA InOrderDistinct ==
  ASSUME NEW z \in Ops, InOrder(z), NEW j \in 1..Len(z), NEW k \in 1..Len(z),
         j < k, z[j].c = z[k].c
  PROVE  z[j].n # z[k].n
<1>1. Len(z) \in Nat
  BY DEF Ops
<1>2. j \in Nat /\ k \in Nat /\ k - 1 \in Nat /\ j <= k - 1 /\ (k - 1) + 1 = k
  BY <1>1
<1>3. PICK c : c = z[k].c
  OBVIOUS
<1>4. CountOf(z, j, c) <= CountOf(z, k - 1, c)
  BY <1>2, CountMono
<1>5. CountOf(z, k, c) = CountOf(z, k - 1, c) + 1
  BY <1>2, <1>3, CountNext
<1>6. CountOf(z, j, c) \in Nat /\ CountOf(z, k - 1, c) \in Nat
  BY <1>2, CountFinite
<1>7. z[j].n = CountOf(z, j, c) /\ z[k].n = CountOf(z, k, c)
  BY <1>3 DEF InOrder
<1> QED
  BY <1>4, <1>5, <1>6, <1>7

\* A beginning of writes in order is in order.
LEMMA InOrderBegins ==
  ASSUME NEW x \in Ops, NEW y \in Ops, Begins(x, y), InOrder(y)
  PROVE  InOrder(x)
<1>1. Len(x) \in Nat /\ Len(y) \in Nat /\ Len(x) <= Len(y)
  BY DEF Ops, Begins
<1> SUFFICES ASSUME NEW k \in 1..Len(x)
             PROVE  x[k].n = CountOf(x, k, x[k].c)
  BY DEF InOrder
<1>2. k \in 1..Len(y) /\ k \in Int
  BY <1>1
<1>3. \A i \in 1..k : x[i] = y[i]
  BY <1>1 DEF Begins
<1>4. x[k] = y[k]
  BY DEF Begins
<1>5. PICK c : c = x[k].c
  OBVIOUS
<1>6. CountOf(x, k, c) = CountOf(y, k, c)
  BY <1>2, <1>3, CountSame
<1>7. y[k].n = CountOf(y, k, y[k].c)
  BY <1>2 DEF InOrder
<1> QED
  BY <1>4, <1>5, <1>6, <1>7

\* The client's next write comes at the end.
LEMMA InOrderAppend ==
  ASSUME NEW z \in Ops, InOrder(z), NEW op \in Op,
         op.n = CountOf(z, Len(z), op.c) + 1
  PROVE  InOrder(Append(z, op))
<1>1. PICK m \in Nat : m = Len(z)
  BY DEF Ops
<1>2. PICK y : y = Append(z, op)
  OBVIOUS
<1>3. /\ Len(y) = m + 1 /\ y[m + 1] = op
      /\ \A i \in 1..m : y[i] = z[i]
  BY <1>1, <1>2 DEF Ops
<1>4. ASSUME NEW k \in 1..Len(y) PROVE y[k].n = CountOf(y, k, y[k].c)
  <2>1. CASE k = m + 1
    <3>1. y[k] = op
      BY <1>3, <2>1
    <3>2. CountOf(y, m + 1, op.c) = CountOf(y, m, op.c) + 1
      BY <1>3, CountNext
    <3>3. CountOf(y, m, op.c) = CountOf(z, m, op.c)
      BY <1>3, CountSame
    <3> QED
      BY <1>1, <2>1, <3>1, <3>2, <3>3
  <2>2. CASE k # m + 1
    <3>1. k \in 1..m /\ k \in Int
      BY <1>3, <2>2
    <3>2. y[k] = z[k] /\ \A i \in 1..k : y[i] = z[i]
      BY <1>3, <3>1
    <3>3. PICK c : c = z[k].c
      OBVIOUS
    <3>4. CountOf(y, k, c) = CountOf(z, k, c)
      BY <3>1, <3>2, CountSame
    <3>5. z[k].n = CountOf(z, k, z[k].c)
      BY <1>1, <3>1 DEF InOrder
    <3> QED
      BY <3>2, <3>3, <3>4, <3>5
  <2> QED
    BY <2>1, <2>2
<1> QED
  BY <1>2, <1>4 DEF InOrder

\* The application's number of a client is the count of its writes.
LEMMA AppSeqIs ==
  ASSUME NEW st, st.app \in Ops, NEW c
  PROVE  /\ AppSeq(st, c) = CountOf(st.app, Len(st.app), c)
         /\ AppSeq(st, c) \in Nat
<1>1. DOMAIN st.app = 1..Len(st.app) /\ Len(st.app) \in Nat
  BY DEF Ops
<1>2. AppSeq(st, c) = CountOf(st.app, Len(st.app), c)
  BY <1>1 DEF AppSeq, CountOf
<1> QED
  BY <1>1, <1>2, CountFinite

\* The number after one more write
LEMMA AppSeqAppend ==
  ASSUME NEW st, st.app \in Ops, NEW op \in Op, NEW st2,
         st2.app = Append(st.app, op)
  PROVE  /\ AppSeq(st2, op.c) = AppSeq(st, op.c) + 1
         /\ \A c : c # op.c => AppSeq(st2, c) = AppSeq(st, c)
<1>1. PICK m \in Nat : m = Len(st.app)
  BY DEF Ops
<1>2. PICK z : z = st.app
  OBVIOUS
<1>3. PICK y : y = Append(z, op)
  OBVIOUS
<1>4. /\ Len(y) = m + 1 /\ y[m + 1] = op /\ y \in Ops
      /\ \A i \in 1..m : y[i] = z[i]
  BY <1>1, <1>2, <1>3 DEF Ops
<1>5. ASSUME NEW c PROVE /\ AppSeq(st, c) = CountOf(y, m, c)
                         /\ AppSeq(st2, c) = CountOf(y, m + 1, c)
  <2>1. AppSeq(st, c) = CountOf(z, m, c)
    BY <1>1, <1>2, AppSeqIs
  <2>2. CountOf(z, m, c) = CountOf(y, m, c)
    BY <1>4, CountSame
  <2>3. st2.app = y /\ st2.app \in Ops
    BY <1>2, <1>3, <1>4
  <2>4. AppSeq(st2, c) = CountOf(y, Len(y), c)
    BY <2>3, AppSeqIs
  <2> QED
    BY <1>4, <2>1, <2>2, <2>4
<1>6. CountOf(y, m + 1, op.c) = CountOf(y, m, op.c) + 1
  BY <1>4, CountNext
<1>7. ASSUME NEW c, c # op.c PROVE CountOf(y, m + 1, c) = CountOf(y, m, c)
  BY <1>4, <1>7, CountNext
<1> QED
  BY <1>5, <1>6, <1>7

(***************************************************************************)
(* Types.                                                                  *)
(***************************************************************************)

\* The fields of the records: a server
LEMMA ServerFields ==
  ASSUME NEW r \in Server
  PROVE  /\ r.role \in {"follower", "candidate", "prevote", "leader"}
         /\ r.term \in Nat
         /\ r.log \in Log /\ r.initial \in Nat /\ r.commit \in Nat
         /\ Len(r.log) \in Nat
<1>1. r.log \in Log
  BY DEF Server
<1>2. Len(r.log) \in Nat
  BY <1>1 DEF Log
<1> QED
  BY <1>1, <1>2 DEF Server

\* the state of the application,
LEMMA StateFields ==
  ASSUME NEW st \in State
  PROVE  /\ st.la \in Applied /\ st.app \in Ops /\ Len(st.app) \in Nat
         /\ st.la.idx \in Nat /\ st.la.sub \in Nat /\ st.la.max \in Nat
<1>1. st.la \in Applied /\ st.app \in Ops
  BY DEF State
<1>2. Len(st.app) \in Nat
  BY <1>1 DEF Ops
<1> QED
  BY <1>1, <1>2, AppliedType

\* the coalesced write,
LEMMA BufferFields ==
  ASSUME NEW b \in Buffer
  PROVE  /\ b.items \in Seq(Item) /\ b.ws \in Ops /\ Len(b.items) \in Nat
         /\ \A i \in 1..Len(b.items) : /\ b.items[i] \in Item
                                       /\ b.items[i].op \in Op
                                       /\ b.items[i].term \in Nat
<1>1. b.items \in Seq(Item) /\ b.ws \in Ops
  BY DEF Buffer
<1>2. Len(b.items) \in Nat
  BY <1>1
<1>3. \A i \in 1..Len(b.items) : b.items[i] \in Item
  BY <1>1
<1> QED
  BY <1>1, <1>2, <1>3 DEF Item

\* a worker,
LEMMA RequestFields ==
  ASSUME NEW q \in Request \cup {Idle}
  PROVE  /\ q.pc \in {"idle", "check", "lock", "write"}
         /\ q.pc = "idle" <=> q = Idle
         /\ q # Idle => q \in Request /\ q.op \in Op /\ q.term \in Nat
<1>1. Idle.pc = "idle"
  BY DEF Idle
<1> QED
  BY <1>1 DEF Request

\* a write,
LEMMA OpFields ==
  ASSUME NEW op \in Op
  PROVE  op.c \in Clients /\ op.n \in Nat /\ op.n # 0 /\ op.n >= 1
BY RequestBounds DEF Op

\* and a pending mark.
LEMMA MarkFields ==
  ASSUME NEW m \in Mark
  PROVE  m.seq \in Nat /\ m.term \in Nat
BY DEF Mark

\* A record of the apply is not the one of an idle thread.
LEMMA AppliedNotIdle ==
  ASSUME NEW la \in Applied
  PROVE  la # Idle
<1>1. "idx" \in DOMAIN la
  BY DEF Applied
<1>2. DOMAIN Idle = {"pc"}
  BY DEF Idle
<1> QED
  BY <1>1, <1>2

\* What each server has
LEMMA Typed ==
  ASSUME TypeOK, NEW s \in Servers
  PROVE  /\ raft[s] \in Server /\ co[s] \in Buffer
         /\ sm[s] \in State /\ disk[s] \in State
         /\ pend[s] \in [Clients -> Mark]
         /\ wk[s] \in [Workers -> Request \cup {Idle}]
         /\ nai[s] \in Applied \cup {Idle}
         /\ top \in Nat /\ clog \in Log /\ Len(clog) \in Nat
<1>1. raft[s] \in Server /\ co[s] \in Buffer
  BY DEF TypeOK
<1>2. sm[s] \in State /\ disk[s] \in State
  BY DEF TypeOK
<1>3. pend[s] \in [Clients -> Mark]
  BY DEF TypeOK
<1>4. wk[s] \in [Workers -> Request \cup {Idle}] /\ nai[s] \in Applied \cup {Idle}
  BY DEF TypeOK
<1>5. top \in Nat /\ clog \in Log
  BY DEF TypeOK
<1>6. Len(clog) \in Nat
  BY <1>5 DEF Log
<1> QED
  BY <1>1, <1>2, <1>3, <1>4, <1>5, <1>6

\* The entries that are appended
LEMMA AppendLog ==
  ASSUME NEW L \in Log, NEW e \in Entry
  PROVE  /\ Append(L, e) \in Log /\ Len(Append(L, e)) = Len(L) + 1
         /\ Append(L, e)[Len(L) + 1] = e
         /\ Begins(L, Append(L, e))
         /\ \A i \in 1..Len(L) : Append(L, e)[i] = L[i]
<1>1. L \in Seq(Entry) /\ Len(L) \in Nat
  BY DEF Log
<1>2. /\ Append(L, e) \in Seq(Entry) /\ Len(Append(L, e)) = Len(L) + 1
      /\ Append(L, e)[Len(L) + 1] = e
      /\ \A i \in 1..Len(L) : Append(L, e)[i] = L[i]
  BY <1>1
<1> QED
  BY <1>1, <1>2 DEF Log, Begins

\* The writes of a log with one more entry
LEMMA AllAppend ==
  ASSUME NEW L \in Log, NEW e \in Entry
  PROVE  /\ All(Append(L, e)) = All(L) \o e.ops
         /\ All(L) \in Ops /\ All(Append(L, e)) \in Ops
<1>0. Len(L) \in Nat /\ e.ops \in Ops
  BY DEF Log, Entry
<1>1. PICK M \in Log : M = Append(L, e)
  BY AppendLog
<1>2. Len(M) = Len(L) + 1 /\ M[Len(L) + 1] = e /\ \A i \in 1..Len(L) : M[i] = L[i]
  BY <1>1, AppendLog
<1>a. Len(L) < Len(M)
  BY <1>0, <1>2
<1>3. Flat(M, Len(L) + 1) = Flat(M, Len(L)) \o e.ops
  BY <1>0, <1>2, <1>a, LogNext
<1>4. Flat(M, Len(L)) = Flat(L, Len(L))
  BY <1>0, <1>2, FlatSame
<1>5. All(M) \in Ops /\ All(L) \in Ops
  BY <1>0, <1>2, FlatType DEF All
<1> QED
  BY <1>1, <1>2, <1>3, <1>4, <1>5 DEF All

\* Nothing is added.
LEMMA ConcatEmpty ==
  ASSUME NEW x \in Ops
  PROVE  x \o <<>> = x
BY DEF Ops

\* Logs that grow keep what they agree on.
LEMMA AgreeGrow ==
  ASSUME NEW L \in Log, NEW M \in Log, NEW L2 \in Log, NEW M2 \in Log,
         NEW n \in Nat, Agree(L, M, n), Begins(L, L2), Begins(M, M2)
  PROVE  Agree(L2, M2, n)
<1>1. Len(L) \in Nat /\ Len(M) \in Nat /\ Len(L2) \in Nat /\ Len(M2) \in Nat
  BY DEF Log
<1>2. n <= Len(L) /\ n <= Len(M) /\ n <= Len(L2) /\ n <= Len(M2)
  BY <1>1 DEF Agree, Begins
<1>3. ASSUME NEW i \in 1..n PROVE L2[i] = M2[i]
  <2>1. i \in 1..Len(L) /\ i \in 1..Len(M)
    BY <1>1, <1>2
  <2>2. L2[i] = L[i] /\ M2[i] = M[i]
    BY <2>1 DEF Begins
  <2> QED
    BY <2>2 DEF Agree
<1> QED
  BY <1>2, <1>3 DEF Agree

\* A log begins itself.
LEMMA BeginsSelf ==
  ASSUME NEW L \in Log
  PROVE  Begins(L, L)
BY DEF Log, Begins

\* Logs that agree on n entries agree on fewer.
LEMMA AgreeFewer ==
  ASSUME NEW L, NEW M, NEW n \in Nat, NEW m \in Nat, m <= n, Agree(L, M, n),
         Len(L) \in Nat, Len(M) \in Nat
  PROVE  Agree(L, M, m)
<1>1. m <= Len(L) /\ m <= Len(M) /\ \A i \in 1..m : i \in 1..n
  BY DEF Agree
<1> QED
  BY <1>1 DEF Agree

\* The writes of the entries that logs agree on
LEMMA AgreeFlat ==
  ASSUME NEW L, NEW M, NEW n \in Int, Agree(L, M, n)
  PROVE  Flat(L, n) = Flat(M, n)
BY FlatSame DEF Agree

\* The elements of a beginning
LEMMA BeginsSet ==
  ASSUME NEW S, NEW x \in Seq(S), NEW y \in Seq(S), Begins(x, y)
  PROVE  ToSet(x) \subseteq ToSet(y)
<1>1. DOMAIN x = 1..Len(x) /\ DOMAIN y = 1..Len(y)
  OBVIOUS
<1>2. Len(x) \in Nat /\ Len(y) \in Nat /\ Len(x) <= Len(y)
  BY DEF Begins
<1> SUFFICES ASSUME NEW i \in 1..Len(x) PROVE x[i] \in ToSet(y)
  BY <1>1 DEF ToSet
<1>3. i \in 1..Len(y) /\ x[i] = y[i]
  BY <1>2 DEF Begins
<1> QED
  BY <1>1, <1>3 DEF ToSet

\* The committed writes stay committed.
LEMMA CorrectGrow ==
  ASSUME NEW L \in Log, NEW M \in Log, NEW st \in State, NEW known,
         Correct(L, st, known), Begins(L, M)
  PROVE  Correct(M, st, known)
<1>0. /\ st.la \in Applied /\ st.la.idx \in Nat /\ st.la.sub \in Nat
      /\ st.la.max \in Nat /\ Len(L) \in Nat
  BY StateFields DEF Log
<1>1. Place(L, st.la) /\ st.la.idx <= Len(L)
  BY DEF Correct, Place
<1>2. Agree(L, M, st.la.idx)
  BY <1>0, <1>1 DEF Begins, Agree, Log
<1>3. Place(M, st.la) /\ Upto(M, st.la) = Upto(L, st.la)
  BY <1>0, <1>1, <1>2, PlaceKept
<1>4. WholeIdx(st.la) \in Int /\ WholeIdx(st.la) <= st.la.idx
  BY <1>0 DEF WholeIdx
<1>5. Flat(L, WholeIdx(st.la)) = Flat(M, WholeIdx(st.la))
  <2>1. \A i \in 1..WholeIdx(st.la) : L[i] = M[i]
    BY <1>0, <1>2, <1>4 DEF Agree
  <2> QED
    BY <1>4, <2>1, FlatSame
<1> QED
  BY <1>3, <1>5, Zenon DEF Correct

(***************************************************************************)
(* Elections and commit.                                                   *)
(***************************************************************************)

\* A log that begins with the committed entries agrees with them.
LEMMA PrefixAgrees ==
  ASSUME NEW L \in Log, NEW M \in Log, IsPrefix(L, M)
  PROVE  Begins(L, M) /\ Agree(M, L, Len(L)) /\ Len(L) <= Len(M)
<1>1. Len(L) \in Nat /\ Len(M) \in Nat /\ L \in Seq(Entry) /\ M \in Seq(Entry)
  BY DEF Log
<1>2. Len(L) <= Len(M) /\ SubSeq(L, 1, Len(L)) = SubSeq(M, 1, Len(L))
  BY DEF IsPrefix
<1>3. \A i \in 1..Len(L) : SubSeq(L, 1, Len(L))[i] = L[i]
  BY <1>1, SubSeqBegins
<1>4. \A i \in 1..Len(L) : SubSeq(M, 1, Len(L))[i] = M[i]
  BY <1>1, <1>2, SubSeqBegins
<1>5. \A i \in 1..Len(L) : L[i] = M[i]
  BY <1>2, <1>3, <1>4
<1> QED
  BY <1>1, <1>2, <1>5 DEF Begins, Agree

\* The writes of the committed entries are in a log that has them.
LEMMA CommittedWrites ==
  ASSUME NEW L \in Log, NEW M \in Log, NEW n \in Nat, Agree(M, L, Len(L)),
         Len(L) <= n, n <= Len(M)
  PROVE  ToSet(All(L)) \subseteq ToSet(Flat(M, n))
<1>0. Len(L) \in Nat
  BY DEF Log
<1>1. All(L) = Flat(M, Len(L))
  BY <1>0, AgreeFlat DEF All
<1>2. Begins(Flat(M, Len(L)), Flat(M, n))
  BY <1>0, FlatBegins
<1>3. Flat(M, n) \in Ops /\ Flat(M, Len(L)) \in Ops
  <2>1. Len(L) <= Len(M)
    BY DEF Agree
  <2> QED
    BY <1>0, <2>1, FlatType
<1> QED
  BY <1>1, <1>2, <1>3, BeginsSet DEF Ops

\* Terms only grow.
LEMMA TermsPastGrow ==
  ASSUME NEW T \in Nat, NEW U \in Nat, T <= U, NEW b \in Buffer,
         NEW p \in [Clients -> Mark],
         NEW ws \in [Workers -> Request \cup {Idle}], TermsPast(T, b, p, ws)
  PROVE  TermsPast(U, b, p, ws)
<1>1. ASSUME NEW w \in Workers, ws[w] # Idle PROVE ws[w].term <= U
  <2>1. ws[w] \in Request \cup {Idle}
    OBVIOUS
  <2>2. ws[w].term \in Nat
    BY <1>1, <2>1, RequestFields
  <2>3. ws[w].term <= T
    BY <1>1 DEF TermsPast
  <2> QED
    BY <2>2, <2>3
<1>2. ASSUME NEW i \in 1..Len(b.items) PROVE b.items[i].term <= U
  <2>1. b.items[i].term \in Nat /\ b.items[i].term <= T
    BY BufferFields DEF TermsPast
  <2> QED
    BY <2>1
<1>3. ASSUME NEW c \in Clients PROVE p[c].term <= U
  <2>1. p[c].term \in Nat /\ p[c].term <= T
    BY MarkFields DEF TermsPast
  <2> QED
    BY <2>1
<1> QED
  BY <1>1, <1>2, <1>3 DEF TermsPast

\* Nothing is of a term that the server comes to.
LEMMA TermsOlder ==
  ASSUME NEW T \in Nat, NEW U \in Nat, T < U, TypeOK, NEW s \in Servers,
         TermsPast(T, co[s], pend[s], wk[s])
  PROVE  /\ \A w \in Workers : Checked(wk[s][w]) => wk[s][w].term # U
         /\ \A i \in 1..Len(co[s].items) : co[s].items[i].term # U
         /\ \A c \in Clients : pend[s][c].term # U
<1>0. /\ co[s] \in Buffer /\ pend[s] \in [Clients -> Mark]
      /\ wk[s] \in [Workers -> Request \cup {Idle}]
  BY Typed
<1>1. ASSUME NEW w \in Workers, Checked(wk[s][w]) PROVE wk[s][w].term # U
  <2>1. wk[s][w] \in Request \cup {Idle} /\ wk[s][w] # Idle
    BY <1>0, <1>1 DEF Checked, Idle
  <2>2. wk[s][w].term \in Nat
    BY <1>1, <2>1, RequestFields
  <2>3. wk[s][w].term <= T
    BY <2>1 DEF TermsPast
  <2> QED
    BY <2>2, <2>3
<1>2. ASSUME NEW i \in 1..Len(co[s].items) PROVE co[s].items[i].term # U
  <2>1. co[s].items[i].term \in Nat /\ co[s].items[i].term <= T
    BY <1>0, BufferFields DEF TermsPast
  <2> QED
    BY <2>1
<1>3. ASSUME NEW c \in Clients PROVE pend[s][c].term # U
  <2>1. pend[s][c].term \in Nat /\ pend[s][c].term <= T
    BY <1>0, MarkFields DEF TermsPast
  <2> QED
    BY <2>1
<1> QED
  BY <1>1, <1>2, <1>3

\* What a step of the main thread may do to the server that takes it
LEMMA TypeRaft ==
  ASSUME TypeOK, NEW s \in Servers, NEW r \in Server,
         raft' = [raft EXCEPT ![s] = r]
  PROVE  /\ raft' \in [Servers -> Server]
         /\ raft'[s] = r
         /\ \A x \in Servers : x # s => raft'[x] = raft[x]
BY DEF TypeOK

\* An update is determined by the new value.
LEMMA ExceptSelf ==
  ASSUME NEW D, NEW R, NEW f \in [D -> R], NEW d \in D, NEW g, NEW v,
         g = [f EXCEPT ![d] = v]
  PROVE  g = [f EXCEPT ![d] = g[d]]
OBVIOUS

\* The candidate is elected.
LEMMA BecomeLeaderIs ==
  ASSUME TypeOK, NEW s \in Servers, BecomeLeader(s)
  PROVE  \E r \in Server :
           /\ raft' = [raft EXCEPT ![s] = r]
           /\ r.role = "leader" /\ r.term = raft[s].term
           /\ r.initial = Len(raft[s].log) /\ r.commit = raft[s].commit
           /\ \E e \in Entry : e.ops = <<>> /\ e.ws = <<>>
                               /\ r.log = Append(raft[s].log, e)
<1>1. raft[s] \in Server /\ top \in Nat
  BY Typed
<1>2. /\ raft[s].log \in Log /\ Len(raft[s].log) \in Nat
      /\ raft[s].commit \in Nat /\ raft[s].term \in Nat
  BY <1>1, ServerFields
<1> DEFINE e == [term |-> raft[s].term, ops |-> <<>>, ws |-> <<>>]
<1>3. e \in Entry /\ e.ops = <<>> /\ e.ws = <<>>
  BY <1>2 DEF Entry, Ops
<1>4. raft' = [raft EXCEPT ![s] =
                 [@ EXCEPT !.role = "leader",
                           !.initial = Len(raft[s].log),
                           !.log = Append(raft[s].log, e)]]
  BY DEF BecomeLeader
<1> HIDE DEF e
<1>5. PICK r : r = raft'[s]
  OBVIOUS
<1>6. raft' = [raft EXCEPT ![s] = r]
  BY <1>4, <1>5, ExceptSelf DEF TypeOK
<1>7. PICK L \in Log : L = Append(raft[s].log, e)
  BY <1>2, <1>3, AppendLog
<1>8. r = [role |-> "leader", term |-> raft[s].term, log |-> L,
           initial |-> Len(raft[s].log), commit |-> raft[s].commit]
  <2>1. raft \in [Servers -> Server]
    BY DEF TypeOK
  <2>2. raft'[s] = [raft[s] EXCEPT !.role = "leader",
                      !.initial = Len(raft[s].log), !.log = Append(raft[s].log, e)]
    BY <1>4, <2>1
  <2> QED
    BY <1>1, <1>5, <1>7, <2>2 DEF Server
<1>9. /\ r.role = "leader" /\ r.term = raft[s].term
      /\ r.initial = Len(raft[s].log) /\ r.commit = raft[s].commit
      /\ r.log = L
  BY <1>8
<1>10. r \in Server
  BY <1>1, <1>2, <1>8 DEF Server
<1> QED
  BY <1>3, <1>6, <1>7, <1>9, <1>10

\* The committed entries are before the marker of the new leader.
LEMMA BecomeLeaderKeeps ==
  ASSUME IndInv, NEW s \in Servers, BecomeLeader(s)
  PROVE  IndInv'
<1>0. TypeOK /\ Logs /\ StoresCorrect /\ Applying /\ Acks /\ Workings
  BY DEF IndInv
<1>1. PICK r \in Server :
           /\ raft' = [raft EXCEPT ![s] = r]
           /\ r.role = "leader" /\ r.term = raft[s].term
           /\ r.initial = Len(raft[s].log) /\ r.commit = raft[s].commit
           /\ \E e \in Entry : e.ops = <<>> /\ e.ws = <<>>
                               /\ r.log = Append(raft[s].log, e)
  BY <1>0, BecomeLeaderIs
<1>2. PICK e \in Entry : e.ops = <<>> /\ e.ws = <<>>
                         /\ r.log = Append(raft[s].log, e)
  BY <1>1
<1>3. /\ raft' \in [Servers -> Server] /\ raft'[s] = r
      /\ \A x \in Servers : x # s => raft'[x] = raft[x]
  BY <1>0, <1>1, TypeRaft
<1>4. /\ top' = r.term /\ r.term > top /\ IsPrefix(clog, raft[s].log)
      /\ raft[s].role = "candidate"
      /\ won' = won \cup ({s} \X {w \in Workers : wk[s][w].pc = "check"})
      /\ UNCHANGED <<clog, co, sm, pend, disk, wk, nai, evp, fatal, acked,
                     stale, late, restarted>>
  BY <1>1 DEF BecomeLeader, MayWin
<1>5. /\ raft[s] \in Server /\ top \in Nat /\ clog \in Log /\ Len(clog) \in Nat
      /\ sm[s] \in State /\ disk[s] \in State
  BY <1>0, Typed
<1>6. PICK L \in Log : L = raft[s].log /\ Len(L) \in Nat
  BY <1>5, ServerFields
<1>7. /\ r.log \in Log /\ Len(r.log) = Len(L) + 1 /\ r.log[Len(L) + 1] = e
      /\ Begins(L, r.log) /\ \A i \in 1..Len(L) : r.log[i] = L[i]
  BY <1>2, <1>6, AppendLog
<1>8. Begins(clog, L) /\ Agree(L, clog, Len(clog)) /\ Len(clog) <= Len(L)
  BY <1>4, <1>5, <1>6, PrefixAgrees
<1>9. ASSUME NEW x \in Servers
      PROVE  /\ Elected(raft[x]) => raft[x].term <= top
             /\ raft[x].term \in Nat
             /\ raft[x].commit \in Nat /\ raft[x].commit <= Len(clog)
             /\ sm[x].la.idx \in Nat /\ sm[x].la.idx <= Len(clog)
             /\ disk[x].la.idx \in Nat /\ disk[x].la.idx <= Len(clog)
  <2>1. raft[x] \in Server /\ sm[x] \in State /\ disk[x] \in State
    BY <1>0, Typed
  <2>2. LogHolds(top, clog, raft[x], sm[x], disk[x])
    BY <1>0 DEF Logs
  <2> QED
    BY <2>1, <2>2, ServerFields, StateFields DEF LogHolds, Agree
<1>a. r.term \in Nat /\ r.term # 0
  BY <1>4, <1>5, ServerFields
<1>10. TypeOK'
  <2>1. won' \subseteq Servers \X Workers
    BY <1>0, <1>4 DEF TypeOK
  <2> QED
    BY <1>0, <1>3, <1>4, <1>a, <2>1 DEF TypeOK
<1>11. Logs'
  <2>1. ASSUME NEW x \in Servers
        PROVE  LogHolds(top', clog', raft'[x], sm'[x], disk'[x])
    <3>0. LogHolds(top, clog, raft[x], sm[x], disk[x])
      BY <1>0 DEF Logs
    <3>1. CASE x # s
      <4>1. Elected(raft[x]) => raft[x].term <= r.term /\ raft[x].term # r.term
        BY <1>4, <1>5, <1>9, <1>a
      <4>2. LogHolds(r.term, clog, raft[x], sm[x], disk[x])
        BY <3>0, <4>1 DEF LogHolds, Newest, Elected
      <4> QED
        BY <1>3, <1>4, <3>1, <4>2
    <3>2. CASE x = s
      <4>1. Agree(r.log, clog, Len(clog))
        BY <1>5, <1>6, <1>7, <1>8, AgreeGrow, BeginsSelf
      <4>2. /\ Agree(r.log, clog, r.commit)
            /\ Agree(r.log, clog, sm[s].la.idx)
            /\ Agree(r.log, clog, disk[s].la.idx)
        <5>1. Len(r.log) \in Nat
          BY ServerFields
        <5> QED
          BY <1>1, <1>5, <1>9, <4>1, <5>1, AgreeFewer
      <4>3. /\ r.term <= r.term /\ r.term # 0 /\ r.initial < Len(r.log)
            /\ r.log[r.initial + 1].ops = <<>>
        BY <1>1, <1>2, <1>6, <1>7, <1>a
      <4>4. LogHolds(r.term, clog, r, sm[s], disk[s])
        BY <4>1, <4>2, <4>3 DEF LogHolds
      <4> QED
        BY <1>3, <1>4, <3>2, <4>4
    <3> QED
      BY <3>1, <3>2
  <2>2. ASSUME NEW x \in Servers, NEW y \in Servers,
               Elected(raft'[x]), Elected(raft'[y]),
               raft'[x].term = raft'[y].term
        PROVE  x = y
    <3>1. \A z \in Servers : z # s /\ Elected(raft'[z]) => raft'[z].term # r.term
      BY <1>3, <1>4, <1>5, <1>9, <1>a
    <3>2. raft'[s].term = r.term
      BY <1>3
    <3>3. CASE x # s /\ y # s
      <4>1. raft'[x] = raft[x] /\ raft'[y] = raft[y]
        BY <1>3, <3>3
      <4> QED
        BY <1>0, <2>2, <4>1 DEF Logs
    <3> QED
      BY <2>2, <3>1, <3>2, <3>3
  <2> QED
    BY <2>1, <2>2 DEF Logs
<1>12. StoresCorrect'
  BY <1>0, <1>4 DEF StoresCorrect
<1>13. Applying'
  <2> SUFFICES ASSUME NEW x \in Servers
               PROVE  ApplyingAt(raft'[x], sm[x], nai[x], x \notin restarted)
    BY <1>4 DEF Applying
  <2>1. ApplyingAt(raft[x], sm[x], nai[x], x \notin restarted)
    BY <1>0 DEF Applying
  <2>2. raft'[x].commit = raft[x].commit
    BY <1>1, <1>3
  <2> QED
    BY <2>1, <2>2 DEF ApplyingAt, AtHand
<1>14. Acks'
  <2>1. \A x \in Servers : Newest(top', raft'[x]) => x = s
    BY <1>3, <1>4, <1>5, <1>9, <1>a DEF Newest, Elected
  <2>2. HasAnswered(acked, r, sm[s])
    <3>1. Flat(r.log, Len(L)) = Flat(L, Len(L))
      BY <1>6, <1>7, FlatSame
    <3>2. ToSet(All(clog)) \subseteq ToSet(Flat(L, Len(L)))
      BY <1>5, <1>6, <1>8, CommittedWrites
    <3> QED
      BY <1>0, <1>1, <1>6, <3>1, <3>2 DEF Acks, HasAnswered
  <2>3. ASSUME NEW x \in Servers PROVE Behind(r, raft[x], sm[x])
    BY <1>1, <1>5, <1>6, <1>8, <1>9 DEF Behind
  <2> QED
    BY <1>0, <1>3, <1>4, <2>1, <2>2, <2>3 DEF Acks
<1>15. Workings'
  <2> SUFFICES ASSUME NEW x \in Servers
               PROVE  TermsPast(raft'[x].term, co[x], pend[x], wk[x])
    BY <1>0, <1>4 DEF Workings
  <2>1. TermsPast(raft[x].term, co[x], pend[x], wk[x])
    BY <1>0 DEF Workings
  <2>2. raft'[x].term = raft[x].term
    BY <1>1, <1>3
  <2> QED
    BY <2>1, <2>2
<1>16. ~late' => InTerm'
  <2> SUFFICES ASSUME InTerm PROVE InTerm'
    BY <1>4 DEF IndInv
  <2>1. ASSUME NEW x \in Servers
        PROVE  InTermAt(raft'[x], sm[x], co[x], pend[x], wk[x])
    <3>0. InTermAt(raft[x], sm[x], co[x], pend[x], wk[x])
      BY DEF InTerm
    <3>1. CASE x # s
      BY <1>3, <3>0, <3>1
    <3>2. CASE x = s
      <4>1. InTermAt(raft[s], sm[s], co[s], pend[s], wk[s])
        BY <3>0, <3>2
      <4>2. InOrder(All(r.log))
        <5>1. All(r.log) = All(L) \o <<>> /\ All(L) \in Ops
          BY <1>2, <1>6, AllAppend
        <5> QED
          BY <1>6, <4>1, <5>1, ConcatEmpty DEF InTermAt
      <4>3. Supplied(r.log)
        <5>1. \A i \in 1..Len(L) : L[i].ws = L[i].ops
          BY <1>6, <4>1 DEF InTermAt, Supplied
        <5>2. ASSUME NEW i \in 1..Len(r.log) PROVE r.log[i].ws = r.log[i].ops
          <6>1. i \in 1..Len(L) \/ i = Len(L) + 1
            BY <1>6, <1>7
          <6> QED
            BY <1>2, <1>7, <5>1, <6>1
        <5> QED
          BY <5>2 DEF Supplied
      <4>4. ~Active(r, sm[s]) /\ Len(r.log) = r.initial + 1
        BY <1>1, <1>5, <1>6, <1>7, <1>8, <1>9 DEF Active
      <4>5. ~Elected(raft[s]) /\ ~Active(raft[s], sm[s]) /\ raft[s].term = r.term
        BY <1>1, <1>4 DEF Active, Elected
      <4>7. /\ \A w \in Workers : Checked(wk[s][w]) => wk[s][w].term # r.term
            /\ \A i \in 1..Len(co[s].items) : co[s].items[i].term # r.term
            /\ \A c \in Clients : pend[s][c].term # r.term
        BY <1>a, <4>1, <4>5 DEF InTermAt, OfTheTerm
      <4>8. OfTheTerm(r, sm[s], co[s], pend[s], wk[s])
        BY <4>4, <4>7 DEF OfTheTerm
      <4>9. Queued(r, sm[s], co[s], pend[s], wk[s])
        BY <4>1, <4>4, <4>5 DEF InTermAt, Queued
      <4>10. InTermAt(r, sm[s], co[s], pend[s], wk[s])
        BY <4>2, <4>3, <4>8, <4>9 DEF InTermAt
      <4> QED
        BY <1>3, <3>2, <4>10
    <3> QED
      BY <3>1, <3>2
  <2> QED
    BY <1>4, <2>1 DEF InTerm
<1> QED
  BY <1>10, <1>11, <1>12, <1>13, <1>14, <1>15, <1>16 DEF IndInv

\* The log of a server that is as it was, but for its commit index or because
\* it has lost its quorum
LEMMA InTermSame ==
  ASSUME NEW r, NEW q, NEW st, NEW b, NEW p, NEW ws, r.log = q.log,
         r.term = q.term, r.initial = q.initial, Elected(r) <=> Elected(q),
         InTermAt(r, st, b, p, ws)
  PROVE  InTermAt(q, st, b, p, ws)
<1>1. Active(r, st) <=> Active(q, st)
  BY DEF Active
<1>2. Queue(r, b) = Queue(q, b)
  BY DEF Queue
<1>3. OfTheTerm(q, st, b, p, ws)
  BY <1>1 DEF InTermAt, OfTheTerm
<1>4. Queued(q, st, b, p, ws)
  BY <1>1, <1>2 DEF InTermAt, Queued
<1> QED
  BY <1>3, <1>4 DEF InTermAt

\* A leader loses its quorum.
LEMMA BecomeCandidateKeeps ==
  ASSUME IndInv, NEW s \in Servers, BecomeCandidate(s)
  PROVE  IndInv'
<1>0. TypeOK /\ Logs /\ StoresCorrect /\ Applying /\ Acks /\ Workings
  BY DEF IndInv
<1>1. /\ raft' = [raft EXCEPT ![s].role = "prevote"]
      /\ raft[s].role = "leader"
      /\ UNCHANGED <<top, clog, co, sm, pend, disk, wk, nai, evp, fatal, acked,
                     stale, late, restarted, won>>
  BY DEF BecomeCandidate, hist
<1>2. raft \in [Servers -> Server] /\ raft[s] \in Server
  BY <1>0 DEF TypeOK
<1>3. PICK r : r = raft'[s]
  OBVIOUS
<1>4. r = [raft[s] EXCEPT !.role = "prevote"]
  BY <1>1, <1>2, <1>3
<1>5. /\ r \in Server /\ r.role = "prevote" /\ r.term = raft[s].term
      /\ r.log = raft[s].log /\ r.initial = raft[s].initial
      /\ r.commit = raft[s].commit
  BY <1>2, <1>4 DEF Server
<1>6. /\ raft'[s] = r /\ \A x \in Servers : x # s => raft'[x] = raft[x]
      /\ raft' \in [Servers -> Server]
  <2>1. \A x \in Servers : x # s => raft'[x] = raft[x]
    BY <1>1, <1>2
  <2>2. raft' = [raft EXCEPT ![s] = r]
    BY <1>1, <1>3, <1>2, ExceptSelf
  <2> QED
    BY <1>2, <1>3, <1>5, <2>1, <2>2
<1>7. \A x \in Servers :
        /\ raft'[x].term = raft[x].term /\ raft'[x].log = raft[x].log
        /\ raft'[x].initial = raft[x].initial
        /\ raft'[x].commit = raft[x].commit
        /\ Elected(raft'[x]) <=> Elected(raft[x])
        /\ raft'[x].role = "leader" => raft[x].role = "leader"
        /\ Newest(top, raft'[x]) => Newest(top, raft[x])
  BY <1>1, <1>5, <1>6 DEF Elected, Newest
<1>10. TypeOK'
  BY <1>0, <1>1, <1>6 DEF TypeOK
<1>11. Logs'
  <2>1. ASSUME NEW x \in Servers
        PROVE  LogHolds(top, clog, raft'[x], sm[x], disk[x])
    <3>1. LogHolds(top, clog, raft[x], sm[x], disk[x])
      BY <1>0 DEF Logs
    <3> QED
      BY <1>7, <3>1 DEF LogHolds
  <2>2. \A x, y \in Servers :
          Elected(raft'[x]) /\ Elected(raft'[y])
            /\ raft'[x].term = raft'[y].term => x = y
    BY <1>0, <1>7 DEF Logs
  <2> QED
    BY <1>1, <2>1, <2>2 DEF Logs
<1>12. StoresCorrect'
  BY <1>0, <1>1 DEF StoresCorrect
<1>13. Applying'
  BY <1>0, <1>1, <1>7 DEF Applying, ApplyingAt, AtHand
<1>14. Acks'
  <2>1. \A x \in Servers :
          Newest(top, raft'[x]) => HasAnswered(acked, raft'[x], sm[x])
    BY <1>0, <1>7 DEF Acks, HasAnswered
  <2>2. \A y, x \in Servers :
          Newest(top, raft'[y]) /\ raft'[x].role = "leader" /\ x # y =>
            Behind(raft'[y], raft'[x], sm[x])
    BY <1>0, <1>7 DEF Acks, Behind
  <2> QED
    BY <1>0, <1>1, <2>1, <2>2 DEF Acks
<1>15. Workings'
  BY <1>0, <1>1, <1>7 DEF Workings
<1>16. ~late' => InTerm'
  <2> SUFFICES ASSUME InTerm PROVE InTerm'
    BY <1>1 DEF IndInv
  <2>1. ASSUME NEW x \in Servers
        PROVE  InTermAt(raft'[x], sm[x], co[x], pend[x], wk[x])
    <3>1. InTermAt(raft[x], sm[x], co[x], pend[x], wk[x])
      BY DEF InTerm
    <3> QED
      BY <1>7, <3>1, InTermSame
  <2> QED
    BY <1>1, <2>1 DEF InTerm
<1> QED
  BY <1>10, <1>11, <1>12, <1>13, <1>14, <1>15, <1>16 DEF IndInv

\* The newest leader commits its log.
LEMMA CommitKeeps ==
  ASSUME IndInv, NEW s \in Servers, Commit(s)
  PROVE  IndInv'
<1>0. TypeOK /\ Logs /\ StoresCorrect /\ Applying /\ Acks /\ Workings
  BY DEF IndInv
<1>1. /\ raft' = [raft EXCEPT ![s].commit = Len(raft[s].log)]
      /\ Newest(top, raft[s]) /\ nai[s] = Idle /\ clog' = raft[s].log
      /\ evp' = [evp EXCEPT ![s] = TRUE]
      /\ UNCHANGED <<top, co, sm, pend, disk, wk, nai, fatal, acked,
                     stale, late, restarted, won>>
  BY DEF Commit, hist, MainIdle, Newest
<1>2. raft \in [Servers -> Server] /\ raft[s] \in Server
  BY <1>0 DEF TypeOK
<1>a. /\ raft[s].log \in Log /\ Len(raft[s].log) \in Nat /\ clog \in Log
      /\ Len(clog) \in Nat
  BY <1>0, <1>2, ServerFields, Typed
<1>3. PICK r : r = raft'[s]
  OBVIOUS
<1>4. r = [raft[s] EXCEPT !.commit = Len(raft[s].log)]
  BY <1>1, <1>2, <1>3
<1>5. /\ r \in Server /\ r.role = raft[s].role /\ r.term = raft[s].term
      /\ r.log = raft[s].log /\ r.initial = raft[s].initial
      /\ r.commit = Len(raft[s].log)
  BY <1>2, <1>4, <1>a DEF Server
<1>6. /\ raft'[s] = r /\ \A x \in Servers : x # s => raft'[x] = raft[x]
      /\ raft' \in [Servers -> Server]
  <2>1. \A x \in Servers : x # s => raft'[x] = raft[x]
    BY <1>1, <1>2
  <2>2. raft' = [raft EXCEPT ![s] = r]
    BY <1>1, <1>3, <1>2, ExceptSelf
  <2> QED
    BY <1>2, <1>3, <1>5, <2>1, <2>2
<1>7. \A x \in Servers :
        /\ raft'[x].term = raft[x].term /\ raft'[x].log = raft[x].log
        /\ raft'[x].initial = raft[x].initial
        /\ raft'[x].role = raft[x].role
        /\ Elected(raft'[x]) <=> Elected(raft[x])
        /\ Newest(top, raft'[x]) <=> Newest(top, raft[x])
  BY <1>5, <1>6 DEF Elected, Newest
<1>8. LogHolds(top, clog, raft[s], sm[s], disk[s])
  BY <1>0 DEF Logs
<1>9. Begins(clog, clog') /\ clog' \in Log /\ Len(clog') \in Nat
      /\ Len(clog) <= Len(clog')
  <2>1. Agree(raft[s].log, clog, Len(clog))
    BY <1>1, <1>8 DEF LogHolds
  <2> QED
    BY <1>1, <1>a, <2>1 DEF Agree, Begins
<1>b. \A x \in Servers : Newest(top, raft[x]) => x = s
  BY <1>0, <1>1 DEF Logs, Newest, Elected
<1>10. TypeOK'
  <2>1. evp' \in [Servers -> BOOLEAN]
    BY <1>0, <1>1 DEF TypeOK
  <2> QED
    BY <1>0, <1>1, <1>6, <1>9, <2>1 DEF TypeOK
<1>11. Logs'
  <2>1. ASSUME NEW x \in Servers
        PROVE  LogHolds(top, clog', raft'[x], sm[x], disk[x])
    <3>0. raft[x] \in Server /\ sm[x] \in State /\ disk[x] \in State
      BY <1>0, Typed
    <3>1. LogHolds(top, clog, raft[x], sm[x], disk[x])
      BY <1>0 DEF Logs
    <3>2. /\ raft[x].log \in Log /\ Begins(raft[x].log, raft[x].log)
          /\ raft[x].commit \in Nat /\ sm[x].la.idx \in Nat
          /\ disk[x].la.idx \in Nat
      BY <3>0, ServerFields, StateFields, BeginsSelf
    <3>3. /\ Agree(raft[x].log, clog', raft[x].commit)
          /\ Agree(raft[x].log, clog', sm[x].la.idx)
          /\ Agree(raft[x].log, clog', disk[x].la.idx)
      BY <1>9, <1>a, <3>1, <3>2, AgreeGrow DEF LogHolds
    <3>4. CASE x # s
      <4>1. ~Newest(top, raft[x]) /\ raft'[x] = raft[x]
        BY <1>6, <1>b, <3>4
      <4> QED
        BY <3>1, <3>3, <4>1 DEF LogHolds
    <3>5. CASE x = s
      <4>1. Agree(r.log, clog', Len(clog')) /\ r.commit = Len(clog')
        BY <1>1, <1>5, <1>a DEF Agree
      <4>2. LogHolds(top, clog', r, sm[x], disk[x])
        BY <1>5, <1>7, <1>6, <3>1, <3>3, <3>5, <4>1 DEF LogHolds
      <4> QED
        BY <1>6, <3>5, <4>2
    <3> QED
      BY <3>4, <3>5
  <2>2. \A x, y \in Servers :
          Elected(raft'[x]) /\ Elected(raft'[y])
            /\ raft'[x].term = raft'[y].term => x = y
    BY <1>0, <1>7 DEF Logs
  <2> QED
    BY <1>1, <2>1, <2>2 DEF Logs
<1>12. StoresCorrect'
  <2> SUFFICES ASSUME NEW x \in Servers
               PROVE  /\ Correct(clog', sm[x], x \notin restarted)
                      /\ Correct(clog', disk[x], x \notin restarted)
    BY <1>1 DEF StoresCorrect
  <2>1. sm[x] \in State /\ disk[x] \in State
    BY <1>0, Typed
  <2>2. /\ Correct(clog, sm[x], x \notin restarted)
        /\ Correct(clog, disk[x], x \notin restarted)
    BY <1>0 DEF StoresCorrect
  <2> QED
    BY <1>9, <1>a, <2>1, <2>2, CorrectGrow
<1>13. Applying'
  <2> SUFFICES ASSUME NEW x \in Servers
               PROVE  ApplyingAt(raft'[x], sm[x], nai[x], x \notin restarted)
    BY <1>1 DEF Applying
  <2>1. ApplyingAt(raft[x], sm[x], nai[x], x \notin restarted)
    BY <1>0 DEF Applying
  <2>2. CASE x # s
    BY <1>6, <2>1, <2>2
  <2>3. CASE x = s
    <3>1. sm[s].la.idx <= r.commit
      BY <1>5, <1>8 DEF LogHolds, Agree
    <3> QED
      BY <1>1, <1>6, <2>1, <2>3, <3>1 DEF ApplyingAt
  <2> QED
    BY <2>2, <2>3
<1>14. Acks'
  <2>1. \A x \in Servers :
          Newest(top, raft'[x]) => HasAnswered(acked, raft'[x], sm[x])
    BY <1>0, <1>7 DEF Acks, HasAnswered
  <2>2. \A y, x \in Servers :
          Newest(top, raft'[y]) /\ raft'[x].role = "leader" /\ x # y =>
            Behind(raft'[y], raft'[x], sm[x])
    <3> SUFFICES ASSUME NEW y \in Servers, NEW x \in Servers,
                        Newest(top, raft'[y]), raft'[x].role = "leader", x # y
                 PROVE  Behind(raft'[y], raft'[x], sm[x])
      OBVIOUS
    <3>1. y = s /\ raft'[x] = raft[x]
      BY <1>6, <1>7, <1>b
    <3>2. Behind(raft[y], raft[x], sm[x])
      BY <1>0, <1>7 DEF Acks
    <3> QED
      BY <1>7, <3>1, <3>2 DEF Behind
  <2>3. acked \subseteq ToSet(All(clog'))
    <3>1. Agree(clog', clog, Len(clog))
      BY <1>9 DEF Begins, Agree
    <3>2. ToSet(All(clog)) \subseteq ToSet(Flat(clog', Len(clog')))
      BY <1>9, <1>a, <3>1, CommittedWrites
    <3> QED
      BY <1>0, <3>2 DEF Acks, All
  <2> QED
    BY <1>0, <1>1, <2>1, <2>2, <2>3 DEF Acks
<1>15. Workings'
  BY <1>0, <1>1, <1>7 DEF Workings
<1>16. ~late' => InTerm'
  <2> SUFFICES ASSUME InTerm PROVE InTerm'
    BY <1>1 DEF IndInv
  <2>1. ASSUME NEW x \in Servers
        PROVE  InTermAt(raft'[x], sm[x], co[x], pend[x], wk[x])
    <3>1. InTermAt(raft[x], sm[x], co[x], pend[x], wk[x])
      BY DEF InTerm
    <3> QED
      BY <1>7, <3>1, InTermSame
  <2>2. InOrder(All(clog'))
    BY <1>1 DEF InTerm, InTermAt
  <2> QED
    BY <1>1, <2>1, <2>2 DEF InTerm
<1> QED
  BY <1>10, <1>11, <1>12, <1>13, <1>14, <1>15, <1>16 DEF IndInv

\* The larger one of two commit indexes
LEMMA MaxOfTwo ==
  ASSUME NEW a \in Nat, NEW b \in Nat
  PROVE  /\ Max({a, b}) \in {a, b}
         /\ a <= Max({a, b}) /\ b <= Max({a, b})
<1> DEFINE m == IF a >= b THEN a ELSE b
<1>1. m \in {a, b} /\ \A y \in {a, b} : m >= y
  OBVIOUS
<1>2. \A x \in {a, b} : (\A y \in {a, b} : x >= y) => x = m
  OBVIOUS
<1> HIDE DEF m
<1>3. (CHOOSE x \in {a, b} : \A y \in {a, b} : x >= y) = m
  BY <1>1, <1>2
<1>4. Max({a, b}) = m
  BY <1>3 DEF Max
<1> QED
  BY <1>1, <1>4

\* A server that comes to a newer term without leading, as a candidate or
\* because of another server's message
LEMMA TermRaised ==
  ASSUME IndInv, NEW s \in Servers, NEW r \in Server, NEW b \in Buffer,
         raft' = [raft EXCEPT ![s] = r], co' = [co EXCEPT ![s] = b],
         r.role \in {"follower", "candidate"}, raft[s].term < r.term,
         r.log = raft[s].log, r.initial = raft[s].initial,
         r.commit = raft[s].commit,
         b.items = co[s].items, b.ws = co[s].ws \/ b.ws = <<>>,
         UNCHANGED <<top, clog, sm, pend, disk, wk, nai, evp, fatal, acked,
                     stale, late, restarted, won>>
  PROVE  IndInv'
<1>0. TypeOK /\ Logs /\ StoresCorrect /\ Applying /\ Acks /\ Workings
  BY DEF IndInv
<1>1. /\ raft' \in [Servers -> Server] /\ raft'[s] = r
      /\ \A x \in Servers : x # s => raft'[x] = raft[x]
  BY <1>0, TypeRaft
<1>2. /\ co' \in [Servers -> Buffer] /\ co'[s] = b
      /\ \A x \in Servers : x # s => co'[x] = co[x]
  BY <1>0 DEF TypeOK
<1>3. raft[s] \in Server /\ raft[s].term \in Nat /\ r.term \in Nat /\ r.term # 0
  BY <1>0, Typed, ServerFields
<1>4. ~Elected(r) /\ \A st : ~Active(r, st)
  BY DEF Elected, Active
<1>5. TypeOK'
  BY <1>0, <1>1, <1>2 DEF TypeOK
<1>6. Logs'
  <2>1. ASSUME NEW x \in Servers
        PROVE  LogHolds(top, clog, raft'[x], sm[x], disk[x])
    <3>1. LogHolds(top, clog, raft[x], sm[x], disk[x])
      BY <1>0 DEF Logs
    <3>2. CASE x # s
      BY <1>1, <3>1, <3>2
    <3>3. CASE x = s
      <4>1. LogHolds(top, clog, r, sm[s], disk[s])
        BY <1>3, <1>4, <3>1, <3>3 DEF LogHolds, Newest, Elected
      <4> QED
        BY <1>1, <3>3, <4>1
    <3> QED
      BY <3>2, <3>3
  <2>2. \A x, y \in Servers :
          Elected(raft'[x]) /\ Elected(raft'[y])
            /\ raft'[x].term = raft'[y].term => x = y
    BY <1>0, <1>1, <1>4 DEF Logs
  <2> QED
    BY <2>1, <2>2 DEF Logs
<1>7. StoresCorrect'
  BY <1>0 DEF StoresCorrect
<1>8. Applying'
  <2> SUFFICES ASSUME NEW x \in Servers
               PROVE  ApplyingAt(raft'[x], sm[x], nai[x], x \notin restarted)
    BY DEF Applying
  <2>1. ApplyingAt(raft[x], sm[x], nai[x], x \notin restarted)
    BY <1>0 DEF Applying
  <2>2. raft'[x].commit = raft[x].commit
    BY <1>1
  <2> QED
    BY <2>1, <2>2 DEF ApplyingAt, AtHand
<1>9. Acks'
  <2>1. \A x \in Servers : raft'[x].role = "leader" => raft'[x] = raft[x]
    BY <1>1
  <2> QED
    BY <1>0, <2>1 DEF Acks, Newest
<1>10. Workings'
  <2> SUFFICES ASSUME NEW x \in Servers
               PROVE  TermsPast(raft'[x].term, co'[x], pend[x], wk[x])
    BY <1>0 DEF Workings
  <2>1. TermsPast(raft[x].term, co[x], pend[x], wk[x])
    BY <1>0 DEF Workings
  <2>2. CASE x # s
    BY <1>1, <1>2, <2>1, <2>2
  <2>3. CASE x = s
    <3>1. TermsPast(raft[s].term, b, pend[s], wk[s])
      BY <2>1, <2>3 DEF TermsPast
    <3>2. /\ pend[s] \in [Clients -> Mark]
          /\ wk[s] \in [Workers -> Request \cup {Idle}]
      BY <1>0, Typed
    <3>3. TermsPast(r.term, b, pend[s], wk[s])
      <4>1. raft[s].term <= r.term
        BY <1>3
      <4> QED
        BY <1>3, <3>1, <3>2, <4>1, TermsPastGrow
    <3> QED
      BY <1>1, <1>2, <2>3, <3>3
  <2> QED
    BY <2>2, <2>3
<1>11. ~late' => InTerm'
  <2> SUFFICES ASSUME InTerm PROVE InTerm'
    BY DEF IndInv
  <2>1. ASSUME NEW x \in Servers
        PROVE  InTermAt(raft'[x], sm[x], co'[x], pend[x], wk[x])
    <3>0. InTermAt(raft[x], sm[x], co[x], pend[x], wk[x])
      BY DEF InTerm
    <3>1. CASE x # s
      BY <1>1, <1>2, <3>0, <3>1
    <3>2. CASE x = s
      <4>1. InTermAt(raft[s], sm[s], co[s], pend[s], wk[s])
        BY <3>0, <3>2
      <4>2. InOrder(All(r.log)) /\ Supplied(r.log)
        BY <4>1 DEF InTermAt
      <4>3. TermsPast(raft[s].term, co[s], pend[s], wk[s])
        BY <1>0 DEF Workings
      <4>4. /\ \A w \in Workers : Checked(wk[s][w]) => wk[s][w].term # r.term
            /\ \A i \in 1..Len(co[s].items) : co[s].items[i].term # r.term
            /\ \A c \in Clients : pend[s][c].term # r.term
        BY <1>0, <1>3, <4>3, TermsOlder
      <4>5. OfTheTerm(r, sm[s], b, pend[s], wk[s])
        BY <1>4, <4>4 DEF OfTheTerm
      <4>6. Fresh(b, r.term) => b.ws = CoOps(b)
        <5> SUFFICES ASSUME Fresh(b, r.term) PROVE b.ws = CoOps(b)
          OBVIOUS
        <5>1. 1..Len(b.items) = {}
          BY <4>4 DEF Fresh
        <5>2. CoOps(b) = <<>>
          BY <5>1 DEF CoOps
        <5>3. Fresh(co[s], raft[s].term)
          BY <5>1 DEF Fresh
        <5>4. co[s].ws = CoOps(co[s])
          BY <4>1, <5>3 DEF InTermAt, Queued
        <5>5. CoOps(co[s]) = CoOps(b)
          BY DEF CoOps
        <5> QED
          BY <5>2, <5>4, <5>5
      <4>7. Queued(r, sm[s], b, pend[s], wk[s])
        BY <1>4, <4>6 DEF Queued
      <4>8. InTermAt(r, sm[s], b, pend[s], wk[s])
        BY <4>2, <4>5, <4>7 DEF InTermAt
      <4> QED
        BY <1>1, <1>2, <3>2, <4>8
    <3> QED
      BY <3>1, <3>2
  <2> QED
    BY <2>1 DEF InTerm
<1> QED
  BY <1>5, <1>6, <1>7, <1>8, <1>9, <1>10, <1>11 DEF IndInv

\* A candidacy
LEMMA CandidacyKeeps ==
  ASSUME IndInv, NEW s \in Servers, Candidacy(s)
  PROVE  IndInv'
<1>0. /\ TypeOK /\ raft \in [Servers -> Server] /\ raft[s] \in Server
      /\ co \in [Servers -> Buffer] /\ co[s] \in Buffer
      /\ top \in Nat /\ raft[s].term \in Nat
  BY ServerFields DEF IndInv, TypeOK
<1>1. PICK m \in Nat : m = Max({top, raft[s].term}) /\ raft[s].term <= m
  <2>1. {top, raft[s].term} = {raft[s].term, top}
    OBVIOUS
  <2> QED
    BY <1>0, <2>1, MaxOfTwo
<1>2. PICK n \in Nat : n = m + 1 /\ raft[s].term < n
  BY <1>0, <1>1
<1>3. raft' = [raft EXCEPT ![s] = [@ EXCEPT !.role = "candidate", !.term = n]]
  BY <1>1, <1>2 DEF Candidacy
<1>4. PICK r : r = [raft[s] EXCEPT !.role = "candidate", !.term = n]
  OBVIOUS
<1>5. /\ r \in Server /\ r.role = "candidate" /\ r.term = n
      /\ r.log = raft[s].log /\ r.initial = raft[s].initial
      /\ r.commit = raft[s].commit
  BY <1>0, <1>4 DEF Server
<1>6. raft' = [raft EXCEPT ![s] = r] /\ co' = [co EXCEPT ![s] = co[s]]
  BY <1>0, <1>3, <1>4 DEF Candidacy
<1>7. UNCHANGED <<top, clog, sm, pend, disk, wk, nai, evp, fatal, acked, stale,
                  late, restarted, won>>
  BY DEF Candidacy, hist
<1> QED
  BY <1>0, <1>2, <1>5, <1>6, <1>7, TermRaised

\* A message of a newer term
LEMMA StaleTermKeeps ==
  ASSUME IndInv, NEW s \in Servers, NEW t \in Servers, StaleTerm(t, s)
  PROVE  IndInv'
<1>0. /\ TypeOK /\ raft \in [Servers -> Server] /\ raft[t] \in Server
      /\ co \in [Servers -> Buffer] /\ co[t] \in Buffer
      /\ raft[s] \in Server /\ raft[t].term \in Nat /\ raft[s].term \in Nat
  BY ServerFields DEF IndInv, TypeOK
<1>1. PICK n \in Nat : n = raft[s].term /\ raft[t].term < n
  BY <1>0 DEF StaleTerm
<1>2. PICK r : r = [raft[t] EXCEPT !.role = "follower", !.term = n]
  OBVIOUS
<1>3. /\ r \in Server /\ r.role = "follower" /\ r.term = n
      /\ r.log = raft[t].log /\ r.initial = raft[t].initial
      /\ r.commit = raft[t].commit
  BY <1>0, <1>2 DEF Server
<1>4. <<>> \in Ops
  BY DEF Ops
<1>5. PICK z \in Ops : z = <<>>
  BY <1>4
<1>6. PICK b : b = [co[t] EXCEPT !.ws = z]
  OBVIOUS
<1>7. b \in Buffer /\ b.items = co[t].items /\ b.ws = <<>>
  BY <1>0, <1>5, <1>6 DEF Buffer
<1>8. raft' = [raft EXCEPT ![t] = r] /\ co' = [co EXCEPT ![t] = b]
  BY <1>0, <1>1, <1>2, <1>5, <1>6 DEF StaleTerm, Demoted
<1>9. UNCHANGED <<top, clog, sm, pend, disk, wk, nai, evp, fatal, acked, stale,
                  late, restarted, won>>
  BY DEF StaleTerm, hist
<1> QED
  BY <1>0, <1>1, <1>3, <1>7, <1>8, <1>9, TermRaised

\* The follower takes over the leader's log.
LEMMA FollowIs ==
  ASSUME TypeOK, NEW s \in Servers, NEW t \in Servers, Follow(t, s)
  PROVE  \E r \in Server, b \in Buffer :
           /\ raft' = [raft EXCEPT ![t] = r] /\ co' = [co EXCEPT ![t] = b]
           /\ r.role = "follower" /\ r.term = top /\ r.log = raft[s].log
           /\ r.commit \in {raft[t].commit, raft[s].commit}
           /\ raft[t].commit <= r.commit
           /\ b.items = co[t].items
           /\ b.ws = co[t].ws \/ b.ws = <<>>
<1>1. /\ raft \in [Servers -> Server] /\ raft[t] \in Server
      /\ raft[s] \in Server /\ co[t] \in Buffer /\ top \in Nat
      /\ co \in [Servers -> Buffer]
  BY DEF TypeOK
<1>2. raft[t].commit \in Nat /\ raft[s].commit \in Nat /\ raft[s].log \in Log
  BY <1>1, ServerFields
<1>3. PICK n \in Nat : /\ n = Max({raft[t].commit, raft[s].commit})
                       /\ n \in {raft[t].commit, raft[s].commit}
                       /\ raft[t].commit <= n
  BY <1>2, MaxOfTwo
<1>4. PICK L \in Log : L = raft[s].log
  BY <1>2
<1>5. raft' = [raft EXCEPT ![t] =
                 [@ EXCEPT !.role = "follower", !.term = top, !.log = L,
                           !.commit = n]]
  BY <1>3, <1>4 DEF Follow
<1>6. PICK r : r = raft'[t]
  OBVIOUS
<1>7. raft' = [raft EXCEPT ![t] = r]
  BY <1>1, <1>5, <1>6, ExceptSelf
<1>8. r = [raft[t] EXCEPT !.role = "follower", !.term = top, !.log = L,
             !.commit = n]
  BY <1>1, <1>5, <1>6
<1>9. /\ r \in Server /\ r.role = "follower" /\ r.term = top /\ r.log = L
      /\ r.commit = n
  BY <1>1, <1>8 DEF Server
<1>10. \E b \in Buffer : /\ co' = [co EXCEPT ![t] = b]
                         /\ b.items = co[t].items
                         /\ b.ws = co[t].ws \/ b.ws = <<>>
  <2>1. CASE co' = co
    <3>1. co' = [co EXCEPT ![t] = co[t]]
      BY <1>1, <2>1
    <3> QED
      BY <1>1, <3>1
  <2>2. CASE co' = [co EXCEPT ![t] = Demoted(@)]
    <3>a. <<>> \in Ops
      BY DEF Ops
    <3>0. PICK z \in Ops : z = <<>>
      BY <3>a
    <3>1. PICK b : b = [co[t] EXCEPT !.ws = z]
      OBVIOUS
    <3>2. b \in Buffer /\ b.items = co[t].items /\ b.ws = <<>>
      BY <1>1, <3>0, <3>1 DEF Buffer
    <3>3. co' = [co EXCEPT ![t] = b]
      BY <2>2, <3>0, <3>1 DEF Demoted
    <3> QED
      BY <3>2, <3>3
  <2> QED
    BY <2>1, <2>2 DEF Follow
<1> QED
  BY <1>3, <1>4, <1>7, <1>9, <1>10

\* What the follower has applied is in the log that it takes over.
LEMMA FollowKeeps ==
  ASSUME IndInv, NEW s \in Servers, NEW t \in Servers, Follow(t, s)
  PROVE  IndInv'
<1>0. TypeOK /\ Logs /\ StoresCorrect /\ Applying /\ Acks /\ Workings
  BY DEF IndInv
<1>1. PICK r \in Server, b \in Buffer :
           /\ raft' = [raft EXCEPT ![t] = r] /\ co' = [co EXCEPT ![t] = b]
           /\ r.role = "follower" /\ r.term = top /\ r.log = raft[s].log
           /\ r.commit \in {raft[t].commit, raft[s].commit}
           /\ raft[t].commit <= r.commit
           /\ b.items = co[t].items
           /\ b.ws = co[t].ws \/ b.ws = <<>>
  BY <1>0, FollowIs
<1>2. /\ s # t /\ Newest(top, raft[s]) /\ nai[t] = Idle /\ raft[t].term <= top
      /\ evp' = [evp EXCEPT ![t] = @ \/ raft[t].commit < raft[s].commit]
      /\ UNCHANGED <<top, clog, sm, pend, disk, wk, nai, fatal, acked,
                     stale, late, restarted, won>>
  BY DEF Follow, hist, MainIdle, Newest
<1>3. /\ raft' \in [Servers -> Server] /\ raft'[t] = r
      /\ \A x \in Servers : x # t => raft'[x] = raft[x]
  BY <1>0, <1>1, TypeRaft
<1>4. /\ co' \in [Servers -> Buffer] /\ co'[t] = b
      /\ \A x \in Servers : x # t => co'[x] = co[x]
  BY <1>0, <1>1 DEF TypeOK
<1>5. /\ raft[s] \in Server /\ raft[t] \in Server /\ top \in Nat
      /\ sm[t] \in State /\ disk[t] \in State /\ clog \in Log
      /\ Len(clog) \in Nat
  BY <1>0, Typed
<1>6. /\ raft[s].log \in Log /\ Len(raft[s].log) \in Nat /\ r.log \in Log
      /\ raft[t].commit \in Nat /\ raft[s].commit \in Nat
      /\ r.commit \in Nat /\ raft[t].term \in Nat /\ raft[s].term \in Nat
  BY <1>5, ServerFields
<1>7. /\ LogHolds(top, clog, raft[s], sm[s], disk[s])
      /\ LogHolds(top, clog, raft[t], sm[t], disk[t])
  BY <1>0 DEF Logs
<1>8. Agree(r.log, clog, Len(clog)) /\ top # 0 /\ raft[t].term <= top
  BY <1>1, <1>2, <1>7 DEF LogHolds, Newest, Elected
<1>9. /\ r.commit <= Len(clog) /\ sm[t].la.idx <= Len(clog)
      /\ disk[t].la.idx <= Len(clog)
  BY <1>1, <1>7 DEF LogHolds, Agree
<1>10. TypeOK'
  <2>1. evp' \in [Servers -> BOOLEAN]
    BY <1>0, <1>2, <1>6 DEF TypeOK
  <2> QED
    BY <1>0, <1>2, <1>3, <1>4, <2>1 DEF TypeOK
<1>11. Logs'
  <2>1. ASSUME NEW x \in Servers
        PROVE  LogHolds(top, clog, raft'[x], sm[x], disk[x])
    <3>1. LogHolds(top, clog, raft[x], sm[x], disk[x])
      BY <1>0 DEF Logs
    <3>2. CASE x # t
      BY <1>3, <3>1, <3>2
    <3>3. CASE x = t
      <4>1. sm[t].la.idx \in Nat /\ disk[t].la.idx \in Nat /\ Len(r.log) \in Nat
        BY <1>5, <1>6, StateFields, ServerFields
      <4>2. /\ Agree(r.log, clog, r.commit) /\ Agree(r.log, clog, sm[t].la.idx)
            /\ Agree(r.log, clog, disk[t].la.idx)
        BY <1>5, <1>6, <1>8, <1>9, <4>1, AgreeFewer
      <4>3. LogHolds(top, clog, r, sm[t], disk[t])
        BY <1>1, <1>5, <1>8, <4>2 DEF LogHolds, Elected
      <4> QED
        BY <1>3, <3>3, <4>3
    <3> QED
      BY <3>2, <3>3
  <2>2. \A x, y \in Servers :
          Elected(raft'[x]) /\ Elected(raft'[y])
            /\ raft'[x].term = raft'[y].term => x = y
    BY <1>0, <1>1, <1>3 DEF Logs, Elected
  <2> QED
    BY <1>2, <2>1, <2>2 DEF Logs
<1>12. StoresCorrect'
  BY <1>0, <1>2 DEF StoresCorrect
<1>13. Applying'
  <2> SUFFICES ASSUME NEW x \in Servers
               PROVE  ApplyingAt(raft'[x], sm[x], nai[x], x \notin restarted)
    BY <1>2 DEF Applying
  <2>1. ApplyingAt(raft[x], sm[x], nai[x], x \notin restarted)
    BY <1>0 DEF Applying
  <2>2. CASE x # t
    BY <1>3, <2>1, <2>2
  <2>3. CASE x = t
    <3>1. sm[t].la.idx \in Nat
      BY <1>5, StateFields
    <3>2. t \notin restarted => sm[t].la.idx <= r.commit
      BY <1>1, <1>6, <2>1, <2>3, <3>1 DEF ApplyingAt
    <3> QED
      BY <1>2, <1>3, <2>1, <2>3, <3>2 DEF ApplyingAt
  <2> QED
    BY <2>2, <2>3
<1>14. Acks'
  <2>1. \A x \in Servers : raft'[x].role = "leader" => raft'[x] = raft[x]
    BY <1>1, <1>3
  <2> QED
    BY <1>0, <1>2, <2>1 DEF Acks, Newest
<1>15. Workings'
  <2> SUFFICES ASSUME NEW x \in Servers
               PROVE  TermsPast(raft'[x].term, co'[x], pend[x], wk[x])
    BY <1>0, <1>2 DEF Workings
  <2>1. TermsPast(raft[x].term, co[x], pend[x], wk[x])
    BY <1>0 DEF Workings
  <2>2. CASE x # t
    BY <1>3, <1>4, <2>1, <2>2
  <2>3. CASE x = t
    <3>1. TermsPast(raft[t].term, b, pend[t], wk[t])
      BY <1>1, <2>1, <2>3 DEF TermsPast
    <3>2. /\ pend[t] \in [Clients -> Mark]
          /\ wk[t] \in [Workers -> Request \cup {Idle}]
      BY <1>0, Typed
    <3>3. TermsPast(top, b, pend[t], wk[t])
      BY <1>5, <1>6, <1>8, <3>1, <3>2, TermsPastGrow
    <3> QED
      BY <1>1, <1>3, <1>4, <2>3, <3>3
  <2> QED
    BY <2>2, <2>3
<1>16. ~late' => InTerm'
  <2> SUFFICES ASSUME InTerm PROVE InTerm'
    BY <1>2 DEF IndInv
  <2>1. ASSUME NEW x \in Servers
        PROVE  InTermAt(raft'[x], sm[x], co'[x], pend[x], wk[x])
    <3>0. InTermAt(raft[x], sm[x], co[x], pend[x], wk[x])
      BY DEF InTerm
    <3>1. CASE x # t
      BY <1>3, <1>4, <3>0, <3>1
    <3>2. CASE x = t
      <4>1. InTermAt(raft[t], sm[t], co[t], pend[t], wk[t])
        BY <3>0, <3>2
      <4>2. InOrder(All(r.log)) /\ Supplied(r.log)
        BY <1>1 DEF InTerm, InTermAt
      <4>3. ~Elected(r) /\ ~Active(r, sm[t])
        BY <1>1 DEF Active, Elected
      <4>4. /\ \A w \in Workers : Checked(wk[t][w]) => wk[t][w].term # top
            /\ \A i \in 1..Len(co[t].items) : co[t].items[i].term # top
            /\ \A c \in Clients : pend[t][c].term # top
        <5>1. CASE raft[t].term = top
          <6>1. ~Active(raft[t], sm[t])
            BY <1>0, <1>2, <5>1 DEF Logs, Active, Newest, Elected
          <6> QED
            BY <1>8, <4>1, <5>1, <6>1 DEF InTermAt, OfTheTerm
        <5>2. CASE raft[t].term # top
          <6>1. raft[t].term < top
            BY <1>5, <1>6, <1>8, <5>2
          <6>2. TermsPast(raft[t].term, co[t], pend[t], wk[t])
            BY <1>0 DEF Workings
          <6> QED
            BY <1>0, <1>5, <1>6, <6>1, <6>2, TermsOlder
        <5> QED
          BY <5>1, <5>2
      <4>5. OfTheTerm(r, sm[t], b, pend[t], wk[t])
        BY <1>1, <4>3, <4>4 DEF OfTheTerm
      <4>6. Fresh(b, top) => b.ws = CoOps(b)
        <5> SUFFICES ASSUME Fresh(b, top) PROVE b.ws = CoOps(b)
          OBVIOUS
        <5>1. 1..Len(b.items) = {}
          BY <1>1, <4>4 DEF Fresh
        <5>2. CoOps(b) = <<>>
          BY <5>1 DEF CoOps
        <5>3. Fresh(co[t], raft[t].term)
          BY <1>1, <5>1 DEF Fresh
        <5>4. co[t].ws = CoOps(co[t])
          BY <4>1, <5>3 DEF InTermAt, Queued
        <5>5. CoOps(co[t]) = CoOps(b)
          BY <1>1 DEF CoOps
        <5> QED
          BY <1>1, <5>2, <5>4, <5>5
      <4>7. Queued(r, sm[t], b, pend[t], wk[t])
        BY <1>1, <4>3, <4>6 DEF Queued
      <4>8. InTermAt(r, sm[t], b, pend[t], wk[t])
        BY <4>2, <4>5, <4>7 DEF InTermAt
      <4> QED
        BY <1>3, <1>4, <3>2, <4>8
    <3> QED
      BY <3>1, <3>2
  <2> QED
    BY <1>2, <2>1 DEF InTerm
<1> QED
  BY <1>10, <1>11, <1>12, <1>13, <1>14, <1>15, <1>16 DEF IndInv

(***************************************************************************)
(* Restarts.                                                               *)
(***************************************************************************)

\* An empty coalesced write is of every term.
LEMMA EmptyBuffer ==
  /\ NoCo \in Buffer /\ NoCo.items = <<>> /\ Len(NoCo.items) = 0
  /\ \A T : Fresh(NoCo, T)
  /\ CoOps(NoCo) = <<>> /\ NoCo.ws = <<>>
<1>1. NoCo.items = <<>> /\ NoCo.ws = <<>> /\ Len(<<>>) = 0
  BY DEF NoCo
<1>2. <<>> \in Seq(Item) /\ <<>> \in Ops
  BY DEF Ops
<1>3. NoCo \in Buffer
  BY <1>2 DEF NoCo, Buffer
<1>4. 1..Len(NoCo.items) = {}
  BY <1>1
<1>5. \A T : Fresh(NoCo, T)
  BY <1>4 DEF Fresh
<1>6. CoOps(NoCo) = <<>>
  BY <1>4 DEF CoOps
<1> QED
  BY <1>1, <1>3, <1>5, <1>6

\* Nothing is pending after a restart.
LEMMA NoPendType ==
  NoPend \in [Clients -> Mark] /\ \A c \in Clients : NoPend[c].term = 0
<1>1. [seq |-> 0, term |-> 0] \in Mark
  BY DEF Mark
<1> QED
  BY <1>1 DEF NoPend

\* A restart finds a correct state on disk and has nothing under way.
LEMMA RestartKeeps ==
  ASSUME IndInv, NEW s \in Servers, Restart(s)
  PROVE  IndInv'
<1>0. TypeOK /\ Logs /\ StoresCorrect /\ Applying /\ Acks /\ Workings
  BY DEF IndInv
<1> DEFINE idle == [w \in Workers |-> Idle]
<1>1. PICK st \in {sm[s], disk[s]} :
        sm' = [sm EXCEPT ![s] = st] /\ disk' = [disk EXCEPT ![s] = st]
  BY DEF Restart
<1>2. /\ raft' = [raft EXCEPT ![s] =
                    [@ EXCEPT !.role = "follower", !.initial = 0, !.commit = 0]]
      /\ co' = [co EXCEPT ![s] = NoCo] /\ pend' = [pend EXCEPT ![s] = NoPend]
      /\ wk' = [wk EXCEPT ![s] = idle] /\ nai' = [nai EXCEPT ![s] = Idle]
      /\ evp' = [evp EXCEPT ![s] = FALSE] /\ fatal' = [fatal EXCEPT ![s] = "none"]
      /\ restarted' = restarted \cup {s}
      /\ UNCHANGED <<top, clog, acked, stale, late, won>>
  BY DEF Restart
<1>3. /\ raft[s] \in Server /\ sm[s] \in State /\ disk[s] \in State
      /\ st \in State /\ top \in Nat /\ clog \in Log /\ Len(clog) \in Nat
      /\ raft \in [Servers -> Server]
  BY <1>0, Typed DEF TypeOK
<1>4. PICK r : r = raft'[s]
  OBVIOUS
<1>5. r = [raft[s] EXCEPT !.role = "follower", !.initial = 0, !.commit = 0]
  BY <1>2, <1>3, <1>4
<1>6. /\ r \in Server /\ r.role = "follower" /\ r.initial = 0 /\ r.commit = 0
      /\ r.term = raft[s].term /\ r.log = raft[s].log
  BY <1>3, <1>5 DEF Server
<1>7. /\ raft'[s] = r /\ \A x \in Servers : x # s => raft'[x] = raft[x]
      /\ raft' \in [Servers -> Server]
  <2>1. raft' = [raft EXCEPT ![s] = r]
    BY <1>2, <1>3, <1>4, ExceptSelf
  <2> QED
    BY <1>0, <1>6, <2>1, TypeRaft
<1> HIDE DEF idle
<1>8. /\ sm'[s] = st /\ disk'[s] = st /\ co'[s] = NoCo /\ pend'[s] = NoPend
      /\ wk'[s] = idle /\ nai'[s] = Idle /\ fatal'[s] = "none"
  BY <1>0, <1>1, <1>2 DEF TypeOK
<1>9. \A x \in Servers : x # s =>
        /\ sm'[x] = sm[x] /\ disk'[x] = disk[x] /\ co'[x] = co[x]
        /\ pend'[x] = pend[x] /\ wk'[x] = wk[x] /\ nai'[x] = nai[x]
        /\ fatal'[x] = fatal[x]
        /\ (x \in restarted' <=> x \in restarted)
  BY <1>0, <1>1, <1>2 DEF TypeOK
<1>10. TypeOK'
  <2>1. idle \in [Workers -> Request \cup {Idle}]
    BY DEF idle
  <2>2. sm' \in [Servers -> State] /\ disk' \in [Servers -> State]
    BY <1>0, <1>1, <1>3 DEF TypeOK
  <2>3. co' \in [Servers -> Buffer]
    BY <1>0, <1>2, EmptyBuffer DEF TypeOK
  <2>4. pend' \in [Servers -> [Clients -> Mark]]
    BY <1>0, <1>2, NoPendType DEF TypeOK
  <2>5. wk' \in [Servers -> [Workers -> Request \cup {Idle}]]
    BY <1>0, <1>2, <2>1 DEF TypeOK
  <2>6. nai' \in [Servers -> Applied \cup {Idle}]
    BY <1>0, <1>2 DEF TypeOK
  <2>7. evp' \in [Servers -> BOOLEAN]
    BY <1>0, <1>2 DEF TypeOK
  <2>8. /\ fatal' \in [Servers -> {"none", "commit_behind", "not_leader",
                                   "pending", "seqno", "handle"}]
        /\ restarted' \subseteq Servers
    BY <1>0, <1>2 DEF TypeOK
  <2> QED
    BY <1>0, <1>2, <1>7, <2>2, <2>3, <2>4, <2>5, <2>6, <2>7, <2>8 DEF TypeOK
<1>11. Logs'
  <2>1. ASSUME NEW x \in Servers
        PROVE  LogHolds(top, clog, raft'[x], sm'[x], disk'[x])
    <3>1. LogHolds(top, clog, raft[x], sm[x], disk[x])
      BY <1>0 DEF Logs
    <3>2. CASE x # s
      BY <1>7, <1>9, <3>1, <3>2
    <3>3. CASE x = s
      <4>1. Agree(r.log, clog, 0)
        <5>1. Len(r.log) \in Nat
          BY <1>6, ServerFields
        <5> QED
          BY <1>3, <5>1 DEF Agree
      <4>2. Agree(r.log, clog, st.la.idx)
        BY <1>6, <3>1, <3>3 DEF LogHolds
      <4>3. LogHolds(top, clog, r, st, st)
        BY <1>6, <3>1, <3>3, <4>1, <4>2 DEF LogHolds, Newest, Elected
      <4> QED
        BY <1>7, <1>8, <3>3, <4>3
    <3> QED
      BY <3>2, <3>3
  <2>2. \A x, y \in Servers :
          Elected(raft'[x]) /\ Elected(raft'[y])
            /\ raft'[x].term = raft'[y].term => x = y
    BY <1>0, <1>6, <1>7 DEF Logs, Elected
  <2> QED
    BY <1>2, <2>1, <2>2 DEF Logs
<1>12. StoresCorrect'
  <2> SUFFICES ASSUME NEW x \in Servers
               PROVE  /\ Correct(clog, sm'[x], x \notin restarted')
                      /\ Correct(clog, disk'[x], x \notin restarted')
    BY <1>2 DEF StoresCorrect
  <2>1. /\ Correct(clog, sm[x], x \notin restarted)
        /\ Correct(clog, disk[x], x \notin restarted)
    BY <1>0 DEF StoresCorrect
  <2>2. CASE x # s
    <3>1. (x \notin restarted') = (x \notin restarted)
      BY <1>9, <2>2
    <3> QED
      BY <1>9, <2>1, <2>2, <3>1
  <2>3. CASE x = s
    <3>1. ~(x \notin restarted')
      BY <1>2, <2>3
    <3>2. Correct(clog, st, FALSE)
      BY <2>1, <2>3 DEF Correct
    <3> QED
      BY <1>8, <2>3, <3>1, <3>2
  <2> QED
    BY <2>2, <2>3
<1>13. Applying'
  <2> SUFFICES ASSUME NEW x \in Servers
               PROVE  ApplyingAt(raft'[x], sm'[x], nai'[x], x \notin restarted')
    BY DEF Applying
  <2>1. ApplyingAt(raft[x], sm[x], nai[x], x \notin restarted)
    BY <1>0 DEF Applying
  <2>2. CASE x # s
    <3>1. (x \notin restarted') = (x \notin restarted)
      BY <1>9, <2>2
    <3> QED
      BY <1>7, <1>9, <2>1, <2>2, <3>1
  <2>3. CASE x = s
    <3>1. ~(x \notin restarted') /\ nai'[x] = Idle
      BY <1>2, <1>8, <2>3
    <3> QED
      BY <3>1 DEF ApplyingAt
  <2> QED
    BY <2>2, <2>3
<1>14. Acks'
  <2>1. \A x \in Servers : raft'[x].role = "leader" =>
          x # s /\ raft'[x] = raft[x] /\ sm'[x] = sm[x]
    BY <1>6, <1>7, <1>9
  <2>2. \A x \in Servers : Numbered(sm'[x]) /\ Numbered(disk'[x])
    <3>1. Numbered(st)
      BY <1>0 DEF Acks
    <3> QED
      BY <1>0, <1>8, <1>9, <3>1 DEF Acks
  <2> QED
    BY <1>0, <1>2, <2>1, <2>2 DEF Acks, Newest
<1>15. Workings'
  <2> SUFFICES ASSUME NEW x \in Servers
               PROVE  /\ Mutex(wk'[x])
                      /\ Explained(fatal'[x], wk'[x], late, x \in restarted')
                      /\ TermsPast(raft'[x].term, co'[x], pend'[x], wk'[x])
    BY <1>2 DEF Workings
  <2>1. /\ Mutex(wk[x])
        /\ Explained(fatal[x], wk[x], late, x \in restarted)
        /\ TermsPast(raft[x].term, co[x], pend[x], wk[x])
    BY <1>0 DEF Workings
  <2>2. CASE x # s
    <3>1. (x \in restarted') = (x \in restarted)
      BY <1>9, <2>2
    <3> QED
      BY <1>7, <1>9, <2>1, <2>2, <3>1
  <2>3. CASE x = s
    <3>1. \A w \in Workers : idle[w] = Idle /\ idle[w].pc = "idle"
      BY DEF idle, Idle
    <3>2. r.term \in Nat
      BY <1>6, ServerFields
    <3>3. TermsPast(r.term, NoCo, NoPend, idle)
      <4>1. 1..Len(NoCo.items) = {}
        BY EmptyBuffer
      <4>2. \A c \in Clients : NoPend[c].term <= r.term
        BY <3>2, NoPendType
      <4> QED
        BY <3>1, <4>1, <4>2 DEF TermsPast
    <3>4. Mutex(idle)
      BY <3>1 DEF Mutex
    <3>5. Explained("none", idle, late, x \in restarted')
      BY DEF Explained
    <3> QED
      BY <1>7, <1>8, <2>3, <3>3, <3>4, <3>5
  <2> QED
    BY <2>2, <2>3
<1>16. ~late' => InTerm'
  <2> SUFFICES ASSUME InTerm PROVE InTerm'
    BY <1>2 DEF IndInv
  <2>1. ASSUME NEW x \in Servers
        PROVE  InTermAt(raft'[x], sm'[x], co'[x], pend'[x], wk'[x])
    <3>0. InTermAt(raft[x], sm[x], co[x], pend[x], wk[x])
      BY DEF InTerm
    <3>1. CASE x # s
      BY <1>7, <1>9, <3>0, <3>1
    <3>2. CASE x = s
      <4>1. ~Elected(r) /\ ~Active(r, st)
        BY <1>6 DEF Elected, Active
      <4>2. \A w \in Workers : idle[w] = Idle
        BY DEF idle
      <4>3. 1..Len(NoCo.items) = {}
        BY EmptyBuffer
      <4>4. OfTheTerm(r, st, NoCo, NoPend, idle)
        BY <4>1, <4>2, <4>3, NoPendType DEF OfTheTerm, Checked, Idle
      <4>5. Queued(r, st, NoCo, NoPend, idle)
        BY <4>1, EmptyBuffer DEF Queued
      <4>6. InTermAt(r, st, NoCo, NoPend, idle)
        BY <1>6, <3>0, <3>2, <4>4, <4>5 DEF InTermAt
      <4> QED
        BY <1>7, <1>8, <3>2, <4>6
    <3> QED
      BY <3>1, <3>2
  <2> QED
    BY <1>2, <2>1 DEF InTerm
<1> QED
  BY <1>10, <1>11, <1>12, <1>13, <1>14, <1>15, <1>16 DEF IndInv

(***************************************************************************)
(* The writes under way.                                                   *)
(***************************************************************************)

\* Less is under way.
LEMMA InFlightShorter ==
  ASSUME NEW T, NEW st \in State, NEW p, NEW y \in Ops, NEW z \in Ops,
         InFlight(T, st, p, z), Begins(y, z)
  PROVE  InFlight(T, st, p, y)
<1>1. InOrder(y)
  BY InOrderBegins DEF InFlight
<1>2. Len(y) \in Nat /\ Len(z) \in Nat /\ Len(y) <= Len(z) /\ Len(st.app) \in Nat
  BY StateFields DEF Ops, Begins
<1>3. ASSUME NEW k \in Len(st.app) + 1 .. Len(y)
      PROVE  /\ p[y[k].c] = [seq |-> y[k].n, term |-> T]
             /\ y[k].n = AppSeq(st, y[k].c) + 1
  <2>1. k \in Len(st.app) + 1 .. Len(z) /\ k \in 1..Len(y)
    BY <1>2
  <2>2. y[k] = z[k]
    BY <2>1 DEF Begins
  <2> QED
    BY <2>1, <2>2 DEF InFlight
<1> QED
  BY <1>1, <1>3 DEF InFlight

\* The application takes a write of a client that has none pending.
LEMMA InFlightAccept ==
  ASSUME NEW T \in Nat, NEW st \in State, NEW p \in [Clients -> Mark],
         NEW z \in Ops, Begins(st.app, z), InFlight(T, st, p, z),
         NEW op \in Op, ~(p[op.c].term = T /\ p[op.c].seq # 0),
         op.n = AppSeq(st, op.c) + 1,
         NEW p2, p2 = [p EXCEPT ![op.c] = [seq |-> op.n, term |-> T]]
  PROVE  InFlight(T, st, p2, z) /\ InFlight(T, st, p2, Append(z, op))
<1>0. PICK m \in Nat : m = Len(st.app)
  BY StateFields
<1>1. PICK l \in Nat : l = Len(z)
  BY DEF Ops
<1>2. m <= l /\ \A i \in 1..m : st.app[i] = z[i]
  BY <1>0, <1>1 DEF Begins
<1>3. op.c \in Clients /\ op.n \in Nat /\ op.n # 0
  BY OpFields
<1>4. ASSUME NEW k \in (m + 1)..l
      PROVE  /\ p2[z[k].c] = [seq |-> z[k].n, term |-> T]
             /\ z[k].n = AppSeq(st, z[k].c) + 1
             /\ z[k].c # op.c
  <2>1. k \in 1..l
    BY <1>0, <1>1
  <2>2. z[k] \in Op
    BY <1>1, <2>1 DEF Ops
  <2>3. z[k].c \in Clients /\ z[k].n # 0
    BY <2>2, OpFields
  <2>4. /\ p[z[k].c] = [seq |-> z[k].n, term |-> T]
        /\ z[k].n = AppSeq(st, z[k].c) + 1
    BY <1>0, <1>1 DEF InFlight
  <2>5. z[k].c # op.c
    BY <2>3, <2>4
  <2>6. p2[z[k].c] = p[z[k].c]
    BY <2>3, <2>5
  <2> QED
    BY <2>4, <2>5, <2>6
<1>5. InFlight(T, st, p2, z)
  BY <1>0, <1>1, <1>4 DEF InFlight
<1>6. op.n = CountOf(z, l, op.c) + 1
  <2>1. st.app \in Ops
    BY StateFields
  <2>2. AppSeq(st, op.c) = CountOf(st.app, m, op.c)
    BY <1>0, <2>1, AppSeqIs
  <2>3. CountOf(st.app, m, op.c) = CountOf(z, m, op.c)
    BY <1>2, CountSame
  <2>4. CountOf(z, m, op.c) = CountOf(z, l, op.c)
    <3>1. \A i \in (m + 1)..l : z[i].c # op.c
      BY <1>4
    <3> QED
      BY <1>2, <3>1, CountSkip
  <2> QED
    BY <2>2, <2>3, <2>4
<1>7. InOrder(Append(z, op))
  BY <1>1, <1>6, InOrderAppend DEF InFlight
<1>8. PICK y : y = Append(z, op)
  OBVIOUS
<1>9. Len(y) = l + 1 /\ y[l + 1] = op /\ \A i \in 1..l : y[i] = z[i]
  BY <1>1, <1>8 DEF Ops
<1>10. ASSUME NEW k \in (m + 1)..(l + 1)
       PROVE  /\ p2[y[k].c] = [seq |-> y[k].n, term |-> T]
              /\ y[k].n = AppSeq(st, y[k].c) + 1
  <2>1. CASE k = l + 1
    BY <1>3, <1>9, <2>1
  <2>2. CASE k # l + 1
    <3>1. k \in (m + 1)..l /\ k \in 1..l
      BY <2>2
    <3> QED
      BY <1>4, <1>9, <3>1
  <2> QED
    BY <2>1, <2>2
<1>11. InFlight(T, st, p2, y)
  BY <1>0, <1>7, <1>8, <1>9, <1>10 DEF InFlight
<1> QED
  BY <1>5, <1>8, <1>11

\* The next write is applied.
LEMMA InFlightApply ==
  ASSUME NEW T \in Nat, NEW st \in State, NEW p \in [Clients -> Mark],
         NEW z \in Ops, InFlight(T, st, p, z),
         NEW op \in Op, Len(st.app) + 1 <= Len(z), z[Len(st.app) + 1] = op,
         NEW st2, st2.app = Append(st.app, op),
         NEW p2, \A c \in Clients : c # op.c => p2[c] = p[c]
  PROVE  InFlight(T, st2, p2, z)
<1>0. PICK m \in Nat : m = Len(st.app)
  BY StateFields
<1>1. PICK l \in Nat : l = Len(z)
  BY DEF Ops
<1>2. st.app \in Ops /\ Len(st2.app) = m + 1
  BY <1>0, StateFields DEF Ops
<1>3. m + 1 \in 1..l /\ m + 1 \in (m + 1)..l
  BY <1>0, <1>1
<1>4. op.n = AppSeq(st, op.c) + 1
  BY <1>0, <1>1, <1>3 DEF InFlight
<1>5. ASSUME NEW k \in (m + 2)..l
      PROVE  /\ p2[z[k].c] = [seq |-> z[k].n, term |-> T]
             /\ z[k].n = AppSeq(st2, z[k].c) + 1
  <2>1. k \in 1..l /\ k \in (m + 1)..l /\ m + 1 < k
    BY <1>0, <1>1
  <2>2. z[k] \in Op
    BY <1>1, <2>1 DEF Ops
  <2>3. z[k].c \in Clients /\ op.c \in Clients
    BY <2>2, OpFields
  <2>4. /\ p[z[k].c] = [seq |-> z[k].n, term |-> T]
        /\ z[k].n = AppSeq(st, z[k].c) + 1
    BY <1>0, <1>1, <2>1 DEF InFlight
  <2>5. z[k].c # op.c
    <3>1. SUFFICES ASSUME z[k].c = op.c PROVE FALSE
      OBVIOUS
    <3>2. z[m + 1].n # z[k].n
      BY <1>0, <1>1, <1>3, <2>1, <3>1, InOrderDistinct DEF InFlight
    <3> QED
      BY <1>0, <1>4, <2>4, <3>1, <3>2
  <2>6. AppSeq(st2, z[k].c) = AppSeq(st, z[k].c)
    BY <1>2, <2>5, AppSeqAppend
  <2>7. p2[z[k].c] = p[z[k].c]
    BY <2>3, <2>5
  <2> QED
    BY <2>4, <2>6, <2>7
<1>6. \A k \in Len(st2.app) + 1 .. Len(z) : k \in (m + 2)..l
  BY <1>1, <1>2
<1> QED
  BY <1>5, <1>6 DEF InFlight

\* The writes of the coalesced write
LEMMA CoOpsType ==
  ASSUME NEW b \in Buffer
  PROVE  CoOps(b) \in Ops
<1>1. /\ Len(b.items) \in Nat
      /\ \A i \in 1..Len(b.items) : b.items[i].op \in Op
  BY BufferFields
<1> QED
  BY <1>1 DEF CoOps, Ops

\* The log and the coalesced write
LEMMA QueueType ==
  ASSUME NEW r \in Server, NEW b \in Buffer
  PROVE  /\ Queue(r, b) \in Ops /\ All(r.log) \in Ops
         /\ Begins(All(r.log), Queue(r, b))
         /\ Fresh(b, r.term) => Queue(r, b) = All(r.log) \o CoOps(b)
         /\ ~Fresh(b, r.term) => Queue(r, b) = All(r.log)
<1>1. r.log \in Log /\ Len(r.log) \in Nat
  BY ServerFields
<1>2. All(r.log) \in Ops
  BY <1>1, FlatType DEF All
<1>3. PICK y \in Ops : y = IF Fresh(b, r.term) THEN CoOps(b) ELSE <<>>
  <2>1. <<>> \in Ops
    BY DEF Ops
  <2> QED
    BY <2>1, CoOpsType
<1>4. Queue(r, b) = All(r.log) \o y
  BY <1>3 DEF Queue
<1>5. All(r.log) \o y \in Ops
  BY <1>2 DEF Ops
<1>6. Begins(All(r.log), All(r.log) \o y)
  BY <1>2, BeginsConcat DEF Ops
<1> QED
  BY <1>2, <1>3, <1>4, <1>5, <1>6, ConcatEmpty

\* What is applied is where the log begins.
LEMMA AppliedInLog ==
  ASSUME NEW L \in Log, NEW M \in Log, NEW st \in State, NEW known,
         Correct(L, st, known), Agree(M, L, st.la.idx)
  PROVE  /\ Begins(st.app, Flat(M, st.la.idx))
         /\ Begins(st.app, All(M))
         /\ Flat(M, st.la.idx) \in Ops /\ All(M) \in Ops
<1>0. /\ st.la \in Applied /\ st.la.idx \in Nat /\ st.app \in Ops
      /\ Len(M) \in Nat /\ st.la.idx <= Len(M)
  BY StateFields DEF Agree, Log
<1>1. Begins(Upto(L, st.la), Flat(L, st.la.idx))
  BY <1>0, UptoBetween DEF Correct
<1>2. Flat(M, st.la.idx) = Flat(L, st.la.idx)
  BY <1>0, AgreeFlat
<1>3. Begins(st.app, Flat(M, st.la.idx))
  BY <1>1, <1>2 DEF Correct
<1>4. Flat(M, st.la.idx) \in Ops /\ All(M) \in Ops
  BY <1>0, FlatType DEF All
<1>5. Begins(Flat(M, st.la.idx), All(M))
  BY <1>0, FlatBegins DEF All
<1> QED
  BY <1>0, <1>3, <1>4, <1>5, BeginsTrans DEF Ops

\* What is under way continues what is applied.
LEMMA AppliedInQueue ==
  ASSUME TypeOK, Logs, StoresCorrect, NEW s \in Servers
  PROVE  /\ Begins(sm[s].app, Queue(raft[s], co[s]))
         /\ Begins(sm[s].app, All(raft[s].log))
<1>1. /\ raft[s] \in Server /\ co[s] \in Buffer /\ sm[s] \in State
      /\ clog \in Log
  BY Typed
<1>2. raft[s].log \in Log /\ sm[s].app \in Ops
  BY <1>1, ServerFields, StateFields
<1>3. /\ Correct(clog, sm[s], s \notin restarted)
      /\ Agree(raft[s].log, clog, sm[s].la.idx)
  BY DEF StoresCorrect, Logs, LogHolds
<1>4. Begins(sm[s].app, All(raft[s].log)) /\ All(raft[s].log) \in Ops
  BY <1>1, <1>2, <1>3, AppliedInLog
<1>5. /\ Queue(raft[s], co[s]) \in Ops
      /\ Begins(All(raft[s].log), Queue(raft[s], co[s]))
  BY <1>1, QueueType
<1> QED
  BY <1>2, <1>4, <1>5, BeginsTrans DEF Ops

\* A committed write before the newest leader's marker is one of its log.
LEMMA CommittedBefore ==
  ASSUME TypeOK, Logs, NEW x \in Servers, Newest(top, raft[x]),
         NEW n \in Nat, n <= Len(clog), n <= raft[x].initial
  PROVE  ToSet(Flat(clog, n)) \subseteq ToSet(Flat(raft[x].log, raft[x].initial))
<1>1. /\ raft[x] \in Server /\ clog \in Log /\ Len(clog) \in Nat
  BY Typed
<1>2. /\ raft[x].log \in Log /\ raft[x].initial \in Nat
      /\ Len(raft[x].log) \in Nat
  BY <1>1, ServerFields
<1>3. LogHolds(top, clog, raft[x], sm[x], disk[x])
  BY DEF Logs
<1>4. Agree(raft[x].log, clog, Len(clog)) /\ raft[x].initial <= Len(raft[x].log)
  BY <1>2, <1>3 DEF LogHolds, Newest, Elected
<1>5. Agree(raft[x].log, clog, n)
  BY <1>1, <1>2, <1>4, AgreeFewer
<1>6. Flat(raft[x].log, n) = Flat(clog, n)
  BY <1>5, AgreeFlat
<1>7. Begins(Flat(raft[x].log, n), Flat(raft[x].log, raft[x].initial))
  BY <1>2, <1>4, FlatBegins
<1>8. Flat(raft[x].log, n) \in Ops /\ Flat(raft[x].log, raft[x].initial) \in Ops
  BY <1>2, <1>4, <1>5, FlatType DEF Agree
<1> QED
  BY <1>6, <1>7, <1>8, BeginsSet DEF Ops

\* What a leader has applied may be answered.
LEMMA MayAnswer ==
  ASSUME TypeOK, Logs, Acks, NEW s \in Servers, raft[s].role = "leader",
         NEW n \in Nat, n <= Len(clog),
         \A x \in Servers :
           Newest(top, raft[x]) /\ x # s => n <= raft[x].initial,
         NEW op \in ToSet(Flat(clog, n)), NEW st,
         ToSet(sm[s].app) \subseteq ToSet(st.app), op \in ToSet(st.app)
  PROVE  /\ acked \cup {op} \subseteq ToSet(All(clog))
         /\ \A x \in Servers : Newest(top, raft[x]) =>
              HasAnswered(acked \cup {op}, raft[x],
                          IF x = s THEN st ELSE sm[x])
<1>1. clog \in Log /\ Len(clog) \in Nat
  BY Typed
<1>2. op \in ToSet(All(clog))
  <2>1. Begins(Flat(clog, n), Flat(clog, Len(clog)))
    BY <1>1, FlatBegins
  <2>2. Flat(clog, n) \in Ops /\ Flat(clog, Len(clog)) \in Ops
    BY <1>1, FlatType
  <2> QED
    BY <2>1, <2>2, BeginsSet DEF Ops, All
<1>3. ASSUME NEW x \in Servers, Newest(top, raft[x])
      PROVE  HasAnswered(acked \cup {op}, raft[x], IF x = s THEN st ELSE sm[x])
  <2>1. HasAnswered(acked, raft[x], sm[x])
    BY <1>3 DEF Acks
  <2>2. CASE x = s
    BY <2>1, <2>2 DEF HasAnswered
  <2>3. CASE x # s
    <3>1. n <= raft[x].initial
      BY <1>3, <2>3
    <3>2. ToSet(Flat(clog, n)) \subseteq ToSet(Flat(raft[x].log, raft[x].initial))
      BY <1>3, <3>1, CommittedBefore
    <3> QED
      BY <2>1, <2>3, <3>2 DEF HasAnswered
  <2> QED
    BY <2>2, <2>3
<1> QED
  BY <1>2, <1>3 DEF Acks

(***************************************************************************)
(* The handlers of the workers.                                            *)
(***************************************************************************)

\* One worker moves.
LEMMA GotoIs ==
  ASSUME TypeOK, NEW s \in Servers, NEW w \in Workers,
         NEW q \in Request \cup {Idle}, Goto(s, w, q)
  PROVE  /\ wk' \in [Servers -> [Workers -> Request \cup {Idle}]]
         /\ wk'[s][w] = q
         /\ \A v \in Workers : v # w => wk'[s][v] = wk[s][v]
         /\ \A x \in Servers : x # s => wk'[x] = wk[x]
<1>1. wk \in [Servers -> [Workers -> Request \cup {Idle}]]
  BY DEF TypeOK
<1>2. wk' = [wk EXCEPT ![s] = [wk[s] EXCEPT ![w] = q]]
  BY DEF Goto
<1>3. PICK f : f = [wk[s] EXCEPT ![w] = q]
  OBVIOUS
<1>4. wk[s] \in [Workers -> Request \cup {Idle}]
  BY <1>1
<1>5. /\ f \in [Workers -> Request \cup {Idle}] /\ f[w] = q
      /\ \A v \in Workers : v # w => f[v] = wk[s][v]
  BY <1>3, <1>4
<1>6. wk' = [wk EXCEPT ![s] = f]
  BY <1>2, <1>3
<1>7. wk'[s] = f /\ \A x \in Servers : x # s => wk'[x] = wk[x]
  BY <1>1, <1>6
<1>8. wk' \in [Servers -> [Workers -> Request \cup {Idle}]]
  BY <1>1, <1>5, <1>6
<1> QED
  BY <1>5, <1>7, <1>8

\* A worker comes to a place other than the write.
LEMMA WorkerMoves ==
  ASSUME NEW ws, NEW ws2, NEW w \in Workers, ws2[w].pc # "write",
         \A v \in Workers : v # w => ws2[v] = ws[v]
  PROVE  /\ Mutex(ws) => Mutex(ws2)
         /\ \A r, st, b, p : Queued(r, st, b, p, ws) => Queued(r, st, b, p, ws2)
<1>1. \A v \in Workers : ws2[v].pc = "write" => ws2[v] = ws[v]
  OBVIOUS
<1>2. Mutex(ws) => Mutex(ws2)
  BY <1>1 DEF Mutex
<1>3. ASSUME NEW r, NEW st, NEW b, NEW p, Queued(r, st, b, p, ws)
      PROVE  Queued(r, st, b, p, ws2)
  BY <1>1, <1>3 DEF Queued
<1> QED
  BY <1>2, <1>3

\* A server that accepts requests has applied its marker.
LEMMA MayAcceptActive ==
  ASSUME ~SeenInInit, NEW s, MayAccept(s)
  PROVE  /\ raft[s].role = "leader" /\ sm[s].la.idx > raft[s].initial
         /\ Active(raft[s], sm[s])
BY DEF MayAccept, Active, Elected

\* A worker takes a request, or comes to the mutex after the check of
\* leadership, or gives its request up.
LEMMA HandleMoves ==
  ASSUME IndInv, NEW s \in Servers, NEW w \in Workers,
         NEW q \in Request \cup {Idle}, Goto(s, w, q), q.pc # "write",
         q # Idle => q.term <= raft[s].term,
         q.pc = "lock" => Active(raft[s], sm[s]),
         fatal[s] = "none", won' \subseteq won,
         UNCHANGED <<top, clog, raft, co, sm, pend, disk, nai, evp, fatal, acked,
                     stale, late, restarted>>
  PROVE  IndInv'
<1>0. TypeOK /\ Logs /\ StoresCorrect /\ Applying /\ Acks /\ Workings
  BY DEF IndInv
<1>6. /\ wk' \in [Servers -> [Workers -> Request \cup {Idle}]]
      /\ wk'[s][w] = q
      /\ \A v \in Workers : v # w => wk'[s][v] = wk[s][v]
      /\ \A x \in Servers : x # s => wk'[x] = wk[x]
  BY <1>0, GotoIs
<1>7. Checked(q) => Active(raft[s], sm[s])
  BY DEF Checked
<1>10. TypeOK'
  <2>1. won' \subseteq Servers \X Workers
    BY <1>0 DEF TypeOK
  <2> QED
    BY <1>0, <1>6, <2>1 DEF TypeOK
<1>11. Logs' /\ StoresCorrect' /\ Applying' /\ Acks'
  BY <1>0 DEF Logs, StoresCorrect, Applying, Acks
<1>15. Workings'
  <2> SUFFICES ASSUME NEW x \in Servers
               PROVE  /\ Mutex(wk'[x])
                      /\ Explained(fatal[x], wk'[x], late, x \in restarted)
                      /\ TermsPast(raft[x].term, co[x], pend[x], wk'[x])
    BY DEF Workings
  <2>1. /\ Mutex(wk[x])
        /\ Explained(fatal[x], wk[x], late, x \in restarted)
        /\ TermsPast(raft[x].term, co[x], pend[x], wk[x])
    BY <1>0 DEF Workings
  <2>2. CASE x # s
    BY <1>6, <2>1, <2>2
  <2>3. CASE x = s
    <3>1. Mutex(wk'[s])
      BY <1>6, <2>1, <2>3, WorkerMoves
    <3>2. Explained(fatal[s], wk'[s], late, s \in restarted)
      BY DEF Explained
    <3>3. TermsPast(raft[s].term, co[s], pend[s], wk'[s])
      BY <1>6, <2>1, <2>3 DEF TermsPast
    <3> QED
      BY <2>3, <3>1, <3>2, <3>3
  <2> QED
    BY <2>2, <2>3
<1>16. ~late' => InTerm'
  <2> SUFFICES ASSUME InTerm PROVE InTerm'
    BY DEF IndInv
  <2>1. ASSUME NEW x \in Servers
        PROVE  InTermAt(raft[x], sm[x], co[x], pend[x], wk'[x])
    <3>0. InTermAt(raft[x], sm[x], co[x], pend[x], wk[x])
      BY DEF InTerm
    <3>1. CASE x # s
      BY <1>6, <3>0, <3>1
    <3>2. CASE x = s
      <4>1. OfTheTerm(raft[s], sm[s], co[s], pend[s], wk'[s])
        BY <1>6, <1>7, <3>0, <3>2 DEF InTermAt, OfTheTerm
      <4>2. Queued(raft[s], sm[s], co[s], pend[s], wk'[s])
        BY <1>6, <3>0, <3>2, WorkerMoves DEF InTermAt
      <4> QED
        BY <3>0, <3>2, <4>1, <4>2 DEF InTermAt
    <3> QED
      BY <3>1, <3>2
  <2> QED
    BY <2>1 DEF InTerm
<1> QED
  BY <1>10, <1>11, <1>15, <1>16 DEF IndInv

\* raft_server_net_client_request_init()
LEMMA RequestInitKeeps ==
  ASSUME IndInv, NEW s \in Servers, NEW w \in Workers, RequestInit(s, w)
  PROVE  IndInv'
<1>1. raft[s].term \in Nat
  BY Typed, ServerFields DEF IndInv
<1>2. PICK op \in Op :
        Goto(s, w, [pc |-> "check", op |-> op, term |-> raft[s].term,
                    leader |-> raft[s].role = "leader"])
  BY DEF RequestInit
<1>3. PICK q : q = [pc |-> "check", op |-> op, term |-> raft[s].term,
                    leader |-> raft[s].role = "leader"]
  OBVIOUS
<1>4. /\ q \in Request \cup {Idle} /\ q.pc = "check"
      /\ q.term <= raft[s].term
  BY <1>1, <1>3 DEF Request
<1>5. /\ fatal[s] = "none"
      /\ UNCHANGED <<top, clog, raft, co, sm, pend, disk, nai, evp, fatal, acked,
                     stale, late, restarted>>
      /\ won' \subseteq won
  BY DEF RequestInit, Worker, Up
<1> QED
  BY <1>2, <1>3, <1>4, <1>5, HandleMoves

\* raft_server_client_rncr_prepare()
LEMMA PrepareWriteKeeps ==
  ASSUME ~SeenInInit, IndInv, NEW s \in Servers, NEW w \in Workers,
         PrepareWrite(s, w)
  PROVE  IndInv'
<1>1. /\ fatal[s] = "none" /\ wk[s][w].pc = "check"
      /\ UNCHANGED <<top, clog, raft, co, sm, pend, disk, nai, evp, fatal, acked,
                     stale, late, restarted>>
      /\ won' \subseteq won
  BY DEF PrepareWrite, Worker, Up, hist
<1>2. CASE Goto(s, w, Idle)
  <2>1. Idle \in Request \cup {Idle} /\ Idle.pc = "idle"
    BY DEF Idle
  <2> QED
    BY <1>1, <1>2, <2>1, HandleMoves
<1>3. CASE MayAccept(s) /\ Goto(s, w, [wk[s][w] EXCEPT !.pc = "lock"])
  <2>1. /\ wk[s] \in [Workers -> Request \cup {Idle}]
        /\ TermsPast(raft[s].term, co[s], pend[s], wk[s])
    BY Typed DEF IndInv, Workings
  <2>2. wk[s][w] \in Request /\ wk[s][w] # Idle
    BY <1>1, <2>1, RequestFields DEF Idle
  <2>3. PICK q : q = [wk[s][w] EXCEPT !.pc = "lock"]
    OBVIOUS
  <2>4. q \in Request /\ q.pc = "lock" /\ q.term = wk[s][w].term
    BY <2>2, <2>3 DEF Request
  <2>5. q.term <= raft[s].term
    BY <2>1, <2>2, <2>4 DEF TermsPast
  <2>6. Active(raft[s], sm[s])
    BY <1>3, MayAcceptActive
  <2> QED
    BY <1>1, <1>3, <2>3, <2>4, <2>5, <2>6, HandleMoves
<1> QED
  BY <1>2, <1>3 DEF PrepareWrite

\* The application gets a handle that is not a leader's.
LEMMA HandleFailsKeeps ==
  ASSUME IndInv, NEW s \in Servers, NEW w \in Workers, HandleFails(s, w)
  PROVE  IndInv'
<1>0. TypeOK /\ Logs /\ StoresCorrect /\ Applying /\ Acks /\ Workings
  BY DEF IndInv
<1>1. /\ fatal' = [fatal EXCEPT ![s] = "handle"]
      /\ UNCHANGED <<top, clog, raft, co, sm, pend, disk, wk, nai, evp, acked,
                     stale, late, restarted, won>>
  BY DEF HandleFails, Abort, hist
<1>2. TypeOK'
  <2>1. fatal' \in [Servers -> {"none", "commit_behind", "not_leader", "pending",
                               "seqno", "handle"}]
    BY <1>0, <1>1 DEF TypeOK
  <2> QED
    BY <1>0, <1>1, <2>1 DEF TypeOK
<1>3. Logs' /\ StoresCorrect' /\ Applying' /\ Acks'
  BY <1>0, <1>1 DEF Logs, StoresCorrect, Applying, Acks
<1>4. Workings'
  <2> SUFFICES ASSUME NEW x \in Servers
               PROVE  Explained(fatal'[x], wk[x], late, x \in restarted)
    BY <1>0, <1>1 DEF Workings
  <2>1. Explained(fatal[x], wk[x], late, x \in restarted)
    BY <1>0 DEF Workings
  <2>2. fatal'[x] = fatal[x] \/ fatal'[x] = "handle"
    BY <1>0, <1>1 DEF TypeOK
  <2> QED
    BY <2>1, <2>2 DEF Explained
<1>5. ~late' => InTerm'
  BY <1>1 DEF InTerm, IndInv
<1> QED
  BY <1>2, <1>3, <1>4, <1>5 DEF IndInv

\* A read of the newest leader sees what was answered.
LEMMA ReadKeeps ==
  ASSUME ~SeenInInit, IndInv, NEW s \in Servers, NEW w \in Workers, Read(s, w)
  PROVE  IndInv'
<1>0. TypeOK /\ Logs /\ StoresCorrect /\ Applying /\ Acks /\ Workings
  BY DEF IndInv
<1>1. /\ MayAccept(s)
      /\ UNCHANGED <<top, clog, raft, co, sm, pend, disk, wk, nai, evp, fatal,
                     acked, late, restarted, won>>
  BY DEF Read
<1>2. ASSUME raft[s].term >= top PROVE acked \subseteq ToSet(sm[s].app)
  <2>0. /\ raft[s].role = "leader" /\ sm[s].la.idx > raft[s].initial
        /\ raft[s].term <= top /\ raft[s].term \in Nat /\ top \in Nat
    BY <1>0, <1>1, MayAcceptActive, Typed, ServerFields
       DEF Logs, LogHolds, Elected
  <2>1. Newest(top, raft[s]) /\ sm[s].la.idx > raft[s].initial
    BY <1>2, <2>0 DEF Newest
  <2>2. /\ raft[s] \in Server /\ sm[s] \in State /\ clog \in Log
    BY <1>0, Typed
  <2>3. /\ raft[s].log \in Log /\ raft[s].initial \in Nat
        /\ sm[s].la \in Applied /\ sm[s].la.idx \in Nat /\ sm[s].app \in Ops
    BY <2>2, ServerFields, StateFields
  <2>4. /\ Correct(clog, sm[s], s \notin restarted)
        /\ Agree(raft[s].log, clog, sm[s].la.idx)
    BY <1>0 DEF StoresCorrect, Logs, LogHolds
  <2>5. PICK i \in Nat : i = raft[s].initial
    BY <2>3
  <2>6. PICK n \in Nat : n = sm[s].la.idx - 1 /\ i <= n
    BY <2>1, <2>3, <2>5
  <2>7. n <= sm[s].la.idx /\ sm[s].la.idx <= Len(clog) /\ Len(clog) \in Nat
        /\ n <= Len(clog) /\ i <= sm[s].la.idx /\ i <= Len(clog)
    BY <2>2, <2>3, <2>4, <2>6 DEF Agree, Log
  <2>8. Flat(raft[s].log, i) = Flat(clog, i)
    <3>1. \A k \in 1..i : raft[s].log[k] = clog[k]
      BY <2>3, <2>4, <2>7 DEF Agree
    <3> QED
      BY <3>1, FlatSame
  <2>9. Begins(Flat(clog, i), Flat(clog, n))
    BY <2>2, <2>6, <2>7, FlatBegins
  <2>10. Begins(Flat(clog, n), sm[s].app)
    BY <2>2, <2>3, <2>4, <2>6, UptoBetween DEF Correct
  <2>11. Flat(clog, i) \in Ops /\ Flat(clog, n) \in Ops
    BY <2>2, <2>7, FlatType
  <2>12. ToSet(Flat(clog, i)) \subseteq ToSet(sm[s].app)
    BY <2>3, <2>9, <2>10, <2>11, BeginsTrans, BeginsSet DEF Ops
  <2>13. HasAnswered(acked, raft[s], sm[s])
    BY <1>0, <2>1 DEF Acks
  <2> QED
    BY <2>5, <2>8, <2>12, <2>13 DEF HasAnswered
<1>3. ~stale' /\ stale' \in BOOLEAN
  <2>1. ~stale
    BY <1>0 DEF Acks
  <2>2. stale' = (stale \/ /\ raft[s].term >= top
                           /\ ~(acked \subseteq ToSet(sm[s].app)))
    BY DEF Read
  <2> QED
    BY <1>2, <2>1, <2>2
<1>4. TypeOK'
  BY <1>0, <1>1, <1>3 DEF TypeOK
<1>5. Logs' /\ StoresCorrect' /\ Applying'
  BY <1>0, <1>1 DEF Logs, StoresCorrect, Applying
<1>6. Acks'
  BY <1>0, <1>1, <1>3 DEF Acks
<1>7. Workings'
  BY <1>0, <1>1 DEF Workings
<1>8. ~late' => InTerm'
  BY <1>1 DEF InTerm, IndInv
<1> QED
  BY <1>4, <1>5, <1>6, <1>7, <1>8 DEF IndInv

\* Nothing to apply
LEMMA ApplyReturnsKeeps ==
  ASSUME IndInv, NEW s \in Servers, ApplyReturns(s)
  PROVE  IndInv'
<1>0. TypeOK /\ Logs /\ StoresCorrect /\ Applying /\ Acks /\ Workings
  BY DEF IndInv
<1>1. /\ fatal[s] = "none"
      /\ UNCHANGED <<top, clog, raft, co, sm, pend, disk, wk, nai, acked, stale,
                     late, restarted, won>>
      /\ \/ /\ sm[s].la.idx > raft[s].commit
            /\ fatal' = [fatal EXCEPT ![s] = "commit_behind"] /\ evp' = evp
         \/ evp' = [evp EXCEPT ![s] = FALSE] /\ fatal' = fatal
  BY DEF ApplyReturns, MainIdle, Up, Abort, hist
<1>2. sm[s].la.idx > raft[s].commit => s \in restarted
  <2>1. sm[s].la.idx \in Nat /\ raft[s].commit \in Nat
    BY <1>0, Typed, ServerFields, StateFields
  <2> QED
    BY <1>0, <2>1 DEF Applying, ApplyingAt
<1>3. TypeOK'
  <2>1. /\ evp' \in [Servers -> BOOLEAN]
        /\ fatal' \in [Servers -> {"none", "commit_behind", "not_leader",
                                   "pending", "seqno", "handle"}]
    BY <1>0, <1>1 DEF TypeOK
  <2> QED
    BY <1>0, <1>1, <2>1 DEF TypeOK
<1>4. Logs' /\ StoresCorrect' /\ Applying' /\ Acks'
  BY <1>0, <1>1 DEF Logs, StoresCorrect, Applying, Acks
<1>5. Workings'
  <2> SUFFICES ASSUME NEW x \in Servers
               PROVE  Explained(fatal'[x], wk[x], late, x \in restarted)
    BY <1>0, <1>1 DEF Workings
  <2>1. Explained(fatal[x], wk[x], late, x \in restarted)
    BY <1>0 DEF Workings
  <2>2. fatal'[x] = fatal[x] \/ (x = s /\ fatal'[x] = "commit_behind"
                                 /\ s \in restarted)
    BY <1>0, <1>1, <1>2 DEF TypeOK
  <2> QED
    BY <2>1, <2>2 DEF Explained
<1>6. ~late' => InTerm'
  BY <1>1 DEF InTerm, IndInv
<1> QED
  BY <1>3, <1>4, <1>5, <1>6 DEF IndInv

\* A write that the application answers
LEMMA WriteAnsweredKeeps ==
  ASSUME ~SeenInInit, IndInv, NEW s \in Servers, NEW w \in Workers, WriteAnswered(s, w)
  PROVE  IndInv'
<1>0. TypeOK /\ Logs /\ StoresCorrect /\ Applying /\ Acks /\ Workings
  BY DEF IndInv
<1>1. /\ fatal[s] = "none" /\ wk[s][w].pc = "lock" /\ Goto(s, w, Idle)
      /\ \/ acked' = acked
         \/ /\ SmAlready(s, wk[s][w]) /\ MayAccept(s)
            /\ acked' = acked \cup {wk[s][w].op}
      /\ UNCHANGED <<top, clog, raft, co, sm, pend, disk, nai, evp, fatal, stale,
                     late, restarted, won>>
  BY DEF WriteAnswered, Worker, Up, ReplyToClient
<1>2. Idle \in Request \cup {Idle} /\ Idle.pc = "idle"
  BY DEF Idle
<1>3. /\ wk' \in [Servers -> [Workers -> Request \cup {Idle}]]
      /\ wk'[s][w] = Idle
      /\ \A v \in Workers : v # w => wk'[s][v] = wk[s][v]
      /\ \A x \in Servers : x # s => wk'[x] = wk[x]
  BY <1>0, <1>1, <1>2, GotoIs
<1>4. PICK q : q = wk[s][w]
  OBVIOUS
<1>5. q \in Request \cup {Idle} /\ q.op \in Op
  <2>1. q \in Request \cup {Idle}
    BY <1>0, <1>4, Typed
  <2> QED
    BY <1>1, <1>4, <2>1, RequestFields
<1>6. Logs' /\ StoresCorrect' /\ Applying'
  BY <1>0, <1>1 DEF Logs, StoresCorrect, Applying
<1>7. Acks'
  <2>1. CASE acked' = acked
    BY <1>0, <1>1, <2>1 DEF Acks
  <2>2. CASE /\ SmAlready(s, q) /\ MayAccept(s) /\ acked' = acked \cup {q.op}
    <3>1. sm[s] \in State /\ clog \in Log
      BY <1>0, Typed
    <3>2. sm[s].app \in Ops /\ sm[s].la.idx \in Nat
      BY <3>1, StateFields
    <3>3. q.op.c \in Clients /\ q.op.n \in Nat /\ q.op.n >= 1
      BY <1>5, OpFields
    <3>4. AppSeq(sm[s], q.op.c) \in Nat
      BY <3>2, AppSeqIs
    <3>5. q.op.n \in 1..AppSeq(sm[s], q.op.c)
      BY <2>2, <3>3, <3>4 DEF SmAlready
    <3>6. [c |-> q.op.c, n |-> q.op.n] \in ToSet(sm[s].app)
      BY <1>0, <3>3, <3>5 DEF Acks, Numbered
    <3>7. q.op = [c |-> q.op.c, n |-> q.op.n]
      BY <1>5 DEF Op
    <3>8. q.op \in ToSet(sm[s].app)
      BY <3>6, <3>7
    <3>9. /\ Correct(clog, sm[s], s \notin restarted)
          /\ sm[s].la.idx <= Len(clog)
      BY <1>0 DEF StoresCorrect, Correct, Place
    <3>10. Agree(clog, clog, sm[s].la.idx)
      BY <3>9 DEF Agree
    <3>11. Begins(sm[s].app, Flat(clog, sm[s].la.idx))
           /\ Flat(clog, sm[s].la.idx) \in Ops
      BY <3>1, <3>9, <3>10, AppliedInLog
    <3>12. q.op \in ToSet(Flat(clog, sm[s].la.idx))
      BY <3>2, <3>8, <3>11, BeginsSet DEF Ops
    <3>13. raft[s].role = "leader"
      BY <2>2, MayAcceptActive
    <3>14. \A x \in Servers :
             Newest(top, raft[x]) /\ x # s => sm[s].la.idx <= raft[x].initial
      BY <1>0, <3>13 DEF Acks, Behind
    <3>15. /\ acked \cup {q.op} \subseteq ToSet(All(clog))
           /\ \A x \in Servers : Newest(top, raft[x]) =>
                HasAnswered(acked \cup {q.op}, raft[x],
                            IF x = s THEN sm[s] ELSE sm[x])
      BY <1>0, <3>2, <3>8, <3>9, <3>12, <3>13, <3>14, MayAnswer
    <3>16. \A x \in Servers : Newest(top, raft[x]) =>
             HasAnswered(acked', raft[x], sm[x])
      BY <2>2, <3>15
    <3> QED
      BY <1>0, <1>1, <2>2, <3>15, <3>16 DEF Acks
  <2> QED
    BY <1>1, <1>4, <2>1, <2>2
<1>8. TypeOK'
  <2>1. acked' \subseteq Op
    BY <1>0, <1>1, <1>4, <1>5 DEF TypeOK
  <2> QED
    BY <1>0, <1>1, <1>3, <2>1 DEF TypeOK
<1>9. Workings'
  <2> SUFFICES ASSUME NEW x \in Servers
               PROVE  /\ Mutex(wk'[x])
                      /\ Explained(fatal[x], wk'[x], late, x \in restarted)
                      /\ TermsPast(raft[x].term, co[x], pend[x], wk'[x])
    BY <1>1 DEF Workings
  <2>1. /\ Mutex(wk[x])
        /\ Explained(fatal[x], wk[x], late, x \in restarted)
        /\ TermsPast(raft[x].term, co[x], pend[x], wk[x])
    BY <1>0 DEF Workings
  <2>2. CASE x # s
    BY <1>3, <2>1, <2>2
  <2>3. CASE x = s
    <3>1. Mutex(wk'[s])
      BY <1>2, <1>3, <2>1, <2>3, WorkerMoves
    <3>2. Explained(fatal[s], wk'[s], late, s \in restarted)
      BY <1>1 DEF Explained
    <3>3. TermsPast(raft[s].term, co[s], pend[s], wk'[s])
      BY <1>3, <2>1, <2>3 DEF TermsPast
    <3> QED
      BY <2>3, <3>1, <3>2, <3>3
  <2> QED
    BY <2>2, <2>3
<1>10. ~late' => InTerm'
  <2> SUFFICES ASSUME InTerm PROVE InTerm'
    BY <1>1 DEF IndInv
  <2>1. ASSUME NEW x \in Servers
        PROVE  InTermAt(raft[x], sm[x], co[x], pend[x], wk'[x])
    <3>0. InTermAt(raft[x], sm[x], co[x], pend[x], wk[x])
      BY DEF InTerm
    <3>1. CASE x # s
      BY <1>3, <3>0, <3>1
    <3>2. CASE x = s
      <4>1. OfTheTerm(raft[s], sm[s], co[s], pend[s], wk'[s])
        BY <1>3, <3>0, <3>2 DEF InTermAt, OfTheTerm, Checked, Idle
      <4>2. Queued(raft[s], sm[s], co[s], pend[s], wk'[s])
        BY <1>2, <1>3, <3>0, <3>2, WorkerMoves DEF InTermAt
      <4> QED
        BY <3>0, <3>2, <4>1, <4>2 DEF InTermAt
    <3> QED
      BY <3>1, <3>2
  <2> QED
    BY <1>1, <2>1 DEF InTerm
<1> QED
  BY <1>6, <1>7, <1>8, <1>9, <1>10 DEF IndInv

\* A write that the application accepts
LEMMA WriteAcceptedKeeps ==
  ASSUME IndInv, NEW s \in Servers, NEW w \in Workers, WriteAccepted(s, w)
  PROVE  IndInv'
<1>0. TypeOK /\ Logs /\ StoresCorrect /\ Applying /\ Acks /\ Workings
  BY DEF IndInv
<1>1. PICK q : q = wk[s][w]
  OBVIOUS
<1>2. /\ fatal[s] = "none" /\ q.pc = "lock" /\ ~Locked(s)
      /\ SmAccepts(s, q)
      /\ pend' = [pend EXCEPT ![s][q.op.c] = [seq |-> q.op.n, term |-> q.term]]
      /\ late' = (late \/ q.term # raft[s].term)
      /\ \/ Goto(s, w, Idle)
         \/ Goto(s, w, [q EXCEPT !.pc = "write"])
      /\ UNCHANGED <<top, clog, raft, co, sm, disk, nai, evp, fatal, acked, stale,
                     restarted, won>>
  BY <1>1 DEF WriteAccepted, Worker, Up
<1>3. /\ q \in Request /\ q.op \in Op /\ q.term \in Nat /\ q # Idle
      /\ q.op.c \in Clients /\ q.op.n \in Nat
  <2>1. q \in Request \cup {Idle}
    BY <1>0, <1>1, Typed
  <2>2. q \in Request /\ q.op \in Op /\ q.term \in Nat /\ q # Idle
    BY <1>2, <2>1, RequestFields
  <2> QED
    BY <2>2, OpFields
<1>4. PICK q2 \in Request \cup {Idle} :
        /\ Goto(s, w, q2)
        /\ q2 # Idle => q2.pc = "write" /\ q2.op = q.op /\ q2.term = q.term
  <2>1. CASE Goto(s, w, Idle)
    BY <2>1
  <2>2. CASE Goto(s, w, [q EXCEPT !.pc = "write"])
    <3>1. PICK q2 : q2 = [q EXCEPT !.pc = "write"]
      OBVIOUS
    <3>2. /\ q2 \in Request /\ q2.pc = "write" /\ q2.op = q.op
          /\ q2.term = q.term
      BY <1>3, <3>1 DEF Request
    <3> QED
      BY <2>2, <3>1, <3>2
  <2> QED
    BY <1>2, <2>1, <2>2
<1>5. /\ wk' \in [Servers -> [Workers -> Request \cup {Idle}]]
      /\ wk'[s][w] = q2
      /\ \A v \in Workers : v # w => wk'[s][v] = wk[s][v]
      /\ \A x \in Servers : x # s => wk'[x] = wk[x]
  BY <1>0, <1>4, GotoIs
<1>6. PICK p2 : p2 = [pend[s] EXCEPT ![q.op.c] = [seq |-> q.op.n, term |-> q.term]]
  OBVIOUS
<1>7. /\ pend[s] \in [Clients -> Mark] /\ raft[s] \in Server /\ co[s] \in Buffer
      /\ sm[s] \in State /\ wk[s] \in [Workers -> Request \cup {Idle}]
  BY <1>0, Typed
<1>8. /\ p2 \in [Clients -> Mark]
      /\ p2[q.op.c] = [seq |-> q.op.n, term |-> q.term]
      /\ \A c \in Clients : c # q.op.c => p2[c] = pend[s][c]
  <2>1. [seq |-> q.op.n, term |-> q.term] \in Mark
    BY <1>3 DEF Mark
  <2> QED
    BY <1>3, <1>6, <1>7, <2>1
<1>9. /\ pend' \in [Servers -> [Clients -> Mark]] /\ pend'[s] = p2
      /\ \A x \in Servers : x # s => pend'[x] = pend[x]
  <2>1. pend' = [pend EXCEPT ![s] = p2]
    BY <1>2, <1>6
  <2>2. pend \in [Servers -> [Clients -> Mark]]
    BY <1>0 DEF TypeOK
  <2> QED
    BY <1>8, <2>1, <2>2
<1>10. \A v \in Workers : wk[s][v].pc # "write"
  BY <1>2 DEF Locked
<1>11. raft[s].term \in Nat /\ q.term <= raft[s].term
  <2>1. TermsPast(raft[s].term, co[s], pend[s], wk[s])
    BY <1>0 DEF Workings
  <2> QED
    BY <1>1, <1>3, <1>7, <2>1, ServerFields DEF TermsPast
<1>12. TypeOK'
  <2>1. late' \in BOOLEAN
    BY <1>2
  <2> QED
    BY <1>0, <1>2, <1>5, <1>9, <2>1 DEF TypeOK
<1>13. Logs' /\ StoresCorrect' /\ Applying' /\ Acks'
  BY <1>0, <1>2 DEF Logs, StoresCorrect, Applying, Acks
<1>14. Workings'
  <2> SUFFICES ASSUME NEW x \in Servers
               PROVE  /\ Mutex(wk'[x])
                      /\ Explained(fatal[x], wk'[x], late', x \in restarted)
                      /\ TermsPast(raft[x].term, co[x], pend'[x], wk'[x])
    BY <1>2 DEF Workings
  <2>1. /\ Mutex(wk[x])
        /\ Explained(fatal[x], wk[x], late, x \in restarted)
        /\ TermsPast(raft[x].term, co[x], pend[x], wk[x])
    BY <1>0 DEF Workings
  <2>0. late => late'
    BY <1>2
  <2>2. CASE x # s
    <3>1. Explained(fatal[x], wk[x], late', x \in restarted)
      BY <2>0, <2>1 DEF Explained
    <3> QED
      BY <1>5, <1>9, <2>1, <2>2, <3>1
  <2>3. CASE x = s
    <3>1. Mutex(wk'[s])
      BY <1>5, <1>10 DEF Mutex
    <3>2. Explained(fatal[s], wk'[s], late', s \in restarted)
      BY <1>2 DEF Explained
    <3>3. TermsPast(raft[s].term, co[s], p2, wk'[s])
      BY <1>4, <1>5, <1>8, <1>11, <2>1, <2>3 DEF TermsPast
    <3> QED
      BY <1>9, <2>3, <3>1, <3>2, <3>3
  <2> QED
    BY <2>2, <2>3
<1>15. ~late' => InTerm'
  <2> SUFFICES ASSUME ~late, q.term = raft[s].term PROVE InTerm'
    BY <1>2
  <2>0. InTerm
    BY DEF IndInv
  <2>1. ASSUME NEW x \in Servers
        PROVE  InTermAt(raft[x], sm[x], co[x], pend'[x], wk'[x])
    <3>0. InTermAt(raft[x], sm[x], co[x], pend[x], wk[x])
      BY <2>0 DEF InTerm
    <3>1. CASE x # s
      BY <1>5, <1>9, <3>0, <3>1
    <3>2. CASE x = s
      <4>1. Active(raft[s], sm[s])
        BY <1>1, <1>2, <1>3, <3>0, <3>2 DEF InTermAt, OfTheTerm, Checked
      <4>2. OfTheTerm(raft[s], sm[s], co[s], p2, wk'[s])
        BY <3>0, <3>2, <4>1 DEF InTermAt, OfTheTerm
      <4>3. PICK z \in Ops : z = Queue(raft[s], co[s])
        BY <1>7, QueueType
      <4>4. Begins(sm[s].app, z)
        BY <1>0, <4>3, AppliedInQueue
      <4>5. InFlight(raft[s].term, sm[s], pend[s], z)
        BY <3>0, <3>2, <4>1, <4>3 DEF InTermAt, Queued
      <4>6. /\ ~(pend[s][q.op.c].term = raft[s].term /\ pend[s][q.op.c].seq # 0)
            /\ q.op.n = AppSeq(sm[s], q.op.c) + 1
        BY <1>2 DEF SmAccepts, SmPending
      <4>7. /\ InFlight(raft[s].term, sm[s], p2, z)
            /\ InFlight(raft[s].term, sm[s], p2, Append(z, q.op))
        BY <1>3, <1>6, <1>7, <1>11, <4>4, <4>5, <4>6, InFlightAccept
      <4>8. \A v \in Workers : wk'[s][v].pc = "write" => wk'[s][v].op = q.op
        <5>1. Idle.pc # "write"
          BY DEF Idle
        <5> QED
          BY <1>4, <1>5, <1>10, <5>1
      <4>9. Queued(raft[s], sm[s], co[s], p2, wk'[s])
        BY <3>0, <3>2, <4>3, <4>7, <4>8 DEF InTermAt, Queued
      <4>10. InTermAt(raft[s], sm[s], co[s], p2, wk'[s])
        BY <3>0, <3>2, <4>2, <4>9 DEF InTermAt
      <4> QED
        BY <1>9, <3>2, <4>10
    <3> QED
      BY <3>1, <3>2
  <2> QED
    BY <1>2, <2>0, <2>1 DEF InTerm
<1> QED
  BY <1>12, <1>13, <1>14, <1>15 DEF IndInv

(***************************************************************************)
(* The coalesced write.                                                    *)
(***************************************************************************)

\* A log that grows at its end
LEMMA LogGrows ==
  ASSUME TypeOK, Logs, StoresCorrect, Applying, Acks, NEW s \in Servers,
         NEW r \in Server, raft' = [raft EXCEPT ![s] = r],
         Begins(raft[s].log, r.log), r.log = raft[s].log \/ Elected(raft[s]),
         r.role = raft[s].role, r.term = raft[s].term,
         r.initial = raft[s].initial, r.commit = raft[s].commit,
         UNCHANGED <<top, clog, sm, disk, nai, acked, stale, restarted, won>>
  PROVE  Logs' /\ StoresCorrect' /\ Applying' /\ Acks'
<1>0. PICK q : q = raft[s]
  OBVIOUS
<1>1. /\ q \in Server /\ q.log \in Log /\ r.log \in Log /\ clog \in Log
      /\ q.initial \in Nat /\ q.commit \in Nat /\ Len(q.log) \in Nat
      /\ Len(r.log) \in Nat /\ Len(clog) \in Nat
      /\ sm[s].la.idx \in Nat /\ disk[s].la.idx \in Nat
  BY <1>0, Typed, ServerFields, StateFields
<1>2. raft'[s] = r /\ \A x \in Servers : x # s => raft'[x] = raft[x]
  BY TypeRaft
<1>3. Begins(clog, clog)
  BY <1>1, BeginsSelf
<1>4. LogHolds(top, clog, r, sm[s], disk[s])
  <2>1. LogHolds(top, clog, q, sm[s], disk[s])
    BY <1>0 DEF Logs
  <2>2. /\ Agree(r.log, clog, r.commit)
        /\ Agree(r.log, clog, sm[s].la.idx)
        /\ Agree(r.log, clog, disk[s].la.idx)
        /\ Agree(q.log, clog, Len(clog)) => Agree(r.log, clog, Len(clog))
    BY <1>0, <1>1, <1>3, <2>1, AgreeGrow DEF LogHolds
  <2>3. (Elected(r) => r.term <= top) /\ (r.term = 0 => r.log = <<>>)
    BY <1>0, <2>1 DEF LogHolds, Elected
  <2>4. Elected(r) => /\ r.term # 0 /\ r.initial < Len(r.log)
                      /\ r.log[r.initial + 1].ops = <<>>
    <3> SUFFICES ASSUME Elected(r)
                 PROVE  /\ r.term # 0 /\ r.initial < Len(r.log)
                        /\ r.log[r.initial + 1].ops = <<>>
      OBVIOUS
    <3>1. /\ q.term # 0 /\ q.initial < Len(q.log)
          /\ q.log[q.initial + 1].ops = <<>>
      BY <1>0, <2>1 DEF LogHolds, Elected
    <3>2. q.initial + 1 \in 1..Len(q.log)
      BY <1>1, <3>1
    <3>3. Len(q.log) <= Len(r.log) /\ r.log[q.initial + 1] = q.log[q.initial + 1]
      BY <1>0, <3>2 DEF Begins
    <3> QED
      BY <1>0, <1>1, <3>1, <3>3
  <2>5. Newest(top, r) => Agree(r.log, clog, Len(clog))
    BY <1>0, <2>1, <2>2 DEF LogHolds, Newest
  <2> QED
    BY <2>2, <2>3, <2>4, <2>5 DEF LogHolds
<1>5. Logs'
  <2>1. \A x \in Servers : LogHolds(top, clog, raft'[x], sm[x], disk[x])
    BY <1>2, <1>4 DEF Logs
  <2>2. \A x \in Servers :
          raft'[x].role = raft[x].role /\ raft'[x].term = raft[x].term
    BY <1>2
  <2> QED
    BY <2>1, <2>2 DEF Logs, Elected
<1>6. StoresCorrect'
  BY DEF StoresCorrect
<1>7. Applying'
  <2>1. ApplyingAt(r, sm[s], nai[s], s \notin restarted)
    BY <1>0 DEF Applying, ApplyingAt, AtHand
  <2> QED
    BY <1>2, <2>1 DEF Applying
<1>8. Acks'
  <2>1. Newest(top, r) => HasAnswered(acked, r, sm[s])
    <3> SUFFICES ASSUME Newest(top, r) PROVE HasAnswered(acked, r, sm[s])
      OBVIOUS
    <3>1. Newest(top, q) /\ HasAnswered(acked, q, sm[s])
      BY <1>0 DEF Newest, Acks
    <3>2. q.initial <= Len(q.log)
      BY <1>0, <1>1, <3>1 DEF Logs, LogHolds, Newest, Elected
    <3>3. \A i \in 1..q.initial : q.log[i] = r.log[i]
      BY <1>0, <1>1, <3>2 DEF Begins
    <3>4. Flat(q.log, q.initial) = Flat(r.log, q.initial)
      BY <1>1, <3>3, FlatSame
    <3> QED
      BY <1>0, <3>1, <3>4 DEF HasAnswered
  <2>2. \A x \in Servers : Newest(top, raft'[x]) => HasAnswered(acked, raft'[x], sm[x])
    BY <1>2, <2>1 DEF Acks
  <2>3. \A x \in Servers : /\ raft'[x].role = raft[x].role
                           /\ raft'[x].term = raft[x].term
                           /\ raft'[x].initial = raft[x].initial
                           /\ raft'[x].commit = raft[x].commit
    BY <1>2
  <2>4. \A x, y \in Servers :
          Newest(top, raft'[x]) /\ raft'[y].role = "leader" /\ y # x =>
            Behind(raft'[x], raft'[y], sm[y])
    BY <2>3 DEF Acks, Newest, Behind
  <2> QED
    BY <2>2, <2>4 DEF Acks
<1> QED
  BY <1>5, <1>6, <1>7, <1>8

\* The server has the coalesced write b in its log.
WritesOut(r, b, r2) ==
  /\ r2 \in Server
  /\ r2.role = r.role /\ r2.term = r.term /\ r2.initial = r.initial
  /\ r2.commit = r.commit
  /\ \E e \in Entry : /\ e.ops = CoOps(b) /\ e.ws = b.ws
                      /\ r2.log = Append(r.log, e)

\* raft_server_write_coalesced_entries()
LEMMA WritesOutIs ==
  ASSUME TypeOK, NEW s \in Servers, NEW b \in Buffer, NEW r \in Server,
         r.term = raft[s].term, NEW r2,
         r2 = [r EXCEPT !.log = Append(r.log, CoEntry(s, b))]
  PROVE  WritesOut(r, b, r2)
<1>1. PICK e : e = CoEntry(s, b)
  OBVIOUS
<1>2. CoOps(b) \in Ops /\ b.ws \in Ops /\ raft[s].term \in Nat /\ r.log \in Log
  BY CoOpsType, BufferFields, Typed, ServerFields
<1>3. e.ops = CoOps(b) /\ e.ws = b.ws /\ e.term = raft[s].term
      /\ e = [term |-> raft[s].term, ws |-> b.ws, ops |-> CoOps(b)]
  BY <1>1 DEF CoEntry, CoOps
<1>4. e \in Entry
  BY <1>2, <1>3 DEF Entry
<1>5. PICK L : L = Append(r.log, e)
  OBVIOUS
<1>6. L \in Log
  BY <1>2, <1>4, <1>5, AppendLog
<1>7. /\ r2 \in Server /\ r2.log = L /\ r2.role = r.role /\ r2.term = r.term
      /\ r2.initial = r.initial /\ r2.commit = r.commit
  BY <1>1, <1>5, <1>6 DEF Server
<1> QED
  BY <1>3, <1>4, <1>5, <1>7 DEF WritesOut

\* If its requests are of this term, the log has them next.
LEMMA WritesOutQueue ==
  ASSUME NEW r \in Server, NEW b \in Buffer, NEW r2, WritesOut(r, b, r2)
  PROVE  /\ Begins(r.log, r2.log) /\ r2.log \in Log
         /\ Fresh(b, r.term) => Queue(r2, NoCo) = Queue(r, b)
         /\ Supplied(r.log) /\ b.ws = CoOps(b) => Supplied(r2.log)
<1>1. PICK e \in Entry : /\ e.ops = CoOps(b) /\ e.ws = b.ws
                         /\ r2.log = Append(r.log, e)
  BY DEF WritesOut
<1>2. r.log \in Log /\ r2 \in Server /\ Len(r.log) \in Nat
  BY ServerFields DEF WritesOut
<1>3. /\ r2.log \in Log /\ Len(r2.log) = Len(r.log) + 1
      /\ r2.log[Len(r.log) + 1] = e
      /\ Begins(r.log, r2.log)
      /\ \A i \in 1..Len(r.log) : r2.log[i] = r.log[i]
  BY <1>1, <1>2, AppendLog
<1>4. ASSUME Fresh(b, r.term) PROVE Queue(r2, NoCo) = Queue(r, b)
  <2>1. Queue(r, b) = All(r.log) \o CoOps(b)
    BY <1>4, QueueType
  <2>2. All(r2.log) = All(r.log) \o CoOps(b) /\ All(r2.log) \in Ops
    BY <1>1, <1>2, AllAppend
  <2>3. Queue(r2, NoCo) = All(r2.log) \o <<>>
    BY <1>2, EmptyBuffer, QueueType
  <2> QED
    BY <2>1, <2>2, <2>3, ConcatEmpty
<1>5. ASSUME Supplied(r.log), b.ws = CoOps(b) PROVE Supplied(r2.log)
  <2> SUFFICES ASSUME NEW i \in 1..Len(r2.log)
               PROVE  r2.log[i].ws = r2.log[i].ops
    BY DEF Supplied
  <2>1. i \in 1..Len(r.log) \/ i = Len(r.log) + 1
    BY <1>2, <1>3
  <2> QED
    BY <1>1, <1>3, <1>5, <2>1 DEF Supplied
<1> QED
  BY <1>3, <1>4, <1>5

\* The timer of the coalesced write
LEMMA CoWrTimerExpiredKeeps ==
  ASSUME IndInv, NEW s \in Servers, CoWrTimerExpired(s)
  PROVE  IndInv'
<1>0. TypeOK /\ Logs /\ StoresCorrect /\ Applying /\ Acks /\ Workings
  BY DEF IndInv
<1>1. PICK r : r = raft[s]
  OBVIOUS
<1>2. PICK b : b = co[s]
  OBVIOUS
<1>3. /\ fatal[s] = "none" /\ ~Locked(s) /\ MayAccept(s) /\ b.items # <<>>
      /\ raft[s].role = "leader"
      /\ raft' = [raft EXCEPT ![s].log = Append(raft[s].log, CoEntry(s, b))]
      /\ late' = (late \/ IsLate(s, b))
      /\ co' = [co EXCEPT ![s] = NoCo]
      /\ UNCHANGED <<top, clog, sm, pend, disk, wk, nai, evp, fatal, acked, stale,
                     restarted, won, bounds>>
  BY <1>2 DEF CoWrTimerExpired, MainIdle, Up, CoLog, CoWritten
<1>4. r \in Server /\ b \in Buffer /\ sm[s] \in State /\ NoCo \in Buffer
  BY <1>0, <1>1, <1>2, Typed, EmptyBuffer
<1>5. PICK r2 : r2 = [r EXCEPT !.log = Append(r.log, CoEntry(s, b))]
  OBVIOUS
<1>6. WritesOut(r, b, r2)
  BY <1>0, <1>1, <1>4, <1>5, WritesOutIs
<1>7. /\ r2 \in Server /\ r2.role = r.role /\ r2.term = r.term
      /\ r2.initial = r.initial /\ r2.commit = r.commit
  BY <1>6 DEF WritesOut
<1>8. raft' = [raft EXCEPT ![s] = r2]
  BY <1>1, <1>3, <1>5
<1>9. /\ raft' \in [Servers -> Server] /\ raft'[s] = r2
      /\ \A x \in Servers : x # s => raft'[x] = raft[x]
  BY <1>0, <1>7, <1>8, TypeRaft
<1>10. /\ co' \in [Servers -> Buffer] /\ co'[s] = NoCo
       /\ \A x \in Servers : x # s => co'[x] = co[x]
  <2>1. co \in [Servers -> Buffer]
    BY <1>0 DEF TypeOK
  <2> QED
    BY <1>3, <1>4, <2>1
<1>11. /\ Begins(r.log, r2.log) /\ r2.log \in Log
       /\ Fresh(b, r.term) => Queue(r2, NoCo) = Queue(r, b)
       /\ Supplied(r.log) /\ b.ws = CoOps(b) => Supplied(r2.log)
  BY <1>4, <1>6, WritesOutQueue
<1>12. Active(r, sm[s]) /\ Elected(r)
  BY <1>1, <1>3 DEF Active, Elected, MayAccept, MayWin
<1>13. Logs' /\ StoresCorrect' /\ Applying' /\ Acks'
  BY <1>0, <1>1, <1>3, <1>7, <1>8, <1>11, <1>12, LogGrows
<1>14. TypeOK'
  <2>1. late' \in BOOLEAN
    BY <1>3
  <2> QED
    BY <1>0, <1>3, <1>9, <1>10, <2>1 DEF TypeOK
<1>15. Workings'
  <2> SUFFICES ASSUME NEW x \in Servers
               PROVE  /\ Mutex(wk[x])
                      /\ Explained(fatal[x], wk[x], late', x \in restarted)
                      /\ TermsPast(raft'[x].term, co'[x], pend[x], wk[x])
    BY <1>3 DEF Workings
  <2>1. /\ Mutex(wk[x])
        /\ Explained(fatal[x], wk[x], late, x \in restarted)
        /\ TermsPast(raft[x].term, co[x], pend[x], wk[x])
    BY <1>0 DEF Workings
  <2>2. late => late'
    BY <1>3
  <2>3. Explained(fatal[x], wk[x], late', x \in restarted)
    BY <2>1, <2>2 DEF Explained
  <2>4. CASE x # s
    BY <1>9, <1>10, <2>1, <2>3, <2>4
  <2>5. CASE x = s
    <3>1. TermsPast(r2.term, NoCo, pend[s], wk[s])
      BY <1>1, <1>7, <2>1, <2>5, EmptyBuffer DEF TermsPast
    <3> QED
      BY <1>9, <1>10, <2>1, <2>3, <2>5, <3>1
  <2> QED
    BY <2>4, <2>5
<1>16. ~late' => InTerm'
  <2> SUFFICES ASSUME ~late, Fresh(b, r.term) PROVE InTerm'
    BY <1>1, <1>3 DEF IsLate, Fresh
  <2>0. InTerm
    BY DEF IndInv
  <2>1. ASSUME NEW x \in Servers
        PROVE  InTermAt(raft'[x], sm[x], co'[x], pend[x], wk[x])
    <3>0. InTermAt(raft[x], sm[x], co[x], pend[x], wk[x])
      BY <2>0 DEF InTerm
    <3>1. CASE x # s
      BY <1>9, <1>10, <3>0, <3>1
    <3>2. CASE x = s
      <4>0. /\ Supplied(r.log) /\ OfTheTerm(r, sm[s], b, pend[s], wk[s])
            /\ Queued(r, sm[s], b, pend[s], wk[s])
        BY <1>1, <1>2, <3>0, <3>2 DEF InTermAt
      <4>1. Active(r2, sm[s])
        BY <1>7, <1>12 DEF Active, Elected
      <4>2. Supplied(r2.log) /\ Queue(r2, NoCo) = Queue(r, b)
        BY <1>11, <4>0 DEF Queued
      <4>3. InFlight(r2.term, sm[s], pend[s], Queue(r2, NoCo))
        BY <1>7, <1>12, <4>0, <4>2 DEF Queued
      <4>4. InOrder(All(r2.log))
        <5>1. /\ Queue(r2, NoCo) \in Ops /\ All(r2.log) \in Ops
              /\ Begins(All(r2.log), Queue(r2, NoCo))
          BY <1>4, <1>7, QueueType
        <5> QED
          BY <4>3, <5>1, InOrderBegins DEF InFlight
      <4>5. OfTheTerm(r2, sm[s], NoCo, pend[s], wk[s])
        BY <4>1 DEF OfTheTerm
      <4>6. Queued(r2, sm[s], NoCo, pend[s], wk[s])
        <5>1. \A v \in Workers : wk[s][v].pc # "write"
          BY <1>3 DEF Locked
        <5> QED
          BY <4>3, <5>1, EmptyBuffer DEF Queued
      <4> QED
        BY <1>9, <1>10, <3>2, <4>2, <4>4, <4>5, <4>6 DEF InTermAt
    <3> QED
      BY <3>1, <3>2
  <2> QED
    BY <1>3, <2>0, <2>1 DEF InTerm
<1> QED
  BY <1>13, <1>14, <1>15, <1>16 DEF IndInv

\* raft_server_write_coalesce_entry(): the request is the last one.
LEMMA CoAddIs ==
  ASSUME NEW b \in Buffer, NEW q \in Request
  PROVE  /\ CoAdd(b, q) \in Buffer
         /\ CoOps(CoAdd(b, q)) = Append(CoOps(b), q.op)
         /\ CoAdd(b, q).ws = Append(b.ws, q.op)
         /\ \A T : Fresh(CoAdd(b, q), T) <=> Fresh(b, T) /\ q.term = T
         /\ \A i \in 1..Len(CoAdd(b, q).items) :
              \/ CoAdd(b, q).items[i].term = q.term
              \/ \E j \in 1..Len(b.items) :
                   CoAdd(b, q).items[i].term = b.items[j].term
<1>1. /\ b.items \in Seq(Item) /\ b.ws \in Ops /\ Len(b.items) \in Nat
      /\ q.op \in Op /\ q.term \in Nat
  BY BufferFields DEF Request
<1>2. PICK i1 : i1 = [op |-> q.op, term |-> q.term]
  OBVIOUS
<1>3. i1 \in Item /\ i1.op = q.op /\ i1.term = q.term
  BY <1>1, <1>2 DEF Item
<1>4. PICK y : y = Append(b.items, i1)
  OBVIOUS
<1>5. /\ y \in Seq(Item) /\ Len(y) = Len(b.items) + 1
      /\ y[Len(b.items) + 1] = i1
      /\ \A i \in 1..Len(b.items) : y[i] = b.items[i]
  BY <1>1, <1>3, <1>4
<1>6. PICK v : v = Append(b.ws, q.op)
  OBVIOUS
<1>7. v \in Ops
  BY <1>1, <1>6 DEF Ops
<1>8. PICK b2 : b2 = CoAdd(b, q)
  OBVIOUS
<1>9. b2 = [items |-> y, ws |-> v]
  BY <1>2, <1>4, <1>6, <1>8 DEF CoAdd, SuppMerge
<1>10. b2 \in Buffer /\ b2.items = y /\ b2.ws = v
  BY <1>5, <1>7, <1>9 DEF Buffer
<1>11. \A i \in 1..Len(y) : i \in 1..Len(b.items) \/ i = Len(b.items) + 1
  BY <1>1, <1>5
<1>12. CoOps(b2) = Append(CoOps(b), q.op)
  <2>1. CoOps(b) \in Ops /\ Len(CoOps(b)) = Len(b.items)
    BY <1>1, CoOpsType DEF CoOps
  <2>2. PICK u : u = Append(CoOps(b), q.op)
    OBVIOUS
  <2>3. /\ u \in Ops /\ Len(u) = Len(b.items) + 1
        /\ u[Len(b.items) + 1] = q.op
        /\ \A i \in 1..Len(b.items) : u[i] = CoOps(b)[i]
    BY <1>1, <2>1, <2>2 DEF Ops
  <2>4. CoOps(b2) = [i \in 1..Len(y) |-> y[i].op]
    BY <1>10 DEF CoOps
  <2>5. CoOps(b2) \in Ops /\ Len(CoOps(b2)) = Len(y)
    BY <1>5, <1>10, <2>4, CoOpsType
  <2>6. \A i \in 1..Len(y) : CoOps(b2)[i] = u[i]
    <3> SUFFICES ASSUME NEW i \in 1..Len(y) PROVE y[i].op = u[i]
      BY <2>4
    <3>1. CASE i \in 1..Len(b.items)
      BY <1>5, <2>3, <3>1 DEF CoOps
    <3>2. CASE i = Len(b.items) + 1
      BY <1>3, <1>5, <2>3, <3>2
    <3> QED
      BY <1>11, <3>1, <3>2
  <2> QED
    BY <1>5, <2>2, <2>3, <2>5, <2>6 DEF Ops
<1>13. ASSUME NEW T PROVE Fresh(b2, T) <=> Fresh(b, T) /\ q.term = T
  <2>1. ASSUME Fresh(b2, T) PROVE Fresh(b, T) /\ q.term = T
    <3>1. Len(b.items) + 1 \in 1..Len(y)
      BY <1>1, <1>5
    <3>2. \A i \in 1..Len(b.items) : i \in 1..Len(y)
      BY <1>1, <1>5
    <3> QED
      BY <1>3, <1>5, <1>10, <2>1, <3>1, <3>2 DEF Fresh
  <2>2. ASSUME Fresh(b, T), q.term = T PROVE Fresh(b2, T)
    BY <1>3, <1>5, <1>10, <1>11, <2>2 DEF Fresh
  <2> QED
    BY <2>1, <2>2
<1>14. \A i \in 1..Len(b2.items) :
         \/ b2.items[i].term = q.term
         \/ \E j \in 1..Len(b.items) : b2.items[i].term = b.items[j].term
  BY <1>3, <1>5, <1>10, <1>11
<1> QED
  BY <1>6, <1>8, <1>10, <1>12, <1>13, <1>14

\* The coalesced write is written, or nothing happens.
Flushes(r, b, r2, b2) ==
  \/ r2 = r /\ b2 = b
  \/ WritesOut(r, b, r2) /\ b2 = NoCo /\ b.items # <<>> /\ r.role = "leader"

\* All of it is of the term.
FlushesInTime(r, b, r2, b2) ==
  \/ r2 = r /\ b2 = b
  \/ /\ WritesOut(r, b, r2) /\ b2 = NoCo /\ b.items # <<>>
     /\ r.role = "leader" /\ Fresh(b, r.term)

\* The log grows, and only the one of a leader.
LEMMA FlushesType ==
  ASSUME NEW r \in Server, NEW b \in Buffer, NEW r2, NEW b2,
         Flushes(r, b, r2, b2)
  PROVE  /\ r2 \in Server /\ b2 \in Buffer /\ Begins(r.log, r2.log)
         /\ r2.log = r.log \/ Elected(r)
         /\ r2.role = r.role /\ r2.term = r.term /\ r2.initial = r.initial
         /\ r2.commit = r.commit
         /\ b2 = b \/ b2.items = <<>>
<1>1. CASE r2 = r /\ b2 = b
  <2>1. Begins(r.log, r.log)
    BY ServerFields, BeginsSelf
  <2> QED
    BY <1>1, <2>1
<1>2. CASE WritesOut(r, b, r2) /\ b2 = NoCo /\ r.role = "leader"
  <2>1. Begins(r.log, r2.log)
    BY <1>2, WritesOutQueue
  <2> QED
    BY <1>2, <2>1, EmptyBuffer DEF WritesOut, Elected
<1> QED
  BY <1>1, <1>2 DEF Flushes

\* What is under way stays.
LEMMA FlushesQueue ==
  ASSUME NEW r \in Server, NEW b \in Buffer, NEW r2, NEW b2,
         FlushesInTime(r, b, r2, b2), Supplied(r.log),
         Fresh(b, r.term) => b.ws = CoOps(b)
  PROVE  /\ Queue(r2, b2) = Queue(r, b) /\ Supplied(r2.log)
         /\ Fresh(b2, r.term) => b2.ws = CoOps(b2)
<1>1. CASE r2 = r /\ b2 = b
  BY <1>1
<1>2. CASE WritesOut(r, b, r2) /\ b2 = NoCo /\ Fresh(b, r.term)
  BY <1>2, WritesOutQueue, EmptyBuffer
<1> QED
  BY <1>1, <1>2 DEF FlushesInTime

\* raft_server_client_rncr_write_raft_entry(): the assertion fails, or what was
\* there and then the request are written or kept.
LEMMA WriteRaftEntryIs ==
  ASSUME TypeOK, NEW s \in Servers, NEW w \in Workers, NEW q \in Request,
         q = wk[s][w], WriteRaftEntry(s, w)
  PROVE  \/ /\ fatal' = [fatal EXCEPT ![s] = "not_leader"]
            /\ UNCHANGED <<raft, co, late, wk>>
         \/ \E r1, r2, b1, b2 :
              /\ Flushes(raft[s], co[s], r1, b1)
              /\ Flushes(r1, CoAdd(b1, q), r2, b2)
              /\ ~late' => /\ FlushesInTime(raft[s], co[s], r1, b1)
                           /\ FlushesInTime(r1, CoAdd(b1, q), r2, b2)
              /\ raft' = [raft EXCEPT ![s] = r2] /\ co' = [co EXCEPT ![s] = b2]
              /\ late' \in BOOLEAN /\ (late => late')
              /\ Goto(s, w, Idle) /\ fatal' = fatal
<1>0. PICK r : r = raft[s]
  OBVIOUS
<1>1. PICK b : b = co[s]
  OBVIOUS
<1>2. r \in Server /\ b \in Buffer /\ NoCo \in Buffer
  BY <1>0, <1>1, Typed, EmptyBuffer
<1>3. PICK nofit \in BOOLEAN, full \in BOOLEAN :
        LET x1   == IF nofit THEN CoWritten(co[s]) ELSE co[s]
            x2   == CoAdd(x1, q)
            push == full \/ CoIsFull(x2)
            log1 == IF nofit THEN CoLog(s, co[s]) ELSE raft[s].log
            log2 == IF push THEN Append(log1, CoEntry(s, x2)) ELSE log1
        IN /\ nofit => co[s].items # <<>>
           /\ IF (nofit \/ push) /\ raft[s].role # "leader"
              THEN Abort(s, "not_leader") /\ UNCHANGED <<raft, co, late, wk>>
              ELSE /\ raft' = [raft EXCEPT ![s].log = log2]
                   /\ co' = [co EXCEPT ![s] = IF push THEN CoWritten(x2) ELSE x2]
                   /\ late' = (late \/ (nofit /\ IsLate(s, co[s]))
                                    \/ (push /\ IsLate(s, x2)))
                   /\ Goto(s, w, Idle) /\ UNCHANGED fatal
  BY DEF WriteRaftEntry
<1>4. PICK b1 : b1 = IF nofit THEN NoCo ELSE b
  OBVIOUS
<1>5. PICK bx : bx = CoAdd(b1, q)
  OBVIOUS
<1>6. PICK push \in BOOLEAN : push <=> full \/ CoIsFull(bx)
  OBVIOUS
<1>7. PICK L1 : L1 = IF nofit THEN Append(r.log, CoEntry(s, b)) ELSE r.log
  OBVIOUS
<1>8. PICK L2 : L2 = IF push THEN Append(L1, CoEntry(s, bx)) ELSE L1
  OBVIOUS
<1>9. /\ nofit => b.items # <<>>
      /\ IF (nofit \/ push) /\ r.role # "leader"
         THEN Abort(s, "not_leader") /\ UNCHANGED <<raft, co, late, wk>>
         ELSE /\ raft' = [raft EXCEPT ![s].log = L2]
              /\ co' = [co EXCEPT ![s] = IF push THEN NoCo ELSE bx]
              /\ late' = (late \/ (nofit /\ IsLate(s, b))
                               \/ (push /\ IsLate(s, bx)))
              /\ Goto(s, w, Idle) /\ UNCHANGED fatal
  BY <1>0, <1>1, <1>3, <1>4, <1>5, <1>6, <1>7, <1>8 DEF CoWritten, CoLog
<1>10. CASE (nofit \/ push) /\ r.role # "leader"
  BY <1>9, <1>10 DEF Abort
<1>11. CASE ~((nofit \/ push) /\ r.role # "leader")
  <2>0. /\ raft' = [raft EXCEPT ![s].log = L2]
        /\ co' = [co EXCEPT ![s] = IF push THEN NoCo ELSE bx]
        /\ late' = (late \/ (nofit /\ IsLate(s, b))
                         \/ (push /\ IsLate(s, bx)))
        /\ Goto(s, w, Idle) /\ fatal' = fatal
    BY <1>9, <1>11
  <2>1. PICK r1 : r1 = [r EXCEPT !.log = L1]
    OBVIOUS
  <2>2. /\ Flushes(r, b, r1, b1)
        /\ ~late' => FlushesInTime(r, b, r1, b1)
    <3>1. CASE nofit
      <4>1. WritesOut(r, b, r1)
        BY <1>0, <1>2, <1>7, <2>1, <3>1, WritesOutIs
      <4>2. ~late' => Fresh(b, r.term)
        BY <1>0, <2>0, <3>1 DEF IsLate, Fresh
      <4> QED
        BY <1>4, <1>9, <1>11, <3>1, <4>1, <4>2 DEF Flushes, FlushesInTime
    <3>2. CASE ~nofit
      <4>1. r1 = [r EXCEPT !.log = r.log]
        BY <1>7, <2>1, <3>2
      <4>2. r1 = r
        BY <1>2, <4>1 DEF Server
      <4> QED
        BY <1>4, <3>2, <4>2 DEF Flushes, FlushesInTime
    <3> QED
      BY <3>1, <3>2
  <2>3. /\ r1 \in Server /\ b1 \in Buffer /\ r1.role = r.role
        /\ r1.term = r.term
    BY <1>2, <2>2, FlushesType
  <2>4. r1.log = L1
    BY <1>2, <2>1 DEF Server
  <2>5. bx \in Buffer /\ bx.items # <<>>
    <3>1. bx \in Buffer
      BY <1>5, <2>3, CoAddIs
    <3>2. bx.items = Append(b1.items, [op |-> q.op, term |-> q.term])
      BY <1>5 DEF CoAdd
    <3>3. b1.items \in Seq(Item) /\ [op |-> q.op, term |-> q.term] \in Item
      BY <2>3, BufferFields DEF Item, Request
    <3> QED
      BY <3>1, <3>2, <3>3
  <2>6. PICK r2 : r2 = [r1 EXCEPT !.log = L2]
    OBVIOUS
  <2>7. PICK b2 : b2 = IF push THEN NoCo ELSE bx
    OBVIOUS
  <2>8. /\ Flushes(r1, bx, r2, b2)
        /\ ~late' => FlushesInTime(r1, bx, r2, b2)
    <3>1. CASE push
      <4>1. r2 = [r1 EXCEPT !.log = Append(r1.log, CoEntry(s, bx))]
        BY <1>8, <2>4, <2>6, <3>1
      <4>2. WritesOut(r1, bx, r2)
        BY <1>0, <2>3, <2>5, <4>1, WritesOutIs
      <4>3. ~late' => Fresh(bx, r1.term)
        BY <1>0, <2>0, <2>3, <3>1 DEF IsLate, Fresh
      <4> QED
        BY <1>11, <2>3, <2>5, <2>7, <3>1, <4>2, <4>3 DEF Flushes, FlushesInTime
    <3>2. CASE ~push
      <4>1. r2 = [r1 EXCEPT !.log = r1.log]
        BY <1>8, <2>4, <2>6, <3>2
      <4>2. r2 = r1
        BY <2>3, <4>1 DEF Server
      <4> QED
        BY <2>7, <3>2, <4>2 DEF Flushes, FlushesInTime
    <3> QED
      BY <3>1, <3>2
  <2>9. raft' = [raft EXCEPT ![s] = r2]
    <3>1. r2 = [r EXCEPT !.log = L2]
      BY <1>2, <2>1, <2>6 DEF Server
    <3> QED
      BY <1>0, <2>0, <3>1
  <2>10. co' = [co EXCEPT ![s] = b2] /\ late' \in BOOLEAN /\ (late => late')
    BY <2>0, <2>7
  <2> QED
    BY <1>0, <1>1, <1>5, <2>0, <2>2, <2>8, <2>9, <2>10
<1> QED
  BY <1>10, <1>11

\* The request joins what is under way.
LEMMA InTermWrite ==
  ASSUME NEW r \in Server, NEW st \in State, NEW b \in Buffer,
         NEW p \in [Clients -> Mark],
         NEW ws \in [Workers -> Request \cup {Idle}], InTermAt(r, st, b, p, ws),
         NEW w \in Workers, NEW q \in Request, ws[w] = q, q.pc = "write",
         NEW ws2, ws2[w] = Idle, \A v \in Workers : v # w => ws2[v] = ws[v],
         Mutex(ws),
         NEW r1, NEW b1, NEW r2, NEW b2, FlushesInTime(r, b, r1, b1),
         FlushesInTime(r1, CoAdd(b1, q), r2, b2)
  PROVE  InTermAt(r2, st, b2, p, ws2)
<1>0. /\ InOrder(All(r.log)) /\ Supplied(r.log)
      /\ OfTheTerm(r, st, b, p, ws) /\ Queued(r, st, b, p, ws)
  BY DEF InTermAt
<1>9. Flushes(r, b, r1, b1) /\ Flushes(r1, CoAdd(b1, q), r2, b2)
  BY DEF Flushes, FlushesInTime
<1>1. /\ r1 \in Server /\ b1 \in Buffer /\ r1.log \in Log
      /\ r1.role = r.role /\ r1.term = r.term /\ r1.initial = r.initial
      /\ b1 = b \/ b1.items = <<>>
  BY <1>9, FlushesType, ServerFields
<1>2. PICK bx \in Buffer :
        /\ bx = CoAdd(b1, q) /\ CoOps(bx) = Append(CoOps(b1), q.op)
        /\ bx.ws = Append(b1.ws, q.op)
        /\ Fresh(bx, r.term) <=> Fresh(b1, r.term) /\ q.term = r.term
        /\ \A i \in 1..Len(bx.items) :
             \/ bx.items[i].term = q.term
             \/ \E j \in 1..Len(b1.items) : bx.items[i].term = b1.items[j].term
  BY <1>1, CoAddIs
<1>3. Flushes(r1, bx, r2, b2) /\ FlushesInTime(r1, bx, r2, b2)
  BY <1>2, <1>9
<1>4. /\ r2 \in Server /\ b2 \in Buffer /\ r2.log \in Log
      /\ r2.role = r.role /\ r2.term = r.term /\ r2.initial = r.initial
      /\ b2 = bx \/ b2.items = <<>>
  BY <1>1, <1>2, <1>3, FlushesType, ServerFields
<1>5. Idle.pc # "write" /\ q # Idle
  BY DEF Idle
<1>6. \A v \in Workers : ws2[v].pc # "write"
  BY <1>5 DEF Mutex
<1>7. CASE Active(r, st)
  <2>1. Active(r2, st)
    BY <1>4, <1>7 DEF Active, Elected
  <2>2. PICK z \in Ops : z = Queue(r, b) /\ InFlight(r.term, st, p, z)
    BY <1>0, <1>7, QueueType DEF Queued
  <2>3. /\ Queue(r1, b1) = z /\ Supplied(r1.log)
        /\ Fresh(b1, r.term) => b1.ws = CoOps(b1)
    BY <1>0, <2>2, FlushesQueue DEF Queued
  <2>4. PICK y \in Ops : y = Queue(r1, bx)
    BY <1>1, <1>2, QueueType
  <2>5. Fresh(bx, r.term) => bx.ws = CoOps(bx)
    BY <1>2, <2>3
  <2>6. InFlight(r.term, st, p, y)
    <3>1. CASE Fresh(bx, r.term)
      <4>1. Fresh(b1, r.term) /\ q.term = r.term
        BY <1>2, <3>1
      <4>2. /\ y = All(r1.log) \o Append(CoOps(b1), q.op)
            /\ z = All(r1.log) \o CoOps(b1)
        BY <1>1, <1>2, <2>3, <2>4, <3>1, <4>1, QueueType
      <4>3. All(r1.log) \in Ops /\ CoOps(b1) \in Ops /\ q.op \in Op
        BY <1>1, QueueType, CoOpsType DEF Request
      <4>4. y = Append(z, q.op)
        BY <4>2, <4>3 DEF Ops
      <4> QED
        BY <1>0, <1>7, <2>2, <4>1, <4>4 DEF Queued
    <3>2. CASE ~Fresh(bx, r.term)
      <4>1. y = All(r1.log)
        BY <1>1, <1>2, <2>4, <3>2, QueueType
      <4>2. Begins(y, z)
        BY <1>1, <2>3, <4>1, QueueType
      <4> QED
        BY <2>2, <4>2, InFlightShorter
    <3> QED
      BY <3>1, <3>2
  <2>7. /\ Queue(r2, b2) = y /\ Supplied(r2.log)
        /\ Fresh(b2, r.term) => b2.ws = CoOps(b2)
    <3>1. Fresh(bx, r1.term) => bx.ws = CoOps(bx)
      BY <1>1, <2>5
    <3>2. /\ Queue(r2, b2) = y /\ Supplied(r2.log)
          /\ Fresh(b2, r1.term) => b2.ws = CoOps(b2)
      <4>1. r1 \in Server /\ bx \in Buffer /\ FlushesInTime(r1, bx, r2, b2)
        BY <1>1, <1>2, <1>3
      <4>2. Supplied(r1.log)
        BY <2>3
      <4>3. /\ Queue(r2, b2) = Queue(r1, bx) /\ Supplied(r2.log)
            /\ Fresh(b2, r1.term) => b2.ws = CoOps(b2)
        BY <3>1, <4>1, <4>2, FlushesQueue
      <4> QED
        BY <2>4, <4>3
    <3> QED
      BY <1>1, <3>2
  <2>8. InOrder(All(r2.log))
    <3>1. All(r2.log) \in Ops /\ Begins(All(r2.log), y)
      BY <1>4, <2>7, QueueType
    <3> QED
      BY <2>6, <3>1, InOrderBegins DEF InFlight
  <2>9. OfTheTerm(r2, st, b2, p, ws2)
    BY <2>1 DEF OfTheTerm
  <2>10. Queued(r2, st, b2, p, ws2)
    BY <1>4, <1>6, <2>6, <2>7 DEF Queued
  <2> QED
    BY <2>7, <2>8, <2>9, <2>10 DEF InTermAt
<1>8. CASE ~Active(r, st)
  <2>1. /\ q.term # r.term
        /\ \A i \in 1..Len(b.items) : b.items[i].term # r.term
    BY <1>0, <1>5, <1>8 DEF OfTheTerm, Checked
  <2>2. r1 = r /\ b1 = b
    <3>1. ASSUME b.items # <<>>, Fresh(b, r.term) PROVE FALSE
      <4>1. b.items \in Seq(Item)
        BY BufferFields
      <4>2. 1 \in 1..Len(b.items)
        BY <3>1, <4>1
      <4> QED
        BY <2>1, <3>1, <4>2 DEF Fresh
    <3> QED
      BY <3>1 DEF FlushesInTime
  <2>3. ~Fresh(bx, r.term)
    BY <1>2, <2>1
  <2>4. r2 = r /\ b2 = bx
    BY <1>3, <2>2, <2>3 DEF FlushesInTime
  <2>5. \A i \in 1..Len(bx.items) : bx.items[i].term # r.term
    BY <1>2, <2>1, <2>2
  <2>6. OfTheTerm(r, st, bx, p, ws2)
    <3>1. Elected(r) /\ ~Active(r, st) => Len(r.log) = r.initial + 1
      BY <1>0 DEF OfTheTerm
    <3>2. \A v \in Workers : Checked(ws2[v]) /\ ws2[v].term = r.term => Active(r, st)
      BY <1>0 DEF OfTheTerm, Checked, Idle
    <3>3. \A c \in Clients : p[c].term = r.term => Active(r, st) \/ r.term = 0
      BY <1>0 DEF OfTheTerm
    <3> QED
      BY <2>5, <3>1, <3>2, <3>3 DEF OfTheTerm
  <2>7. Queued(r, st, bx, p, ws2)
    BY <1>8, <2>3 DEF Queued
  <2> QED
    BY <1>0, <2>4, <2>6, <2>7 DEF InTermAt
<1> QED
  BY <1>7, <1>8

\* No term of the coalesced write is ahead.
LEMMA TermsWrite ==
  ASSUME NEW r \in Server, NEW b \in Buffer, NEW p, NEW ws, NEW ws2,
         TermsPast(r.term, b, p, ws), NEW w \in Workers, NEW q \in Request,
         ws[w] = q, ws2[w] = Idle, \A v \in Workers : v # w => ws2[v] = ws[v],
         NEW r1, NEW b1, NEW r2, NEW b2,
         Flushes(r, b, r1, b1),
         Flushes(r1, CoAdd(b1, q), r2, b2)
  PROVE  TermsPast(r2.term, b2, p, ws2)
<1>1. /\ r1 \in Server /\ b1 \in Buffer /\ r1.term = r.term
      /\ b1 = b \/ b1.items = <<>>
  BY FlushesType
<1>2. PICK bx \in Buffer :
        /\ bx = CoAdd(b1, q)
        /\ \A i \in 1..Len(bx.items) :
             \/ bx.items[i].term = q.term
             \/ \E j \in 1..Len(b1.items) : bx.items[i].term = b1.items[j].term
  <2>0. b1 \in Buffer
    BY <1>1
  <2>1. CoAdd(b1, q) \in Buffer
    BY <2>0, CoAddIs
  <2>2. \A i \in 1..Len(CoAdd(b1, q).items) :
          \/ CoAdd(b1, q).items[i].term = q.term
          \/ \E j \in 1..Len(b1.items) :
               CoAdd(b1, q).items[i].term = b1.items[j].term
    BY <2>0, CoAddIs
  <2> QED
    BY <2>1, <2>2
<1>3. r2.term = r.term /\ (b2 = bx \/ b2.items = <<>>)
  BY <1>1, <1>2, FlushesType
<1>4. q # Idle /\ q.term <= r.term
  <2>1. q # Idle
    BY DEF Idle, Request
  <2> QED
    BY <2>1 DEF TermsPast
<1>5. \A j \in 1..Len(b1.items) : b1.items[j].term <= r.term
  BY <1>1 DEF TermsPast
<1>6. \A i \in 1..Len(b2.items) : b2.items[i].term <= r.term
  BY <1>2, <1>3, <1>4, <1>5
<1>7. \A v \in Workers : ws2[v] # Idle => ws2[v].term <= r.term
  BY DEF TermsPast
<1> QED
  BY <1>3, <1>6, <1>7 DEF TermsPast

\* raft_server_client_rncr_write_raft_entry()
LEMMA WriteRaftEntryKeeps ==
  ASSUME IndInv, NEW s \in Servers, NEW w \in Workers, WriteRaftEntry(s, w)
  PROVE  IndInv'
<1>0. TypeOK /\ Logs /\ StoresCorrect /\ Applying /\ Acks /\ Workings
  BY DEF IndInv
<1>1. PICK q : q = wk[s][w]
  OBVIOUS
<1>2. /\ fatal[s] = "none" /\ q.pc = "write"
      /\ UNCHANGED <<top, clog, sm, pend, disk, nai, evp, acked, stale,
                     restarted, won, bounds>>
  BY <1>1 DEF WriteRaftEntry, Worker, Up
<1>3. q \in Request
  <2>1. q \in Request \cup {Idle}
    BY <1>0, <1>1, Typed
  <2> QED
    BY <1>2, <2>1, RequestFields
<1>4. CASE /\ fatal' = [fatal EXCEPT ![s] = "not_leader"]
           /\ UNCHANGED <<raft, co, late, wk>>
  <2>1. TypeOK'
    BY <1>0, <1>2, <1>4 DEF TypeOK
  <2>2. Logs' /\ StoresCorrect' /\ Applying' /\ Acks'
    BY <1>0, <1>2, <1>4 DEF Logs, StoresCorrect, Applying, Acks
  <2>3. Workings'
    <3>1. /\ fatal'[s] = "not_leader"
          /\ \A x \in Servers : x # s => fatal'[x] = fatal[x]
      BY <1>0, <1>4 DEF TypeOK
    <3>2. Explained(fatal'[s], wk[s], late, s \in restarted)
      BY <1>1, <1>2, <3>1 DEF Explained
    <3> QED
      BY <1>0, <1>2, <1>4, <3>1, <3>2 DEF Workings
  <2>4. ~late' => InTerm'
    BY <1>2, <1>4 DEF IndInv, InTerm
  <2> QED
    BY <2>1, <2>2, <2>3, <2>4 DEF IndInv
<1>5. CASE \E r1, r2, b1, b2 :
             /\ Flushes(raft[s], co[s], r1, b1)
             /\ Flushes(r1, CoAdd(b1, q), r2, b2)
             /\ ~late' => /\ FlushesInTime(raft[s], co[s], r1, b1)
                          /\ FlushesInTime(r1, CoAdd(b1, q), r2, b2)
             /\ raft' = [raft EXCEPT ![s] = r2] /\ co' = [co EXCEPT ![s] = b2]
             /\ late' \in BOOLEAN /\ (late => late')
             /\ Goto(s, w, Idle) /\ fatal' = fatal
  <2>1. PICK r1, r2, b1, b2 :
             /\ Flushes(raft[s], co[s], r1, b1)
             /\ Flushes(r1, CoAdd(b1, q), r2, b2)
             /\ ~late' => /\ FlushesInTime(raft[s], co[s], r1, b1)
                          /\ FlushesInTime(r1, CoAdd(b1, q), r2, b2)
             /\ raft' = [raft EXCEPT ![s] = r2] /\ co' = [co EXCEPT ![s] = b2]
             /\ late' \in BOOLEAN /\ (late => late')
             /\ Goto(s, w, Idle) /\ fatal' = fatal
    BY <1>5
  <2>2. /\ raft[s] \in Server /\ co[s] \in Buffer /\ sm[s] \in State
        /\ pend[s] \in [Clients -> Mark]
        /\ wk[s] \in [Workers -> Request \cup {Idle}]
    BY <1>0, Typed
  <2>3. /\ r1 \in Server /\ b1 \in Buffer /\ Begins(raft[s].log, r1.log)
        /\ r1.log = raft[s].log \/ Elected(raft[s])
        /\ r1.role = raft[s].role /\ r1.term = raft[s].term
        /\ r1.initial = raft[s].initial /\ r1.commit = raft[s].commit
    BY <2>1, <2>2, FlushesType
  <2>4. CoAdd(b1, q) \in Buffer
    BY <1>3, <2>3, CoAddIs
  <2>5. /\ r2 \in Server /\ b2 \in Buffer /\ Begins(r1.log, r2.log)
        /\ r2.log = r1.log \/ Elected(r1)
        /\ r2.role = raft[s].role /\ r2.term = raft[s].term
        /\ r2.initial = raft[s].initial /\ r2.commit = raft[s].commit
    BY <2>1, <2>3, <2>4, FlushesType
  <2>6. /\ Begins(raft[s].log, r2.log)
        /\ r2.log = raft[s].log \/ Elected(raft[s])
    <3>1. raft[s].log \in Log /\ r1.log \in Log /\ r2.log \in Log
      BY <2>2, <2>3, <2>5, ServerFields
    <3>2. Begins(raft[s].log, r2.log)
      BY <2>3, <2>5, <3>1, BeginsTrans DEF Log
    <3> QED
      BY <2>3, <2>5, <3>2 DEF Elected
  <2>7. /\ raft' \in [Servers -> Server] /\ raft'[s] = r2
        /\ \A x \in Servers : x # s => raft'[x] = raft[x]
    BY <1>0, <2>1, <2>5, TypeRaft
  <2>8. /\ co' \in [Servers -> Buffer] /\ co'[s] = b2
        /\ \A x \in Servers : x # s => co'[x] = co[x]
    <3>1. co \in [Servers -> Buffer]
      BY <1>0 DEF TypeOK
    <3> QED
      BY <2>1, <2>5, <3>1
  <2>9. /\ wk' \in [Servers -> [Workers -> Request \cup {Idle}]]
        /\ wk'[s][w] = Idle
        /\ \A v \in Workers : v # w => wk'[s][v] = wk[s][v]
        /\ \A x \in Servers : x # s => wk'[x] = wk[x]
    BY <1>0, <2>1, GotoIs
  <2>10. Logs' /\ StoresCorrect' /\ Applying' /\ Acks'
    BY <1>0, <1>2, <2>1, <2>5, <2>6, LogGrows
  <2>11. TypeOK'
    BY <1>0, <1>2, <2>1, <2>7, <2>8, <2>9 DEF TypeOK
  <2>12. Workings'
    <3> SUFFICES ASSUME NEW x \in Servers
                 PROVE  /\ Mutex(wk'[x])
                        /\ Explained(fatal[x], wk'[x], late', x \in restarted)
                        /\ TermsPast(raft'[x].term, co'[x], pend[x], wk'[x])
      BY <1>2, <2>1 DEF Workings
    <3>1. /\ Mutex(wk[x])
          /\ Explained(fatal[x], wk[x], late, x \in restarted)
          /\ TermsPast(raft[x].term, co[x], pend[x], wk[x])
      BY <1>0 DEF Workings
    <3>2. CASE x # s
      <4>1. Explained(fatal[x], wk[x], late', x \in restarted)
        BY <2>1, <3>1 DEF Explained
      <4> QED
        BY <2>7, <2>8, <2>9, <3>1, <3>2, <4>1
    <3>3. CASE x = s
      <4>1. Mutex(wk'[s])
        <5>1. Idle.pc # "write"
          BY DEF Idle
        <5> QED
          BY <2>9, <3>1, <3>3, <5>1, WorkerMoves
      <4>2. Explained(fatal[s], wk'[s], late', s \in restarted)
        BY <1>2 DEF Explained
      <4>3. TermsPast(r2.term, b2, pend[s], wk'[s])
        <5>1. PICK r \in Server : r = raft[s]
          BY <2>2
        <5>2. PICK b \in Buffer : b = co[s]
          BY <2>2
        <5>3. Flushes(r, b, r1, b1) /\ Flushes(r1, CoAdd(b1, q), r2, b2)
          BY <2>1, <5>1, <5>2
        <5>4. TermsPast(r.term, b, pend[s], wk[s])
          BY <3>1, <3>3, <5>1, <5>2
        <5>5. /\ wk[s][w] = q /\ wk'[s][w] = Idle
              /\ \A v \in Workers : v # w => wk'[s][v] = wk[s][v]
          BY <1>1, <2>9
        <5> QED
          BY <1>3, <5>3, <5>4, <5>5, TermsWrite
      <4> QED
        BY <2>7, <2>8, <3>3, <4>1, <4>2, <4>3
    <3> QED
      BY <3>2, <3>3
  <2>13. ~late' => InTerm'
    <3> SUFFICES ASSUME ~late' PROVE InTerm'
      OBVIOUS
    <3>0. InTerm
      BY <2>1 DEF IndInv
    <3>2. /\ FlushesInTime(raft[s], co[s], r1, b1)
          /\ FlushesInTime(r1, CoAdd(b1, q), r2, b2)
      BY <2>1
    <3>3. ASSUME NEW x \in Servers
          PROVE  InTermAt(raft'[x], sm[x], co'[x], pend[x], wk'[x])
      <4>0. InTermAt(raft[x], sm[x], co[x], pend[x], wk[x])
        BY <3>0 DEF InTerm
      <4>1. CASE x # s
        BY <2>7, <2>8, <2>9, <4>0, <4>1
      <4>2. CASE x = s
        <5>1. Mutex(wk[s])
          BY <1>0 DEF Workings
        <5>2. InTermAt(r2, sm[s], b2, pend[s], wk'[s])
          BY <1>1, <1>2, <1>3, <2>2, <2>9, <3>2, <4>0, <4>2, <5>1, InTermWrite
        <5> QED
          BY <2>7, <2>8, <4>2, <5>2
      <4> QED
        BY <4>1, <4>2
    <3> QED
      BY <1>2, <3>0, <3>3 DEF InTerm
  <2> QED
    BY <2>10, <2>11, <2>12, <2>13 DEF IndInv
<1> QED
  BY <1>0, <1>1, <1>3, <1>4, <1>5, WriteRaftEntryIs

(***************************************************************************)
(* The apply callback.                                                     *)
(***************************************************************************)

\* la's next sub-entry in L
NextIn(L, la, m) ==
  /\ m \in Applied /\ Place(L, m) /\ m.idx # 0
  /\ \/ la.sub = la.max /\ m.idx = la.idx + 1 /\ m.sub = 0
     \/ la.sub # la.max /\ m.idx = la.idx /\ m.sub = la.sub + 1
  /\ m.max = LastSub(L[m.idx])
  /\ m.crc = 1..m.idx

\* Entries of which a part is applied are not whole.
LEMMA PlaceWhole ==
  ASSUME NEW L \in Log, NEW la \in Applied, Place(L, la)
  PROVE  /\ la.sub # la.max => la.idx # 0 /\ la.sub < la.max
         /\ la.sub # la.max => WholeIdx(la) = la.idx - 1
         /\ la.sub = la.max => WholeIdx(la) = la.idx
<1>1. la.idx \in Nat /\ la.sub \in Nat /\ la.max \in Nat
  BY AppliedType
<1> QED
  BY <1>1 DEF Place, WholeIdx

\* The sum moves to the next entry.
LEMMA XorNext ==
  ASSUME NEW n \in Nat, n # 0
  PROVE  Xor(1..(n - 1), n) = 1..n
BY DEF Xor

\* The last sub-entry is a number; a marker counts as one.
LEMMA LastSubType ==
  ASSUME NEW L \in Log, NEW i \in 1..Len(L)
  PROVE  /\ LastSub(L[i]) \in Nat
         /\ L[i].ops # <<>> => LastSub(L[i]) + 1 = Len(L[i].ops)
         /\ L[i].ops = <<>> => LastSub(L[i]) = 0
<1>1. PICK y \in Ops : y = L[i].ops
  BY LogEntry
<1>2. Len(y) \in Nat /\ (y # <<>> => Len(y) >= 1)
  BY DEF Ops
<1> QED
  BY <1>1, <1>2 DEF LastSub

\* raft_server_get_raft_header_to_apply()
LEMMA HeaderIs ==
  ASSUME TypeOK, Logs, StoresCorrect, NEW s \in Servers, ApplyIsDue(s),
         NEW m, m = HeaderToApply(s)
  PROVE  /\ NextIn(clog, sm[s].la, m) /\ m.idx <= raft[s].commit
         /\ m.kv = sm[s].la.kv
<1>0. PICK la : la = sm[s].la
  OBVIOUS
<1>1. /\ clog \in Log /\ Len(clog) \in Nat /\ raft[s].commit \in Nat
      /\ la \in Applied
  BY <1>0, Typed, ServerFields, StateFields
<1>2. /\ la.idx \in Nat /\ la.sub \in Nat /\ la.max \in Nat
      /\ la.crc \in SUBSET Nat /\ la.kv \in Ops
  BY <1>1, AppliedType
<1>3. Place(clog, la) /\ la.crc = 1..WholeIdx(la)
  BY <1>0 DEF StoresCorrect, Correct
<1>4. /\ la.sub # la.max => la.idx # 0 /\ la.sub < la.max
      /\ la.sub # la.max => WholeIdx(la) = la.idx - 1
      /\ la.sub = la.max => WholeIdx(la) = la.idx
  BY <1>1, <1>3, PlaceWhole
<1>5. /\ raft[s].commit <= Len(clog) /\ raft[s].commit <= Len(raft[s].log)
      /\ \A i \in 1..raft[s].commit : raft[s].log[i] = clog[i]
  BY DEF Logs, LogHolds, Agree
<1>6. la.idx < raft[s].commit \/ (la.idx = raft[s].commit /\ la.sub < la.max)
  BY <1>0 DEF ApplyIsDue, NeedsApply
<1>7. PICK n : n = NextApplyIdx(la)
  OBVIOUS
<1>8. /\ n \in Applied /\ n.kv = la.kv /\ n.crc = la.crc
      /\ \/ la.sub = la.max /\ n.idx = la.idx + 1 /\ n.sub = 0
         \/ la.sub # la.max /\ n.idx = la.idx /\ n.sub = la.sub + 1
  <2>1. CASE la.sub = la.max
    <3>1. PICK i \in Nat : i = la.idx + 1
      BY <1>2
    <3>2. n = [la EXCEPT !.idx = i, !.sub = 0, !.max = 0]
      BY <1>7, <2>1, <3>1 DEF NextApplyIdx
    <3>3. /\ n \in Applied /\ n.kv = la.kv /\ n.crc = la.crc /\ n.idx = i
          /\ n.sub = 0
      BY <1>1, <3>2 DEF Applied
    <3> QED
      BY <2>1, <3>1, <3>3
  <2>2. CASE la.sub # la.max
    <3>1. PICK i \in Nat : i = la.sub + 1
      BY <1>2
    <3>2. n = [la EXCEPT !.sub = i]
      BY <1>7, <2>2, <3>1 DEF NextApplyIdx
    <3>3. /\ n \in Applied /\ n.kv = la.kv /\ n.crc = la.crc
          /\ n.idx = la.idx /\ n.sub = i
      BY <1>1, <3>2 DEF Applied
    <3> QED
      BY <2>2, <3>1, <3>3
  <2> QED
    BY <2>1, <2>2
<1>9. n.idx \in 1..raft[s].commit /\ n.idx \in 1..Len(clog)
  BY <1>1, <1>2, <1>4, <1>5, <1>6, <1>8
<1>10. raft[s].log[n.idx] = clog[n.idx]
  BY <1>5, <1>9
<1>11. PICK k \in Nat : k = LastSub(clog[n.idx])
  BY <1>1, <1>9, LastSubType
<1>12. PICK cr : cr = Xor(la.crc, n.idx)
  OBVIOUS
<1>13. m = [n EXCEPT !.max = k, !.crc = cr]
  BY <1>0, <1>7, <1>10, <1>11, <1>12 DEF HeaderToApply, LastSub
<1>14. cr = 1..n.idx
  <2>1. n.idx \in Nat /\ n.idx # 0
    BY <1>1, <1>9
  <2>2. WholeIdx(la) = n.idx - 1
    BY <1>2, <1>4, <1>8
  <2> QED
    BY <1>3, <1>12, <2>1, <2>2, XorNext
<1>15. cr \in SUBSET Nat /\ n.idx \in Nat
  BY <1>1, <1>9, <1>14
<1>16. /\ m \in Applied /\ m.idx = n.idx /\ m.sub = n.sub /\ m.max = k
       /\ m.crc = cr /\ m.kv = n.kv
  BY <1>8, <1>13, <1>15 DEF Applied
<1>17. Place(clog, m)
  <2>1. m.idx <= Len(clog) /\ m.idx # 0
    BY <1>1, <1>9, <1>16
  <2>2. m.sub <= m.max
    <3>1. CASE la.sub = la.max
      BY <1>8, <1>16, <3>1
    <3>2. CASE la.sub # la.max
      <4>1. la.max = k
        BY <1>3, <1>4, <1>8, <1>11, <3>2 DEF Place
      <4> QED
        BY <1>2, <1>4, <1>8, <1>16, <3>2, <4>1
    <3> QED
      BY <3>1, <3>2
  <2> QED
    BY <1>11, <1>16, <2>1, <2>2 DEF Place
<1>18. m.idx # 0 /\ m.idx <= raft[s].commit
  BY <1>1, <1>9, <1>16
<1> QED
  BY <1>0, <1>8, <1>11, <1>14, <1>16, <1>17, <1>18 DEF NextIn

\* raft_server_sm_apply_opt(): st2 is the new state, and the old one may be on
\* disk.
LEMMA ApplyStep ==
  ASSUME TypeOK, Logs, StoresCorrect, Acks, NEW s \in Servers,
         NEW st2 \in State, SmApplyOpt(s, st2),
         Correct(clog, st2, s \notin restarted), Numbered(st2),
         st2.la.idx <= raft[s].commit,
         acked' \subseteq ToSet(All(clog)),
         \A x \in Servers : Newest(top, raft[x]) =>
           HasAnswered(acked', raft[x], IF x = s THEN st2 ELSE sm[x]),
         UNCHANGED <<top, clog, raft, stale, restarted, won>>
  PROVE  /\ sm' \in [Servers -> State] /\ disk' \in [Servers -> State]
         /\ sm'[s] = st2 /\ \A x \in Servers : x # s => sm'[x] = sm[x]
         /\ Logs' /\ StoresCorrect' /\ Acks'
<1>1. sm \in [Servers -> State] /\ disk \in [Servers -> State]
  BY DEF TypeOK
<1>2. /\ sm' \in [Servers -> State] /\ sm'[s] = st2
      /\ \A x \in Servers : x # s => sm'[x] = sm[x]
  BY <1>1 DEF SmApplyOpt
<1>3. /\ disk' \in [Servers -> State]
      /\ disk'[s] = disk[s] \/ disk'[s] = sm[s]
      /\ \A x \in Servers : x # s => disk'[x] = disk[x]
  <2>1. sm[s] \in State
    BY <1>1
  <2> QED
    BY <1>1, <2>1 DEF SmApplyOpt
<1>4. Logs'
  <2>0. /\ raft[s].log \in Log /\ clog \in Log /\ raft[s].commit \in Nat
        /\ st2.la.idx \in Nat /\ Len(raft[s].log) \in Nat /\ Len(clog) \in Nat
    BY Typed, ServerFields, StateFields
  <2>1. LogHolds(top, clog, raft[s], sm[s], disk[s])
    BY DEF Logs
  <2>2. Agree(raft[s].log, clog, st2.la.idx)
    BY <2>0, <2>1, AgreeFewer DEF LogHolds
  <2>3. LogHolds(top, clog, raft[s], st2, disk'[s])
    BY <1>3, <2>1, <2>2 DEF LogHolds
  <2>4. \A x \in Servers : LogHolds(top, clog, raft[x], sm'[x], disk'[x])
    BY <1>2, <1>3, <2>3 DEF Logs
  <2> QED
    BY <2>4 DEF Logs
<1>5. StoresCorrect'
  BY <1>2, <1>3 DEF StoresCorrect
<1>6. Acks'
  <2>1. \A x \in Servers : Numbered(sm'[x]) /\ Numbered(disk'[x])
    BY <1>2, <1>3 DEF Acks
  <2>2. \A x \in Servers :
          Newest(top, raft[x]) => HasAnswered(acked', raft[x], sm'[x])
    BY <1>2
  <2>3. ASSUME NEW x \in Servers, NEW y \in Servers, Newest(top, raft[x]),
               raft[y].role = "leader", y # x
        PROVE  Behind(raft[x], raft[y], sm'[y])
    <3>1. Behind(raft[x], raft[y], sm[y])
      BY <2>3 DEF Acks
    <3>2. CASE y # s
      BY <1>2, <3>1, <3>2
    <3>3. CASE y = s
      <4>1. /\ raft[y].commit \in Nat /\ raft[x].initial \in Nat
            /\ st2.la.idx \in Nat
        BY Typed, ServerFields, StateFields
      <4> QED
        BY <1>2, <3>1, <3>3, <4>1 DEF Behind
    <3> QED
      BY <3>2, <3>3
  <2> QED
    BY <2>1, <2>2, <2>3 DEF Acks
<1> QED
  BY <1>2, <1>3, <1>4, <1>5, <1>6

\* An apply goes on from what was applied.
LEMMA ActiveLater ==
  ASSUME NEW r \in Server, NEW st \in State, NEW st2 \in State,
         st.la.idx <= st2.la.idx, Active(r, st)
  PROVE  Active(r, st2)
<1>1. st.la.idx \in Nat /\ st2.la.idx \in Nat /\ r.initial \in Nat
  BY StateFields, ServerFields
<1> QED
  BY <1>1 DEF Active

\* Requests of the term stay where they may be.
LEMMA OfTheTermLater ==
  ASSUME NEW r \in Server, NEW st \in State, NEW st2 \in State,
         st.la.idx <= st2.la.idx, NEW b, NEW p, NEW p2, NEW ws,
         \A c \in Clients : p2[c].term = p[c].term, OfTheTerm(r, st, b, p, ws)
  PROVE  OfTheTerm(r, st2, b, p2, ws)
BY ActiveLater DEF OfTheTerm

\* A leader that applies its marker has nothing under way.
LEMMA InTermMarker ==
  ASSUME NEW r \in Server, NEW st \in State, NEW st2 \in State,
         NEW L \in Log, NEW known, Correct(L, st2, known),
         Agree(r.log, L, st2.la.idx), st2.la.sub = st2.la.max,
         st2.app = st.app, st2.la.idx = st.la.idx + 1,
         NEW b \in Buffer, NEW p, NEW ws, InTermAt(r, st, b, p, ws)
  PROVE  InTermAt(r, st2, b, p, ws)
<1>0. /\ st.la.idx \in Nat /\ st2.la.idx \in Nat /\ r.initial \in Nat
      /\ st2.la \in Applied /\ r.log \in Log /\ Len(r.log) \in Nat
      /\ st.app \in Ops
  BY StateFields, ServerFields
<1>1. /\ InOrder(All(r.log)) /\ Supplied(r.log) /\ OfTheTerm(r, st, b, p, ws)
      /\ Queued(r, st, b, p, ws)
  BY DEF InTermAt
<1>2. OfTheTerm(r, st2, b, p, ws)
  BY <1>0, <1>1, OfTheTermLater
<1>3. Fresh(b, r.term) => b.ws = CoOps(b)
  BY <1>1 DEF Queued
<1>4. \A c : AppSeq(st2, c) = AppSeq(st, c)
  BY DEF AppSeq
<1>5. CASE Active(r, st)
  <2>1. \A z : InFlight(r.term, st, p, z) => InFlight(r.term, st2, p, z)
    BY <1>4 DEF InFlight
  <2> QED
    BY <1>1, <1>2, <1>5, <2>1 DEF InTermAt, Queued
<1>6. CASE ~Active(r, st)
  <2>1. ASSUME Active(r, st2)
        PROVE  InFlight(r.term, st2, p, Queue(r, b))
    <3>1. Elected(r) /\ Len(r.log) = r.initial + 1
      BY <1>1, <1>6, <2>1 DEF OfTheTerm, Active
    <3>2. ~(st.la.idx > r.initial) /\ st2.la.idx > r.initial
      BY <1>6, <2>1, <3>1 DEF Active
    <3>3. st2.la.idx = Len(r.log)
      BY <1>0, <3>1, <3>2
    <3>4. Flat(L, st2.la.idx) = All(r.log)
      BY <1>0, <3>3, AgreeFlat DEF All
    <3>5. st2.app = All(r.log)
      BY <1>0, <3>4, UptoBetween DEF Correct
    <3>6. Queue(r, b) = All(r.log)
      <4>1. CASE Fresh(b, r.term)
        <5>1. b.items \in Seq(Item) /\ Len(b.items) \in Nat
          BY BufferFields
        <5>2. \A i \in 1..Len(b.items) : FALSE
          BY <1>1, <1>6, <4>1 DEF OfTheTerm, Fresh
        <5>3. ~(1 <= Len(b.items))
          BY <5>1, <5>2
        <5>4. Len(b.items) = 0
          BY <5>1, <5>3
        <5>5. CoOps(b) = <<>>
          <6>1. CoOps(b) \in Ops /\ Len(CoOps(b)) = 0
            BY <5>1, <5>4, CoOpsType DEF CoOps
          <6> QED
            BY <6>1 DEF Ops
        <5>6. Queue(r, b) = All(r.log) \o CoOps(b) /\ All(r.log) \in Ops
          BY <4>1, QueueType
        <5> QED
          BY <5>5, <5>6, ConcatEmpty
      <4>2. CASE ~Fresh(b, r.term)
        BY <4>2, QueueType
      <4> QED
        BY <4>1, <4>2
    <3>7. \A k \in Len(st2.app) + 1 .. Len(All(r.log)) : FALSE
      <4>1. Len(st2.app) \in Nat
        BY StateFields
      <4> QED
        BY <3>5, <4>1
    <3> QED
      BY <1>1, <3>6, <3>7 DEF InFlight
  <2>2. \A w \in Workers : ~(ws[w].pc = "write" /\ ws[w].term = r.term)
    BY <1>1, <1>6 DEF OfTheTerm, Checked
  <2>3. Queued(r, st2, b, p, ws)
    BY <1>3, <2>1, <2>2 DEF Queued
  <2> QED
    BY <1>1, <1>2, <2>3 DEF InTermAt
<1> QED
  BY <1>5, <1>6

\* The record after a marker
LEMMA MarkerIs ==
  ASSUME NEW L \in Log, NEW st \in State, NEW known, Correct(L, st, known),
         NEW m, NextIn(L, st.la, m), m.kv = st.la.kv, L[m.idx].ops = <<>>,
         NEW st2, st2.la = m, st2.app = st.app
  PROVE  /\ SetLastApplied(st.la, m) = m /\ Correct(L, st2, known)
         /\ m.sub = m.max /\ m.idx = st.la.idx + 1
<1>0. PICK la : la = st.la
  OBVIOUS
<1>1. /\ la \in Applied /\ m \in Applied /\ Place(L, la) /\ Place(L, m)
      /\ m.idx # 0 /\ st.app = Upto(L, la)
  BY <1>0, StateFields DEF NextIn, Correct
<1>2. /\ la.idx \in Nat /\ la.sub \in Nat /\ la.max \in Nat
      /\ m.idx \in Nat /\ m.sub \in Nat /\ m.max \in Nat
  BY <1>1, AppliedType
<1>3. m.max = 0
  BY DEF NextIn, LastSub
<1>4. la.sub = la.max
  <2> SUFFICES ASSUME la.sub # la.max PROVE FALSE
    OBVIOUS
  <2>1. m.idx = la.idx /\ la.sub < la.max /\ la.idx # 0
    BY <1>0, <1>1, PlaceWhole DEF NextIn
  <2>2. la.max = 0
    BY <1>1, <2>1 DEF Place, LastSub
  <2> QED
    BY <1>2, <2>1, <2>2
<1>5. m.idx = la.idx + 1 /\ m.sub = 0
  BY <1>0, <1>4 DEF NextIn
<1>6. SetLastApplied(la, m) = m
  BY <1>3, <1>5 DEF SetLastApplied
<1>8. Upto(L, m) = Upto(L, la)
  BY <1>1, <1>4, <1>5, UptoMarker
<1>9. Flat(L, m.idx) = Upto(L, m) /\ Flat(L, la.idx) = Upto(L, la)
  BY <1>1, <1>3, <1>4, <1>5, UptoBetween
<1>10. WholeIdx(m) = m.idx /\ WholeIdx(la) = la.idx
  BY <1>3, <1>4, <1>5 DEF WholeIdx
<1>11. m.crc = 1..WholeIdx(m)
  BY <1>10 DEF NextIn
<1>12. known => m.kv = Flat(L, WholeIdx(m))
  BY <1>0, <1>8, <1>9, <1>10 DEF Correct
<1> QED
  BY <1>0, <1>1, <1>3, <1>5, <1>6, <1>8, <1>11, <1>12 DEF Correct

\* The marker of a leader is applied.
LEMMA ApplyMarkerKeeps ==
  ASSUME IndInv, NEW s \in Servers, ApplyMarker(s)
  PROVE  IndInv'
<1>0. TypeOK /\ Logs /\ StoresCorrect /\ Applying /\ Acks /\ Workings
  BY DEF IndInv
<1>1. PICK m : m = HeaderToApply(s)
  OBVIOUS
<1>2. PICK st2 : st2 = [sm[s] EXCEPT !.la = SetLastApplied(sm[s].la, m)]
  OBVIOUS
<1>3. /\ ApplyIsDue(s) /\ raft[s].log[m.idx].ops = <<>>
      /\ SmApplyOpt(s, st2)
      /\ evp' = [evp EXCEPT ![s] =
                   NeedsApply(SetLastApplied(sm[s].la, m), raft[s].commit)]
      /\ UNCHANGED <<top, clog, raft, co, pend, wk, nai, fatal, acked, stale,
                     late, restarted, won, bounds>>
  BY <1>1, <1>2 DEF ApplyMarker, hist
<1>4. NextIn(clog, sm[s].la, m) /\ m.idx <= raft[s].commit
      /\ m.kv = sm[s].la.kv
  BY <1>0, <1>1, <1>3, HeaderIs
<1>5. /\ raft[s] \in Server /\ co[s] \in Buffer /\ sm[s] \in State
      /\ clog \in Log /\ raft[s].commit \in Nat
      /\ Len(clog) \in Nat /\ Len(raft[s].log) \in Nat
  BY <1>0, Typed, ServerFields
<1>6. m.idx \in Nat /\ m.idx # 0
  BY <1>4, AppliedType DEF NextIn
<1>7. Agree(raft[s].log, clog, m.idx) /\ raft[s].log[m.idx] = clog[m.idx]
  <2>1. Agree(raft[s].log, clog, raft[s].commit)
    BY <1>0 DEF Logs, LogHolds
  <2>2. Agree(raft[s].log, clog, m.idx)
    BY <1>4, <1>5, <1>6, <2>1, AgreeFewer
  <2>3. m.idx \in 1..m.idx
    BY <1>6
  <2> QED
    BY <2>2, <2>3 DEF Agree
<1>8. Correct(clog, sm[s], s \notin restarted)
  BY <1>0 DEF StoresCorrect
<1>9. clog[m.idx].ops = <<>>
  BY <1>3, <1>7
<1>10. /\ st2 \in State /\ st2.la = m /\ st2.app = sm[s].app
       /\ Correct(clog, st2, s \notin restarted)
       /\ m.sub = m.max /\ m.idx = sm[s].la.idx + 1
  <2>1. PICK st \in State : st = sm[s]
    BY <1>5
  <2>2. /\ Correct(clog, st, s \notin restarted) /\ NextIn(clog, st.la, m)
        /\ m.kv = st.la.kv /\ m \in Applied
    BY <1>4, <1>8, <2>1 DEF NextIn
  <2>3. PICK st3 : st3 = [st EXCEPT !.la = m]
    OBVIOUS
  <2>4. st3 \in State /\ st3.la = m /\ st3.app = st.app
    BY <2>2, <2>3 DEF State
  <2>5. /\ SetLastApplied(st.la, m) = m
        /\ Correct(clog, st3, s \notin restarted)
        /\ m.sub = m.max /\ m.idx = st.la.idx + 1
    BY <1>5, <1>9, <2>2, <2>4, MarkerIs
  <2>6. st2 = st3
    BY <1>2, <2>1, <2>3, <2>5
  <2> QED
    BY <2>1, <2>4, <2>5, <2>6
<1>11. Numbered(st2)
  BY <1>0, <1>10 DEF Acks, Numbered, AppSeq
<1>12. acked' \subseteq ToSet(All(clog))
  BY <1>0, <1>3 DEF Acks
<1>13. \A x \in Servers : Newest(top, raft[x]) =>
         HasAnswered(acked', raft[x], IF x = s THEN st2 ELSE sm[x])
  BY <1>0, <1>3, <1>10 DEF Acks, HasAnswered
<1>14. /\ sm' \in [Servers -> State] /\ disk' \in [Servers -> State]
       /\ sm'[s] = st2 /\ \A x \in Servers : x # s => sm'[x] = sm[x]
       /\ Logs' /\ StoresCorrect' /\ Acks'
  BY <1>0, <1>3, <1>4, <1>10, <1>11, <1>12, <1>13, ApplyStep
<1>15. TypeOK'
  <2>1. NeedsApply(SetLastApplied(sm[s].la, m), raft[s].commit) \in BOOLEAN
    BY DEF NeedsApply
  <2>2. evp' \in [Servers -> BOOLEAN]
    BY <1>0, <1>3, <2>1 DEF TypeOK
  <2> QED
    BY <1>0, <1>3, <1>14, <2>2 DEF TypeOK
<1>16. Applying'
  <2>1. nai[s] = Idle
    BY <1>3 DEF ApplyIsDue, MainIdle
  <2>2. ApplyingAt(raft[s], st2, nai[s], s \notin restarted)
    BY <1>4, <1>10, <2>1 DEF ApplyingAt
  <2> QED
    BY <1>0, <1>3, <1>14, <2>2 DEF Applying
<1>17. Workings'
  BY <1>0, <1>3 DEF Workings
<1>18. ~late' => InTerm'
  <2> SUFFICES ASSUME InTerm PROVE InTerm'
    BY <1>3 DEF IndInv
  <2>1. InTermAt(raft[s], sm[s], co[s], pend[s], wk[s])
    BY DEF InTerm
  <2>2. InTermAt(raft[s], st2, co[s], pend[s], wk[s])
    BY <1>5, <1>7, <1>10, <2>1, InTermMarker
  <2> QED
    BY <1>3, <1>14, <2>2 DEF InTerm
<1> QED
  BY <1>14, <1>15, <1>16, <1>17, <1>18 DEF IndInv

\* raft_server_set_last_applied()
LEMMA LastAppliedIs ==
  ASSUME NEW la \in Applied, NEW n \in Applied, NEW la2,
         la2 = SetLastApplied(la, n)
  PROVE  /\ la2 \in Applied /\ la2.idx = n.idx /\ la2.sub = n.sub
         /\ la2.max = n.max
         /\ n.sub = n.max => la2.crc = n.crc /\ la2.kv = n.kv
         /\ n.sub # n.max => la2.crc = la.crc /\ la2.kv = la.kv
<1>1. CASE n.sub = n.max
  BY <1>1 DEF SetLastApplied
<1>2. CASE n.sub # n.max
  <2>1. la.crc \in SUBSET Nat /\ la.kv \in Ops
    BY AppliedType
  <2>2. la2 = [n EXCEPT !.crc = la.crc, !.kv = la.kv]
    BY <1>2 DEF SetLastApplied
  <2>3. PICK cr \in SUBSET Nat, y \in Ops : cr = la.crc /\ y = la.kv
    BY <2>1
  <2>4. la2 = [n EXCEPT !.crc = cr, !.kv = y]
    BY <2>2, <2>3
  <2>5. /\ la2 \in Applied /\ la2.idx = n.idx /\ la2.sub = n.sub
        /\ la2.max = n.max /\ la2.crc = cr /\ la2.kv = y
    BY <2>4 DEF Applied
  <2> QED
    BY <1>2, <2>3, <2>5
<1> QED
  BY <1>1, <1>2

\* The sub-entry that is next, also within an entry
LEMMA NextSubEntryIs ==
  ASSUME TypeOK, Logs, StoresCorrect, Applying, NEW s \in Servers,
         nai[s] # Idle \/ ApplyIsDue(s), NEW m, m = NextSubEntry(s)
  PROVE  /\ NextIn(clog, sm[s].la, m) /\ m.idx <= raft[s].commit
         /\ s \notin restarted => m.kv = sm[s].app
<1>0. PICK la : la = sm[s].la
  OBVIOUS
<1>1. la \in Applied /\ clog \in Log /\ nai[s] \in Applied \cup {Idle}
  BY <1>0, Typed, StateFields
<1>2. /\ la.idx \in Nat /\ la.sub \in Nat /\ la.max \in Nat
  BY <1>1, AppliedType
<1>3. /\ Place(clog, la) /\ sm[s].app = Upto(clog, la)
      /\ s \notin restarted => la.kv = Flat(clog, WholeIdx(la))
  BY <1>0 DEF StoresCorrect, Correct
<1>4. ApplyingAt(raft[s], sm[s], nai[s], s \notin restarted)
  BY DEF Applying
<1>5. CASE nai[s] = Idle
  <2>1. ApplyIsDue(s) /\ m = HeaderToApply(s)
    BY <1>5 DEF NextSubEntry
  <2>2. /\ NextIn(clog, sm[s].la, m) /\ m.idx <= raft[s].commit
        /\ m.kv = sm[s].la.kv
    BY <2>1, HeaderIs
  <2>3. ASSUME s \notin restarted PROVE m.kv = sm[s].app
    <3>1. la.sub = la.max
      BY <1>0, <1>4, <1>5, <2>3 DEF ApplyingAt
    <3>2. WholeIdx(la) = la.idx
      BY <3>1 DEF WholeIdx
    <3>3. Upto(clog, la) = Flat(clog, la.idx)
      BY <1>1, <1>3, <3>1, UptoBetween
    <3> QED
      BY <1>0, <1>3, <2>2, <2>3, <3>2, <3>3
  <2> QED
    BY <2>2, <2>3
<1>6. CASE nai[s] # Idle
  <2>1. m = nai[s] /\ m \in Applied
    BY <1>1, <1>6 DEF NextSubEntry
  <2>2. AtHand(raft[s], sm[s], m, s \notin restarted)
    BY <1>4, <1>6, <2>1 DEF ApplyingAt
  <2>3. /\ m.idx = la.idx /\ m.sub = la.sub + 1 /\ la.sub < la.max
        /\ m.max = la.max /\ m.crc = 1..la.idx /\ la.idx # 0
        /\ la.idx <= raft[s].commit
        /\ s \notin restarted => m.kv = sm[s].app
    BY <1>0, <2>2 DEF AtHand
  <2>4. la.max = LastSub(clog[la.idx]) /\ la.idx <= Len(clog)
    BY <1>3, <2>3 DEF Place
  <2>5. Place(clog, m)
    BY <1>2, <2>3, <2>4 DEF Place
  <2>6. la.sub # la.max
    BY <1>2, <2>3
  <2> QED
    BY <1>0, <2>1, <2>3, <2>4, <2>5, <2>6 DEF NextIn
<1> QED
  BY <1>5, <1>6

\* The state after sub-entry m, with write op
LEMMA SubEntryIs ==
  ASSUME NEW L \in Log, NEW st \in State, NEW known, Correct(L, st, known),
         NEW m, NextIn(L, st.la, m), known => m.kv = st.app,
         L[m.idx].ops # <<>>, NEW op, op = L[m.idx].ops[m.sub + 1],
         NEW n \in Applied, n.idx = m.idx, n.sub = m.sub, n.max = m.max,
         n.crc = m.crc, n.kv = Append(m.kv, op),
         NEW st2, st2.la = SetLastApplied(st.la, n), st2.app = Append(st.app, op)
  PROVE  op \in Op /\ st2.la \in Applied /\ Correct(L, st2, known)
<1>0. PICK la : la = st.la
  OBVIOUS
<1>1. PICK la2 : la2 = st2.la
  OBVIOUS
<1>2. /\ la \in Applied /\ m \in Applied /\ Place(L, la) /\ Place(L, m)
      /\ m.idx # 0 /\ st.app = Upto(L, la)
  BY <1>0, StateFields DEF NextIn, Correct
<1>3. /\ la2 \in Applied /\ la2.idx = m.idx /\ la2.sub = m.sub
      /\ la2.max = m.max
      /\ m.sub = m.max => la2.crc = m.crc /\ la2.kv = Append(m.kv, op)
      /\ m.sub # m.max => la2.crc = la.crc /\ la2.kv = la.kv
  BY <1>0, <1>1, <1>2, LastAppliedIs
<1>4. /\ la.idx \in Nat /\ la.sub \in Nat /\ la.max \in Nat
      /\ m.idx \in Nat /\ m.sub \in Nat /\ m.max \in Nat
  BY <1>2, AppliedType
<1>5. /\ \/ la.sub = la.max /\ m.idx = la.idx + 1 /\ m.sub = 0
         \/ la.sub # la.max /\ m.idx = la.idx /\ m.sub = la.sub + 1
  BY <1>0 DEF NextIn
<1>6. /\ Upto(L, m) = Append(st.app, op)
      /\ m.sub + 1 \in 1..Len(L[m.idx].ops)
  BY <1>2, <1>5, UptoNext
<1>7. op \in Op
  <2>1. L[m.idx].ops \in Ops
    BY <1>2, PlaceEntry
  <2> QED
    BY <1>6, <2>1 DEF Ops
<1>8. Place(L, la2) /\ Upto(L, la2) = Upto(L, m)
  BY <1>2, <1>3 DEF Place, Upto
<1>9. WholeIdx(la) = m.idx - 1
  BY <1>2, <1>4, <1>5, PlaceWhole
<1>10. /\ m.sub = m.max => WholeIdx(la2) = m.idx
       /\ m.sub # m.max => WholeIdx(la2) = m.idx - 1
  BY <1>3 DEF WholeIdx
<1>11. la2.crc = 1..WholeIdx(la2)
  <2>1. la.crc = 1..WholeIdx(la) /\ m.crc = 1..m.idx
    BY <1>0 DEF Correct, NextIn
  <2> QED
    BY <1>3, <1>9, <1>10, <2>1
<1>12. ASSUME known PROVE la2.kv = Flat(L, WholeIdx(la2))
  <2>1. CASE m.sub = m.max
    <3>1. Upto(L, m) = Flat(L, m.idx)
      BY <1>2, <2>1, UptoBetween
    <3> QED
      BY <1>3, <1>6, <1>10, <1>12, <2>1, <3>1
  <2>2. CASE m.sub # m.max
    <3>1. la.kv = Flat(L, WholeIdx(la))
      BY <1>0, <1>12 DEF Correct
    <3> QED
      BY <1>3, <1>9, <1>10, <2>2, <3>1
  <2> QED
    BY <2>1, <2>2
<1> QED
  BY <1>1, <1>3, <1>6, <1>7, <1>8, <1>11, <1>12 DEF Correct

\* The application has numbered the writes.
LEMMA NumberedNext ==
  ASSUME NEW st, st.app \in Ops, Numbered(st), NEW op \in Op, NEW st2,
         st2.app = Append(st.app, op), op.n = AppSeq(st, op.c) + 1
  PROVE  Numbered(st2)
<1>1. /\ AppSeq(st2, op.c) = AppSeq(st, op.c) + 1
      /\ \A c : c # op.c => AppSeq(st2, c) = AppSeq(st, c)
  BY AppSeqAppend
<1>2. \A c : AppSeq(st, c) \in Nat
  BY AppSeqIs
<1>3. ToSet(st.app) \subseteq ToSet(st2.app) /\ op \in ToSet(st2.app)
  <2>1. /\ Len(st2.app) = Len(st.app) + 1 /\ Len(st.app) \in Nat
        /\ st2.app[Len(st.app) + 1] = op
        /\ \A i \in 1..Len(st.app) : st2.app[i] = st.app[i]
        /\ st2.app \in Ops
    BY DEF Ops
  <2>2. Begins(st.app, st2.app)
    BY <2>1 DEF Begins
  <2>3. ToSet(st.app) \subseteq ToSet(st2.app)
    BY <2>1, <2>2, BeginsSet DEF Ops
  <2>4. Len(st.app) + 1 \in 1..Len(st2.app)
    BY <2>1
  <2>5. DOMAIN st2.app = 1..Len(st2.app)
    BY <2>1 DEF Ops
  <2> QED
    BY <2>1, <2>3, <2>4, <2>5 DEF ToSet
<1> SUFFICES ASSUME NEW c \in Clients, NEW n \in 1..AppSeq(st2, c)
             PROVE  [c |-> c, n |-> n] \in ToSet(st2.app)
  BY DEF Numbered
<1>4. CASE n \in 1..AppSeq(st, c)
  BY <1>3, <1>4 DEF Numbered
<1>5. CASE n \notin 1..AppSeq(st, c)
  <2>1. c = op.c /\ n = AppSeq(st, c) + 1
    <3>1. c = op.c
      BY <1>1, <1>5
    <3> QED
      BY <1>1, <1>2, <1>5, <3>1
  <2>2. op = [c |-> op.c, n |-> op.n]
    BY DEF Op
  <2> QED
    BY <1>3, <2>1, <2>2
<1> QED
  BY <1>4, <1>5

\* Each write is the next one of its client.
LEMMA NextNumber ==
  ASSUME NEW st, st.app \in Ops, NEW op \in Op, NEW z \in Ops, InOrder(z),
         Begins(Append(st.app, op), z)
  PROVE  op.n = AppSeq(st, op.c) + 1 /\ Len(st.app) + 1 <= Len(z)
         /\ z[Len(st.app) + 1] = op
<1>0. PICK x \in Ops : x = st.app
  OBVIOUS
<1>1. PICK y \in Ops : y = Append(st.app, op)
  <2>1. Append(x, op) \in Ops
    BY DEF Ops
  <2> QED
    BY <1>0, <2>1
<1>2. /\ Len(y) = Len(st.app) + 1 /\ Len(st.app) \in Nat
      /\ y[Len(st.app) + 1] = op
      /\ \A i \in 1..Len(st.app) : y[i] = st.app[i]
  BY <1>1 DEF Ops
<1>3. Len(st.app) + 1 \in 1..Len(y)
  BY <1>2
<1>4. Len(y) <= Len(z) /\ z[Len(st.app) + 1] = op
  BY <1>1, <1>2, <1>3 DEF Begins
<1>5. InOrder(y)
  BY <1>1, InOrderBegins
<1>6. op.n = CountOf(y, Len(st.app) + 1, op.c)
  BY <1>2, <1>3, <1>5 DEF InOrder
<1>7. CountOf(y, Len(st.app) + 1, op.c) = CountOf(y, Len(st.app), op.c) + 1
  BY <1>2, CountNext
<1>8. CountOf(y, Len(st.app), op.c) = CountOf(st.app, Len(st.app), op.c)
  BY <1>2, CountSame
<1>9. AppSeq(st, op.c) = CountOf(st.app, Len(st.app), op.c)
  BY AppSeqIs
<1> QED
  BY <1>2, <1>4, <1>6, <1>7, <1>8, <1>9

\* What is under way after a write was applied
LEMMA InTermApply ==
  ASSUME NEW r \in Server, NEW st \in State, NEW st2 \in State,
         Elected(r) => r.log[r.initial + 1].ops = <<>>,
         Begins(st2.app, All(r.log)),
         st2.la.idx # 0, r.log[st2.la.idx].ops # <<>>,
         st.la.idx <= st2.la.idx, st2.la.idx <= st.la.idx + 1,
         NEW op \in Op, st2.app = Append(st.app, op),
         NEW b \in Buffer, NEW p \in [Clients -> Mark], NEW p2,
         \A c \in Clients : c # op.c => p2[c] = p[c],
         \A c \in Clients : p2[c].term = p[c].term,
         NEW ws \in [Workers -> Request \cup {Idle}], InTermAt(r, st, b, p, ws)
  PROVE  InTermAt(r, st2, b, p2, ws)
<1>0. /\ st.la.idx \in Nat /\ st2.la.idx \in Nat /\ r.initial \in Nat
      /\ r.log \in Log /\ r.term \in Nat /\ st.app \in Ops
  BY StateFields, ServerFields
<1>1. /\ InOrder(All(r.log)) /\ Supplied(r.log) /\ OfTheTerm(r, st, b, p, ws)
      /\ Queued(r, st, b, p, ws)
  BY DEF InTermAt
<1>2. OfTheTerm(r, st2, b, p2, ws)
  <2>1. Active(r, st) => Active(r, st2)
    BY ActiveLater
  <2>2. Elected(r) /\ ~Active(r, st2) => Len(r.log) = r.initial + 1
    BY <1>1, <2>1 DEF OfTheTerm
  <2>3. /\ \A w \in Workers : Checked(ws[w]) /\ ws[w].term = r.term => Active(r, st2)
        /\ \A i \in 1..Len(b.items) : b.items[i].term = r.term => Active(r, st2)
    BY <1>1, <2>1 DEF OfTheTerm
  <2>4. ASSUME NEW c \in Clients, p2[c].term = r.term
        PROVE  Active(r, st2) \/ r.term = 0
    BY <1>1, <2>1, <2>4 DEF OfTheTerm
  <2> QED
    BY <2>2, <2>3, <2>4 DEF OfTheTerm
<1>3. Queued(r, st2, b, p2, ws)
  <2>1. CASE Active(r, st2)
    <3>1. Active(r, st)
      <4> SUFFICES ASSUME ~(st.la.idx > r.initial) PROVE FALSE
        BY <2>1 DEF Active
      <4>1. Elected(r) /\ st2.la.idx > r.initial
        BY <2>1 DEF Active
      <4>2. st2.la.idx = r.initial + 1
        <5>1. PICK i \in Nat, j \in Nat, k \in Nat :
                i = st.la.idx /\ j = st2.la.idx /\ k = r.initial
          BY <1>0
        <5>2. i <= j /\ j <= i + 1 /\ ~(i > k) /\ j > k
          BY <4>1, <5>1
        <5>3. j = k + 1
          BY <5>2
        <5> QED
          BY <5>1, <5>3
      <4> QED
        BY <4>1, <4>2
    <3>2. PICK z \in Ops : z = Queue(r, b)
      BY QueueType
    <3>3. InFlight(r.term, st, p, z)
      BY <1>1, <3>1, <3>2 DEF Queued
    <3>4. Begins(st2.app, z)
      <4>1. All(r.log) \in Ops
        BY QueueType
      <4>2. Begins(All(r.log), z) /\ st2.app \in Ops
        BY <3>2, QueueType, StateFields
      <4> QED
        BY <4>1, <4>2, BeginsTrans DEF Ops
    <3>5. Len(st.app) + 1 <= Len(z) /\ z[Len(st.app) + 1] = op
      BY <1>0, <3>3, <3>4, NextNumber DEF InFlight
    <3>6. InFlight(r.term, st2, p2, z)
      BY <1>0, <3>3, <3>5, InFlightApply
    <3>7. ASSUME NEW w \in Workers, ws[w].pc = "write", ws[w].term = r.term
          PROVE  InFlight(r.term, st2, p2, Append(z, ws[w].op))
      <4>1. PICK o : o = ws[w].op
        OBVIOUS
      <4>2. o \in Op
        <5>1. ws[w] \in Request \cup {Idle} /\ Idle.pc # "write"
          BY DEF Idle
        <5> QED
          BY <3>7, <4>1, <5>1 DEF Request
      <4>3. PICK y : y = Append(z, o)
        OBVIOUS
      <4>4. /\ y \in Ops /\ Len(y) = Len(z) + 1 /\ Len(z) \in Nat
            /\ \A i \in 1..Len(z) : y[i] = z[i]
        BY <4>2, <4>3 DEF Ops
      <4>5. InFlight(r.term, st, p, y)
        BY <1>1, <3>1, <3>2, <3>7, <4>1, <4>3 DEF Queued
      <4>6. Len(st.app) + 1 \in 1..Len(z) /\ Len(st.app) + 1 <= Len(y)
        <5>1. Len(st.app) \in Nat
          BY StateFields
        <5> QED
          BY <3>5, <4>4, <5>1
      <4>7. y[Len(st.app) + 1] = op
        BY <3>5, <4>4, <4>6
      <4>8. InFlight(r.term, st2, p2, y)
        BY <1>0, <4>4, <4>5, <4>6, <4>7, InFlightApply
      <4> QED
        BY <4>1, <4>3, <4>8
    <3> QED
      BY <1>1, <3>2, <3>6, <3>7 DEF Queued
  <2>2. CASE ~Active(r, st2)
    BY <1>1, <2>2 DEF Queued
  <2> QED
    BY <2>1, <2>2
<1> QED
  BY <1>1, <1>2, <1>3 DEF InTermAt

\* No assertion fails as long as no request is late.
LEMMA NoneFails ==
  ASSUME NEW r \in Server, NEW st \in State, NEW st2 \in State,
         NEW y \in Ops, InOrder(y),
         r.term = 0 => r.log = <<>>,
         Begins(st2.app, All(r.log)), Begins(st2.app, y),
         st2.la.idx # 0, st2.la.idx <= Len(r.log),
         NEW op \in Op, st2.app = Append(st.app, op),
         NEW b \in Buffer, NEW p \in [Clients -> Mark], NEW ws,
         InTermAt(r, st, b, p, ws)
  PROVE  /\ op.n = AppSeq(st, op.c) + 1
         /\ p[op.c].term = r.term => p[op.c].seq = op.n
<1>0. /\ st2.la.idx \in Nat /\ r.log \in Log /\ st.app \in Ops
      /\ st2.app \in Ops /\ Len(r.log) \in Nat
  BY StateFields, ServerFields
<1>1. op.n = AppSeq(st, op.c) + 1
  BY <1>0, NextNumber
<1>2. ASSUME p[op.c].term = r.term PROVE p[op.c].seq = op.n
  <2>0. op.c \in Clients
    BY OpFields
  <2>1. r.term # 0
    <3> SUFFICES ASSUME r.term = 0 PROVE FALSE
      OBVIOUS
    <3>1. r.log = <<>> /\ st2.la.idx <= Len(r.log)
      OBVIOUS
    <3>2. Len(r.log) = 0
      BY <3>1
    <3> QED
      BY <1>0, <3>1, <3>2
  <2>2. Active(r, st)
    BY <1>2, <2>0, <2>1 DEF InTermAt, OfTheTerm
  <2>3. PICK z \in Ops : z = Queue(r, b) /\ InFlight(r.term, st, p, z)
    BY <2>2, QueueType DEF InTermAt, Queued
  <2>4. Begins(st2.app, z)
    <3>1. All(r.log) \in Ops
      BY QueueType
    <3>2. Begins(All(r.log), z)
      BY <2>3, QueueType
    <3> QED
      BY <1>0, <3>1, <3>2, BeginsTrans DEF Ops
  <2>5. Len(st.app) + 1 <= Len(z) /\ z[Len(st.app) + 1] = op
    BY <1>0, <2>3, <2>4, NextNumber DEF InFlight
  <2>6. Len(st.app) + 1 \in Len(st.app) + 1 .. Len(z)
    <3>1. Len(st.app) \in Nat /\ Len(z) \in Nat
      BY StateFields DEF Ops
    <3> QED
      BY <2>5, <3>1
  <2>7. p[op.c] = [seq |-> op.n, term |-> r.term]
    BY <2>3, <2>5, <2>6 DEF InFlight
  <2> QED
    BY <2>7
<1> QED
  BY <1>1, <1>2

\* One round of the loop of raft_server_state_machine_apply()
LEMMA ApplySubEntryKeeps ==
  ASSUME IndInv, NEW s \in Servers, ApplySubEntry(s)
  PROVE  IndInv'
<1>0. TypeOK /\ Logs /\ StoresCorrect /\ Applying /\ Acks /\ Workings
  BY DEF IndInv
<1>1. PICK m : m = NextSubEntry(s)
  OBVIOUS
<1>2. PICK op : op = raft[s].log[m.idx].ops[m.sub + 1]
  OBVIOUS
<1>3. PICK n : n = [m EXCEPT !.kv = Append(m.kv, op)]
  OBVIOUS
<1>4. PICK la2 : la2 = SetLastApplied(sm[s].la, n)
  OBVIOUS
<1>5. PICK st2 : st2 = [la |-> la2, app |-> Append(sm[s].app, op)]
  OBVIOUS
<1>6. PICK why : why = ApplyFails(s, m, op)
  OBVIOUS
<1>7. /\ fatal[s] = "none" /\ (nai[s] # Idle \/ ApplyIsDue(s))
      /\ raft[s].log[m.idx].ops # <<>>
      /\ UNCHANGED <<top, clog, raft, co, wk, stale, late, restarted, won, bounds>>
      /\ \/ /\ why # "none" /\ fatal' = [fatal EXCEPT ![s] = why]
            /\ UNCHANGED <<sm, disk, pend, nai, evp, acked>>
         \/ /\ why = "none" /\ SmApplyOpt(s, st2)
            /\ pend' = [pend EXCEPT ![s][op.c].seq = 0]
            /\ InitSendReply(s, op, IsMine(s, op))
            /\ nai' = [nai EXCEPT ![s] =
                         IF la2.sub = la2.max THEN Idle
                         ELSE [n EXCEPT !.sub = @ + 1]]
            /\ evp' = IF la2.sub = la2.max
                      THEN [evp EXCEPT ![s] = NeedsApply(la2, raft[s].commit)]
                      ELSE evp
            /\ fatal' = fatal
  BY <1>1, <1>2, <1>3, <1>4, <1>5, <1>6
     DEF ApplySubEntry, Up, Abort, KvCrcUpdate, SuppPut
<1>8. /\ NextIn(clog, sm[s].la, m) /\ m.idx <= raft[s].commit
      /\ s \notin restarted => m.kv = sm[s].app
  BY <1>0, <1>1, <1>7, NextSubEntryIs
<1>9. /\ raft[s] \in Server /\ co[s] \in Buffer /\ sm[s] \in State
      /\ clog \in Log /\ raft[s].commit \in Nat /\ raft[s].log \in Log
      /\ Len(clog) \in Nat /\ Len(raft[s].log) \in Nat
      /\ pend[s] \in [Clients -> Mark] /\ top \in Nat
      /\ wk[s] \in [Workers -> Request \cup {Idle}]
      /\ sm[s].app \in Ops /\ sm[s].la \in Applied
  BY <1>0, Typed, ServerFields, StateFields
<1>10. /\ m \in Applied /\ m.idx \in Nat /\ m.idx # 0 /\ m.sub \in Nat
       /\ m.max \in Nat /\ m.kv \in Ops
  BY <1>8, AppliedType DEF NextIn
<1>11. Agree(raft[s].log, clog, m.idx) /\ raft[s].log[m.idx] = clog[m.idx]
       /\ m.idx <= Len(clog)
  <2>1. Agree(raft[s].log, clog, raft[s].commit)
    BY <1>0 DEF Logs, LogHolds
  <2>2. Agree(raft[s].log, clog, m.idx)
    BY <1>8, <1>9, <1>10, <2>1, AgreeFewer
  <2>3. m.idx \in 1..m.idx
    BY <1>10
  <2> QED
    BY <2>2, <2>3 DEF Agree
<1>12. op \in Op /\ op.c \in Clients /\ op.n \in Nat
  <2>1. PICK y : y = clog[m.idx].ops
    OBVIOUS
  <2>2. y \in Ops /\ y # <<>> /\ op = y[m.sub + 1]
    <3>1. m.idx \in 1..Len(clog)
      BY <1>9, <1>10, <1>11
    <3> QED
      BY <1>2, <1>7, <1>9, <1>11, <2>1, <3>1, LogEntry
  <2>3. m.sub <= Len(y) - 1
    BY <1>8, <2>1, <2>2 DEF NextIn, Place, LastSub
  <2>4. m.sub + 1 \in 1..Len(y)
    <3>1. Len(y) \in Nat
      BY <2>2 DEF Ops
    <3> QED
      BY <1>10, <2>3, <3>1
  <2>5. op \in Op
    BY <2>2, <2>4 DEF Ops
  <2> QED
    BY <2>5, OpFields
<1>13. /\ n \in Applied /\ n.idx = m.idx /\ n.sub = m.sub /\ n.max = m.max
       /\ n.crc = m.crc /\ n.kv = Append(m.kv, op)
  <2>1. PICK y : y = Append(m.kv, op)
    OBVIOUS
  <2>2. y \in Ops
    BY <1>10, <1>12, <2>1 DEF Ops
  <2>3. n = [m EXCEPT !.kv = y]
    BY <1>3, <2>1
  <2>4. /\ n \in Applied /\ n.idx = m.idx /\ n.sub = m.sub /\ n.max = m.max
        /\ n.crc = m.crc /\ n.kv = y
    BY <1>10, <2>2, <2>3 DEF Applied
  <2> QED
    BY <2>1, <2>4
<1>14. /\ la2 \in Applied /\ la2.idx = m.idx /\ la2.sub = m.sub
       /\ la2.max = m.max
  BY <1>4, <1>9, <1>13, LastAppliedIs
<1>15. st2.la = la2 /\ st2.app = Append(sm[s].app, op) /\ st2 \in State
  <2>1. PICK y : y = Append(sm[s].app, op)
    OBVIOUS
  <2>2. y \in Ops
    BY <1>9, <1>12, <2>1 DEF Ops
  <2>3. st2 = [la |-> la2, app |-> y]
    BY <1>5, <2>1
  <2>4. st2.la = la2 /\ st2.app = y /\ st2 \in State
    BY <1>14, <2>2, <2>3 DEF State
  <2> QED
    BY <2>1, <2>4
<1>16. Correct(clog, st2, s \notin restarted)
  <2>1. PICK st \in State : st = sm[s]
    BY <1>9
  <2>2. /\ Correct(clog, st, s \notin restarted) /\ NextIn(clog, st.la, m)
        /\ s \notin restarted => m.kv = st.app
    BY <1>0, <1>8, <2>1 DEF StoresCorrect
  <2>3. clog[m.idx].ops # <<>> /\ op = clog[m.idx].ops[m.sub + 1]
    BY <1>2, <1>7, <1>11
  <2>4. st2.la = SetLastApplied(st.la, n) /\ st2.app = Append(st.app, op)
    BY <1>4, <1>15, <2>1
  <2> QED
    BY <1>9, <1>13, <2>2, <2>3, <2>4, SubEntryIs
<1>17. /\ st2.la.idx = m.idx /\ st2.la.idx # 0
       /\ Agree(raft[s].log, clog, st2.la.idx)
       /\ st2.la.idx <= raft[s].commit
       /\ sm[s].la.idx <= st2.la.idx /\ st2.la.idx <= sm[s].la.idx + 1
  <2>1. sm[s].la.idx \in Nat
    BY <1>9, StateFields
  <2> QED
    BY <1>8, <1>10, <1>11, <1>14, <1>15, <2>1 DEF NextIn
<1>18. LogHolds(top, clog, raft[s], sm[s], disk[s])
  BY <1>0 DEF Logs
<1>23. /\ Begins(st2.app, All(raft[s].log)) /\ Begins(st2.app, All(clog))
       /\ All(clog) \in Ops /\ st2.la.idx <= Len(raft[s].log)
  <2>1. Agree(clog, clog, st2.la.idx)
    BY <1>11, <1>17 DEF Agree
  <2>2. Begins(st2.app, All(raft[s].log))
    BY <1>9, <1>15, <1>16, <1>17, AppliedInLog
  <2>3. Begins(st2.app, All(clog)) /\ All(clog) \in Ops
    BY <1>9, <1>15, <1>16, <2>1, AppliedInLog
  <2> QED
    BY <1>17, <2>2, <2>3 DEF Agree
<1>24. PICK r \in Server, st \in State, b \in Buffer, p \in [Clients -> Mark],
            ws \in [Workers -> Request \cup {Idle}] :
         /\ r = raft[s] /\ st = sm[s] /\ b = co[s] /\ p = pend[s]
         /\ ws = wk[s]
  BY <1>9
<1>25. /\ r.term = 0 => r.log = <<>>
       /\ Elected(r) => r.log[r.initial + 1].ops = <<>>
       /\ Begins(st2.app, All(r.log))
       /\ st2.la.idx <= Len(r.log) /\ st2.app = Append(st.app, op)
       /\ st.la.idx <= st2.la.idx /\ st2.la.idx <= st.la.idx + 1
       /\ r.log[st2.la.idx].ops # <<>>
       /\ InTerm => InTermAt(r, st, b, p, ws)
  BY <1>7, <1>15, <1>17, <1>18, <1>23, <1>24 DEF InTerm, LogHolds
<1>19. why \in {"none", "pending", "seqno"}
  <2>1. ~(sm[s].la.sub # sm[s].la.max /\ m.max # sm[s].la.max)
    <3> SUFFICES ASSUME sm[s].la.sub # sm[s].la.max
                 PROVE  m.max = sm[s].la.max
      OBVIOUS
    <3>1. Place(clog, sm[s].la)
      BY <1>0 DEF StoresCorrect, Correct
    <3> QED
      BY <1>8, <1>10, <3>1 DEF NextIn, Place
  <2> QED
    BY <1>6, <2>1 DEF ApplyFails
<1>20. ASSUME ~late PROVE why = "none"
  <2>0. InTerm
    BY <1>20 DEF IndInv
  <2>1. InOrder(All(clog)) /\ InTermAt(raft[s], sm[s], co[s], pend[s], wk[s])
    BY <2>0 DEF InTerm
  <2>2. /\ op.n = AppSeq(sm[s], op.c) + 1
        /\ pend[s][op.c].term = raft[s].term => pend[s][op.c].seq = op.n
    <3>1. /\ op.n = AppSeq(st, op.c) + 1
          /\ p[op.c].term = r.term => p[op.c].seq = op.n
      <4>1. st2 \in State /\ op \in Op /\ st2.la.idx # 0
        BY <1>12, <1>15, <1>17
      <4>2. PICK y \in Ops : InOrder(y) /\ Begins(st2.app, y)
        BY <1>23, <2>1
      <4>3. InTermAt(r, st, b, p, ws)
        BY <1>25, <2>0
      <4> QED
        BY <1>25, <4>1, <4>2, <4>3, NoneFails
    <3> QED
      BY <1>24, <3>1
  <2> QED
    BY <1>6, <1>19, <2>2 DEF ApplyFails, IsMine
<1>21. CASE /\ why # "none" /\ fatal' = [fatal EXCEPT ![s] = why]
            /\ UNCHANGED <<sm, disk, pend, nai, evp, acked>>
  <2>1. TypeOK'
    <3>1. fatal' \in [Servers -> {"none", "commit_behind", "not_leader",
                                  "pending", "seqno", "handle"}]
      BY <1>0, <1>19, <1>21 DEF TypeOK
    <3> QED
      BY <1>0, <1>7, <1>21, <3>1 DEF TypeOK
  <2>2. Logs' /\ StoresCorrect' /\ Applying' /\ Acks'
    BY <1>0, <1>7, <1>21 DEF Logs, StoresCorrect, Applying, Acks
  <2>3. Workings'
    <3>1. /\ fatal'[s] = why
          /\ \A x \in Servers : x # s => fatal'[x] = fatal[x]
      BY <1>0, <1>21 DEF TypeOK
    <3>2. Explained(fatal'[s], wk[s], late, s \in restarted)
      BY <1>19, <1>20, <1>21, <3>1 DEF Explained
    <3> QED
      BY <1>0, <1>7, <1>21, <3>1, <3>2 DEF Workings
  <2>4. ~late' => InTerm'
    BY <1>7, <1>21 DEF IndInv, InTerm
  <2> QED
    BY <2>1, <2>2, <2>3, <2>4 DEF IndInv
<1>22. CASE /\ why = "none" /\ SmApplyOpt(s, st2)
            /\ pend' = [pend EXCEPT ![s][op.c].seq = 0]
            /\ InitSendReply(s, op, IsMine(s, op))
            /\ nai' = [nai EXCEPT ![s] =
                         IF la2.sub = la2.max THEN Idle
                         ELSE [n EXCEPT !.sub = @ + 1]]
            /\ evp' = IF la2.sub = la2.max
                      THEN [evp EXCEPT ![s] = NeedsApply(la2, raft[s].commit)]
                      ELSE evp
            /\ fatal' = fatal
  <2>1. op.n = AppSeq(sm[s], op.c) + 1
    BY <1>6, <1>22 DEF ApplyFails
  <2>2. Numbered(st2)
    <3>1. Numbered(sm[s])
      BY <1>0 DEF Acks
    <3> QED
      BY <1>9, <1>12, <1>15, <2>1, <3>1, NumberedNext
  <2>3. /\ ToSet(sm[s].app) \subseteq ToSet(st2.app) /\ op \in ToSet(st2.app)
        /\ op \in ToSet(Flat(clog, m.idx))
    <3>1. PICK y : y = st2.app
      OBVIOUS
    <3>2. PICK x \in Ops : x = sm[s].app
      BY <1>9
    <3>3. /\ y \in Ops /\ Len(y) = Len(x) + 1 /\ Len(x) \in Nat
          /\ y[Len(x) + 1] = op /\ \A i \in 1..Len(x) : y[i] = x[i]
      BY <1>12, <1>15, <3>1, <3>2 DEF Ops
    <3>4. Begins(x, y)
      BY <3>3 DEF Begins
    <3>5. ToSet(x) \subseteq ToSet(y)
      BY <3>3, <3>4, BeginsSet DEF Ops
    <3>6. op \in ToSet(y)
      <4>1. Len(x) + 1 \in 1..Len(y) /\ DOMAIN y = 1..Len(y)
        BY <3>3 DEF Ops
      <4> QED
        BY <3>3, <4>1 DEF ToSet
    <3>7. Agree(clog, clog, st2.la.idx)
      BY <1>11, <1>17 DEF Agree
    <3>8. Begins(y, Flat(clog, m.idx)) /\ Flat(clog, m.idx) \in Ops
      BY <1>9, <1>15, <1>16, <1>17, <3>1, <3>7, AppliedInLog
    <3>9. ToSet(y) \subseteq ToSet(Flat(clog, m.idx))
      BY <3>3, <3>8, BeginsSet DEF Ops
    <3> QED
      BY <3>1, <3>2, <3>5, <3>6, <3>9
  <2>4. /\ acked' \subseteq ToSet(All(clog)) /\ acked' \subseteq Op
        /\ \A x \in Servers : Newest(top, raft[x]) =>
             HasAnswered(acked', raft[x], IF x = s THEN st2 ELSE sm[x])
    <3>1. CASE acked' = acked
      <4>1. acked' \subseteq ToSet(All(clog)) /\ acked' \subseteq Op
        BY <1>0, <3>1 DEF Acks, TypeOK
      <4>2. \A x \in Servers : Newest(top, raft[x]) =>
              HasAnswered(acked, raft[x], sm[x])
        BY <1>0 DEF Acks
      <4>3. ASSUME NEW x \in Servers, Newest(top, raft[x])
            PROVE  HasAnswered(acked, raft[x], IF x = s THEN st2 ELSE sm[x])
        <5>1. CASE x = s
          BY <2>3, <4>2, <4>3, <5>1 DEF HasAnswered
        <5>2. CASE x # s
          BY <4>2, <4>3, <5>2
        <5> QED
          BY <5>1, <5>2
      <4> QED
        BY <3>1, <4>1, <4>3
    <3>2. CASE raft[s].role = "leader" /\ acked' = acked \cup {op}
      <4>1. \A x \in Servers :
              Newest(top, raft[x]) /\ x # s => m.idx <= raft[x].initial
        <5> SUFFICES ASSUME NEW x \in Servers, Newest(top, raft[x]), x # s
                     PROVE  m.idx <= raft[x].initial
          OBVIOUS
        <5>1. raft[s].commit <= raft[x].initial
          BY <1>0, <3>2 DEF Acks, Behind
        <5>2. raft[x].initial \in Nat
          BY <1>0, Typed, ServerFields
        <5> QED
          BY <1>8, <1>9, <1>10, <5>1, <5>2
      <4>2. /\ acked \cup {op} \subseteq ToSet(All(clog))
            /\ \A x \in Servers : Newest(top, raft[x]) =>
                 HasAnswered(acked \cup {op}, raft[x],
                             IF x = s THEN st2 ELSE sm[x])
        BY <1>0, <1>10, <1>11, <2>3, <3>2, <4>1, MayAnswer
      <4>3. acked' \subseteq Op
        BY <1>0, <1>12, <3>2 DEF TypeOK
      <4> QED
        BY <3>2, <4>2, <4>3
    <3> QED
      BY <1>22, <3>1, <3>2 DEF InitSendReply, ReplyToClient
  <2>5. /\ sm' \in [Servers -> State] /\ disk' \in [Servers -> State]
        /\ sm'[s] = st2 /\ \A x \in Servers : x # s => sm'[x] = sm[x]
        /\ Logs' /\ StoresCorrect' /\ Acks'
    BY <1>0, <1>7, <1>15, <1>16, <1>17, <1>22, <2>2, <2>4, ApplyStep
  <2>6. PICK p2 : p2 = [pend[s] EXCEPT ![op.c].seq = 0]
    OBVIOUS
  <2>7. /\ p2 \in [Clients -> Mark]
        /\ \A c \in Clients : p2[c].term = pend[s][c].term
        /\ \A c \in Clients : c # op.c => p2[c] = pend[s][c]
    <3>1. PICK k : k = [pend[s][op.c] EXCEPT !.seq = 0]
      OBVIOUS
    <3>2. pend[s][op.c] \in Mark
      BY <1>9, <1>12
    <3>3. k \in Mark /\ k.term = pend[s][op.c].term
      BY <3>1, <3>2 DEF Mark
    <3>4. p2 = [pend[s] EXCEPT ![op.c] = k]
      BY <2>6, <3>1
    <3> QED
      BY <1>9, <1>12, <3>3, <3>4
  <2>8. /\ pend' \in [Servers -> [Clients -> Mark]] /\ pend'[s] = p2
        /\ \A x \in Servers : x # s => pend'[x] = pend[x]
    <3>1. pend' = [pend EXCEPT ![s] = p2]
      BY <1>22, <2>6
    <3>2. pend \in [Servers -> [Clients -> Mark]]
      BY <1>0 DEF TypeOK
    <3> QED
      BY <2>7, <3>1, <3>2
  <2>9. PICK next : next = IF la2.sub = la2.max THEN Idle
                           ELSE [n EXCEPT !.sub = n.sub + 1]
    OBVIOUS
  <2>10. /\ next \in Applied \cup {Idle}
         /\ la2.sub = la2.max => next = Idle
         /\ la2.sub # la2.max =>
              /\ next # Idle /\ next.idx = m.idx /\ next.sub = m.sub + 1
              /\ next.max = m.max /\ next.crc = m.crc
              /\ next.kv = Append(m.kv, op)
    <3>1. CASE la2.sub = la2.max
      BY <2>9, <3>1
    <3>2. CASE la2.sub # la2.max
      <4>1. PICK k \in Nat : k = n.sub + 1
        BY <1>10, <1>13
      <4>2. next = [n EXCEPT !.sub = k]
        BY <2>9, <3>2, <4>1
      <4>3. /\ next \in Applied /\ next.idx = n.idx /\ next.sub = k
            /\ next.max = n.max /\ next.crc = n.crc /\ next.kv = n.kv
        BY <1>13, <4>2 DEF Applied
      <4> QED
        BY <1>13, <3>2, <4>1, <4>3, AppliedNotIdle
    <3> QED
      BY <3>1, <3>2
  <2>11. /\ nai' \in [Servers -> Applied \cup {Idle}] /\ nai'[s] = next
         /\ \A x \in Servers : x # s => nai'[x] = nai[x]
    <3>1. nai \in [Servers -> Applied \cup {Idle}]
      BY <1>0 DEF TypeOK
    <3>2. nai' = [nai EXCEPT ![s] = next]
      BY <1>22, <2>9
    <3> QED
      BY <2>10, <3>1, <3>2
  <2>12. TypeOK'
    <3>1. NeedsApply(la2, raft[s].commit) \in BOOLEAN
      BY DEF NeedsApply
    <3>2. evp' \in [Servers -> BOOLEAN]
      BY <1>0, <1>22, <3>1 DEF TypeOK
    <3> QED
      BY <1>0, <1>7, <1>22, <2>4, <2>5, <2>8, <2>11, <3>2 DEF TypeOK
  <2>13. Applying'
    <3>1. ApplyingAt(raft[s], st2, next, s \notin restarted)
      <4>1. ASSUME next # Idle
            PROVE  AtHand(raft[s], st2, next, s \notin restarted)
        <5>1. la2.sub # la2.max
          BY <2>10, <4>1
        <5>2. m.sub <= m.max /\ m.crc = 1..m.idx
          BY <1>8 DEF NextIn, Place
        <5>3. la2.sub < la2.max
          BY <1>10, <1>14, <5>1, <5>2
        <5>4. s \notin restarted => next.kv = st2.app
          BY <1>8, <1>15, <2>10, <5>1
        <5> QED
          BY <1>14, <1>15, <1>17, <2>10, <5>1, <5>2, <5>3, <5>4 DEF AtHand
      <4>2. next = Idle => st2.la.sub = st2.la.max
        BY <1>15, <2>10
      <4> QED
        BY <1>17, <4>1, <4>2 DEF ApplyingAt
    <3>2. \A x \in Servers : ApplyingAt(raft[x], sm[x], nai[x], x \notin restarted)
      BY <1>0 DEF Applying
    <3>3. \A x \in Servers :
            ApplyingAt(raft[x], sm'[x], nai'[x], x \notin restarted)
      BY <2>5, <2>11, <3>1, <3>2
    <3> QED
      BY <1>7, <3>3 DEF Applying
  <2>14. Workings'
    <3>1. TermsPast(raft[s].term, co[s], p2, wk[s])
      BY <1>0, <2>7 DEF Workings, TermsPast
    <3> QED
      BY <1>0, <1>7, <1>22, <2>8, <3>1 DEF Workings
  <2>15. ~late' => InTerm'
    <3> SUFFICES ASSUME InTerm PROVE InTerm'
      BY <1>7 DEF IndInv
    <3>1. /\ \A c \in Clients : c # op.c => p2[c] = p[c]
          /\ \A c \in Clients : p2[c].term = p[c].term
      BY <1>24, <2>6, <2>7
    <3>2. InTermAt(r, st2, b, p2, ws)
      <4>1. st2 \in State /\ op \in Op /\ st2.la.idx # 0
        BY <1>12, <1>15, <1>17
      <4>2. InTermAt(r, st, b, p, ws)
        BY <1>25
      <4> QED
        BY <1>25, <3>1, <4>1, <4>2, InTermApply
    <3>3. InTermAt(raft[s], st2, co[s], p2, wk[s])
      BY <1>24, <3>2
    <3> QED
      BY <1>7, <2>5, <2>8, <3>3 DEF InTerm
  <2> QED
    BY <2>5, <2>12, <2>13, <2>14, <2>15 DEF IndInv
<1> QED
  BY <1>7, <1>21, <1>22

(***************************************************************************)
(* The specification.                                                      *)
(***************************************************************************)

\* Nothing has happened.
LEMMA InitKeeps ==
  Init => IndInv
<1> SUFFICES ASSUME Init PROVE IndInv
  OBVIOUS
<1>1. /\ top = 0 /\ clog = <<>>
      /\ acked = {} /\ stale = FALSE /\ late = FALSE /\ restarted = {}
      /\ won = {}
  BY DEF Init
<1>2. PICK r : r = [role |-> "follower", term |-> 0, log |-> <<>>,
                    initial |-> 0, commit |-> 0]
  OBVIOUS
<1>3. PICK st : st = [la |-> NoApplied, app |-> <<>>]
  OBVIOUS
<1>4. <<>> \in Log /\ <<>> \in Ops /\ Len(<<>>) = 0
  BY DEF Log, Ops
<1>5. /\ r \in Server /\ r.role = "follower" /\ r.term = 0 /\ r.log = <<>>
      /\ r.initial = 0 /\ r.commit = 0
  BY <1>2, <1>4 DEF Server
<1>6. PICK la : la = NoApplied
  OBVIOUS
<1>7. /\ la \in Applied /\ la.idx = 0 /\ la.sub = 0 /\ la.max = 0
      /\ la.crc = {} /\ la.kv = <<>>
  BY <1>4, <1>6 DEF NoApplied, Applied
<1>8. st \in State /\ st.la = la /\ st.app = <<>>
  BY <1>3, <1>4, <1>6, <1>7 DEF State
<1>9. PICK ws : ws = [w \in Workers |-> Idle]
  OBVIOUS
<1>10. ws \in [Workers -> Request \cup {Idle}] /\ \A w \in Workers : ws[w] = Idle
  BY <1>9
<1>11. ASSUME NEW s \in Servers
       PROVE  /\ raft[s] = r /\ co[s] = NoCo /\ sm[s] = st /\ disk[s] = st
              /\ pend[s] = NoPend /\ wk[s] = ws /\ nai[s] = Idle
              /\ fatal[s] = "none"
  BY <1>2, <1>3, <1>9 DEF Init
<1>12. TypeOK
  <2>1. /\ raft = [s \in Servers |-> r] /\ co = [s \in Servers |-> NoCo]
        /\ sm = [s \in Servers |-> st] /\ disk = [s \in Servers |-> st]
        /\ pend = [s \in Servers |-> NoPend] /\ wk = [s \in Servers |-> ws]
        /\ nai = [s \in Servers |-> Idle] /\ evp = [s \in Servers |-> FALSE]
        /\ fatal = [s \in Servers |-> "none"]
    BY <1>2, <1>3, <1>9 DEF Init
  <2>2. raft \in [Servers -> Server] /\ co \in [Servers -> Buffer]
    BY <1>5, <2>1, EmptyBuffer
  <2>3. /\ sm \in [Servers -> State] /\ disk \in [Servers -> State]
        /\ pend \in [Servers -> [Clients -> Mark]]
    BY <1>8, <2>1, NoPendType
  <2>4. /\ wk \in [Servers -> [Workers -> Request \cup {Idle}]]
        /\ nai \in [Servers -> Applied \cup {Idle}]
    BY <1>10, <2>1
  <2>5. /\ evp \in [Servers -> BOOLEAN]
        /\ fatal \in [Servers -> {"none", "commit_behind", "not_leader",
                                  "pending", "seqno", "handle"}]
    BY <2>1
  <2>6. /\ top \in Nat /\ clog \in Log /\ acked \subseteq Op
        /\ stale \in BOOLEAN /\ late \in BOOLEAN /\ restarted \subseteq Servers
        /\ won \subseteq Servers \X Workers
    BY <1>1, <1>4
  <2> QED
    BY <2>2, <2>3, <2>4, <2>5, <2>6 DEF TypeOK
<1>13. \A L, M : Agree(<<>>, <<>>, 0)
  BY <1>4 DEF Agree
<1>14. Logs
  <2>1. LogHolds(0, <<>>, r, st, st)
    BY <1>4, <1>5, <1>7, <1>8, <1>13 DEF LogHolds, Newest, Elected
  <2> QED
    BY <1>1, <1>5, <1>11, <2>1 DEF Logs, Elected
<1>15. StoresCorrect
  <2>1. WholeIdx(la) = 0
    BY <1>7 DEF WholeIdx
  <2>2. Upto(<<>>, la) = <<>> /\ Flat(<<>>, 0) = <<>>
    BY <1>7, UptoZero, FlatZero
  <2>3. Place(<<>>, la)
    BY <1>4, <1>7 DEF Place
  <2>4. la.crc = 1..0
    BY <1>7
  <2>5. ASSUME NEW known PROVE Correct(<<>>, st, known)
    BY <1>7, <1>8, <2>1, <2>2, <2>3, <2>4 DEF Correct
  <2> QED
    BY <1>1, <1>11, <2>5 DEF StoresCorrect
<1>16. Applying
  BY <1>5, <1>7, <1>8, <1>11 DEF Applying, ApplyingAt
<1>17. Acks
  <2>1. Numbered(st)
    <3>1. \A c : AppSeq(st, c) = 0
      <4> SUFFICES ASSUME NEW c PROVE AppSeq(st, c) = 0
        OBVIOUS
      <4>1. {i \in DOMAIN st.app : st.app[i].c = c} = {}
        BY <1>8
      <4> QED
        BY <4>1, FS_EmptySet DEF AppSeq
    <3> QED
      BY <3>1 DEF Numbered
  <2>2. \A s \in Servers : ~Newest(top, raft[s])
    BY <1>5, <1>11 DEF Newest
  <2>3. acked \subseteq ToSet(All(clog)) /\ ~stale
    BY <1>1
  <2> QED
    BY <1>11, <2>1, <2>2, <2>3 DEF Acks
<1>18. Workings
  <2>1. Idle.pc # "write"
    BY DEF Idle
  <2>2. Mutex(ws)
    BY <1>10, <2>1 DEF Mutex
  <2>3. \A x, y : Explained("none", ws, x, y)
    BY DEF Explained
  <2>4. TermsPast(0, NoCo, NoPend, ws)
    BY <1>10, EmptyBuffer, NoPendType DEF TermsPast
  <2> QED
    BY <1>5, <1>11, <2>2, <2>3, <2>4 DEF Workings
<1>19. InTerm
  <2>1. All(<<>>) = <<>>
    BY <1>4, FlatZero DEF All
  <2>2. InOrder(<<>>) /\ Supplied(<<>>)
    BY <1>4 DEF InOrder, Supplied
  <2>3. ~Elected(r) /\ ~Active(r, st)
    BY <1>5 DEF Elected, Active
  <2>4. OfTheTerm(r, st, NoCo, NoPend, ws)
    <3>1. \A w \in Workers : ~Checked(ws[w])
      BY <1>10 DEF Checked, Idle
    <3>2. \A c \in Clients : NoPend[c].term = 0
      BY NoPendType
    <3> QED
      BY <1>5, <2>3, <3>1, <3>2, EmptyBuffer DEF OfTheTerm
  <2>5. Queued(r, st, NoCo, NoPend, ws)
    BY <2>3, EmptyBuffer DEF Queued
  <2>6. InTermAt(r, st, NoCo, NoPend, ws)
    BY <1>5, <2>1, <2>2, <2>4, <2>5 DEF InTermAt
  <2> QED
    BY <1>1, <1>11, <2>1, <2>2, <2>6 DEF InTerm
<1> QED
  BY <1>12, <1>14, <1>15, <1>16, <1>17, <1>18, <1>19 DEF IndInv

\* Every step of the servers, the workers and the cluster keeps the invariant.
LEMMA NextKeeps ==
  ASSUME ~SeenInInit, IndInv, [Next]_vars
  PROVE  IndInv'
<1>1. CASE UNCHANGED vars
  BY <1>1 DEF vars, IndInv, TypeOK, Logs, StoresCorrect, Applying, Acks,
              Workings, InTerm
<1>2. CASE Next
  <2>1. PICK s \in Servers :
          \/ Candidacy(s) \/ BecomeLeader(s) \/ BecomeCandidate(s) \/ Commit(s)
          \/ \E t \in Servers : Follow(t, s) \/ StaleTerm(t, s)
          \/ CoWrTimerExpired(s)
          \/ \E w \in Workers :
               \/ RequestInit(s, w) \/ PrepareWrite(s, w)
               \/ HandleFails(s, w) \/ WriteAnswered(s, w) \/ WriteAccepted(s, w)
               \/ WriteRaftEntry(s, w)
               \/ Read(s, w)
          \/ ApplyReturns(s) \/ ApplyMarker(s) \/ ApplySubEntry(s)
          \/ Restart(s)
    BY <1>2 DEF Next
  <2>2. CASE Candidacy(s) \/ BecomeLeader(s) \/ BecomeCandidate(s) \/ Commit(s)
    BY <2>2, CandidacyKeeps, BecomeLeaderKeeps, BecomeCandidateKeeps, CommitKeeps
  <2>3. CASE \E t \in Servers : Follow(t, s) \/ StaleTerm(t, s)
    BY <2>3, FollowKeeps, StaleTermKeeps
  <2>4. CASE CoWrTimerExpired(s)
    BY <2>4, CoWrTimerExpiredKeeps
  <2>9. ASSUME NEW w \in Workers, RequestInit(s, w) \/ PrepareWrite(s, w)
        PROVE  IndInv'
    BY <2>9, RequestInitKeeps, PrepareWriteKeeps
  <2>5. ASSUME NEW w \in Workers,
               HandleFails(s, w) \/ WriteAnswered(s, w) \/ WriteAccepted(s, w)
        PROVE  IndInv'
    BY <2>5, HandleFailsKeeps, WriteAnsweredKeeps, WriteAcceptedKeeps
  <2>6. ASSUME NEW w \in Workers, WriteRaftEntry(s, w) \/ Read(s, w)
        PROVE  IndInv'
    BY <2>6, WriteRaftEntryKeeps, ReadKeeps
  <2>7. CASE ApplyReturns(s) \/ ApplyMarker(s) \/ ApplySubEntry(s)
    BY <2>7, ApplyReturnsKeeps, ApplyMarkerKeeps, ApplySubEntryKeeps
  <2>8. CASE Restart(s)
    BY <2>8, RestartKeeps
  <2> QED
    BY <2>1, <2>2, <2>3, <2>4, <2>5, <2>6, <2>7, <2>8, <2>9
<1> QED
  BY <1>1, <1>2

\* RequestsInvariant: whatever the workers, the main threads, elections and
\* restarts do, the invariant holds: what a server has applied is the prefix of
\* the committed writes that its last-applied record names
\* (raft_server_state_machine_apply), the newest leader has every answered
\* write, and, as long as no request was accepted or logged in another term
\* than it was taken in, what a leader has under way is pending in its term,
\* one write of a client (rst_sm_handler_write).
THEOREM RequestsInvariant == ~SeenInInit => (Spec => []IndInv)
<1> SUFFICES ASSUME ~SeenInInit PROVE Spec => []IndInv
  OBVIOUS
<1>1. Init => IndInv
  BY InitKeeps
<1>2. IndInv /\ [Next]_vars => IndInv'
  BY NextKeeps
<1> QED
  BY <1>1, <1>2, PTL DEF Spec

\* The writes of the properties are those of the invariant.
LEMMA WritesAreFlat ==
  /\ \A n : Writes(n) = Flat(clog, n)
  /\ \A la : WritesOf(la) = Upto(clog, la)
<1>1. \A n : Writes(n) = Flat(clog, n)
  BY DEF Writes, Flat
<1>2. \A la : WritesOf(la) = Upto(clog, la)
  BY <1>1 DEF WritesOf, Upto
<1> QED
  BY <1>1, <1>2

\* AppliedPrefixHolds: for any servers, clients and bounds, the application
\* has, in memory and on disk, each committed write up to the last-applied
\* index and sub-index once and in order, and the cumulative sums cover the
\* entries that are applied as a whole (raft_server_state_machine_apply,
\* raft_server_set_last_applied).
THEOREM AppliedPrefixHolds == ~SeenInInit => (Spec => []AppliedPrefix)
<1>1. IndInv => AppliedPrefix
  <2> SUFFICES ASSUME IndInv, NEW s \in Servers, NEW st \in {sm[s], disk[s]}
               PROVE  /\ st.la.idx <= Len(clog)
                      /\ st.app = WritesOf(st.la)
                      /\ st.la.crc = 1..WholeIdx(st.la)
                      /\ s \notin restarted => st.la.kv = Writes(WholeIdx(st.la))
    BY DEF AppliedPrefix
  <2>1. Correct(clog, st, s \notin restarted)
    BY DEF IndInv, StoresCorrect
  <2>2. /\ st.app = Upto(clog, st.la) /\ st.la.idx <= Len(clog)
        /\ st.la.crc = 1..WholeIdx(st.la)
        /\ s \notin restarted => st.la.kv = Flat(clog, WholeIdx(st.la))
    BY <2>1 DEF Correct, Place
  <2> QED
    BY <2>2, WritesAreFlat
<1> QED
  BY <1>1, RequestsInvariant, PTL

\* EntriesIntactHolds: unless a request was accepted or logged in another term
\* than it was taken in, no write is committed twice and every entry carries
\* the supplements of its requests, whatever clients send again and whichever
\* leaders come (raft_server_write_coalesced_entries, rst_sm_handler_write).
THEOREM EntriesIntactHolds == ~SeenInInit => (Spec => []EntriesIntact)
<1>1. IndInv => EntriesIntact
  <2> SUFFICES ASSUME IndInv, ~late
               PROVE  /\ IsInjective(Writes(Len(clog)))
                      /\ \A s \in Servers : \A e \in ToSet(raft[s].log) :
                           e.ws = e.ops
    BY DEF EntriesIntact
  <2>0. TypeOK /\ InTerm
    BY DEF IndInv
  <2>1. IsInjective(Writes(Len(clog)))
    <3>1. clog \in Log /\ Len(clog) \in Nat
      BY <2>0 DEF TypeOK, Log
    <3>2. Flat(clog, Len(clog)) \in Ops
      BY <3>1, FlatType
    <3>3. PICK z \in Ops : z = Flat(clog, Len(clog))
      BY <3>2
    <3>4. InOrder(z)
      BY <2>0, <3>3 DEF InTerm, All
    <3>5. DOMAIN z = 1..Len(z) /\ Len(z) \in Nat
      BY DEF Ops
    <3>6. ASSUME NEW j \in 1..Len(z), NEW k \in 1..Len(z), z[j] = z[k]
          PROVE  j = k
      <4>1. ~(j < k) /\ ~(k < j)
        BY <3>4, <3>6, InOrderDistinct
      <4> QED
        BY <3>5, <4>1
    <3>7. IsInjective(z)
      BY <3>5, <3>6 DEF IsInjective
    <3> QED
      BY <3>3, <3>7, WritesAreFlat
  <2>2. ASSUME NEW s \in Servers, NEW e \in ToSet(raft[s].log)
        PROVE  e.ws = e.ops
    <3>1. raft[s].log \in Log
      BY <2>0, Typed, ServerFields
    <3>2. DOMAIN raft[s].log = 1..Len(raft[s].log)
      BY <3>1 DEF Log
    <3>3. PICK i \in 1..Len(raft[s].log) : e = raft[s].log[i]
      BY <2>2, <3>2 DEF ToSet
    <3>4. Supplied(raft[s].log)
      BY <2>0 DEF InTerm, InTermAt
    <3> QED
      BY <3>3, <3>4 DEF Supplied
  <2> QED
    BY <2>1, <2>2
<1> QED
  BY <1>1, RequestsInvariant, PTL

\* AckedIsSeenHolds: a write that a client was told has succeeded is committed
\* and no read of the newest leader misses it, whichever leader has answered
\* and whatever has restarted since (raft_server_may_accept_client_request,
\* raft_server_client_recv_handler_read).
THEOREM AckedIsSeenHolds == ~SeenInInit => (Spec => []AckedIsSeen)
<1>1. IndInv => AckedIsSeen
  BY WritesAreFlat DEF IndInv, Acks, AckedIsSeen, All
<1> QED
  BY <1>1, RequestsInvariant, PTL

(***************************************************************************)
(* Handles that are not a leader's.                                        *)
(***************************************************************************)

\* The handle was filled when the server did not lead.
NotLeaders(q) == q.pc \in {"check", "lock"} /\ ~q.leader

\* If it has passed the check, or could, the server has become leader since.
HandlesAt(s, role, ws, f, W) ==
  /\ \A w \in Workers :
       NotLeaders(ws[w]) /\ (ws[w].pc = "lock" \/ role = "leader") => <<s, w>> \in W
  /\ f = "handle" =>
       \E w \in Workers : ws[w].pc = "lock" /\ ~ws[w].leader /\ <<s, w>> \in W

\* It is so on every server.
Handles == \A s \in Servers : HandlesAt(s, raft[s].role, wk[s], fatal[s], won)

\* A step that fills or moves no handle that is not a leader's, and by which
\* nobody comes to lead
LEMMA HandlesSame ==
  ASSUME Handles, won' = won,
         \A s \in Servers : raft'[s].role = "leader" => raft[s].role = "leader",
         \A s \in Servers : \A w \in Workers :
           NotLeaders(wk'[s][w]) => wk'[s][w] = wk[s][w],
         \A s \in Servers :
           fatal'[s] = "handle" => fatal[s] = "handle" /\ wk'[s] = wk[s]
  PROVE  Handles'
<1> SUFFICES ASSUME NEW s \in Servers
             PROVE  HandlesAt(s, raft'[s].role, wk'[s], fatal'[s], won)
  BY DEF Handles
<1>1. HandlesAt(s, raft[s].role, wk[s], fatal[s], won)
  BY DEF Handles
<1>2. ASSUME NEW w \in Workers, NotLeaders(wk'[s][w]),
             wk'[s][w].pc = "lock" \/ raft'[s].role = "leader"
      PROVE  <<s, w>> \in won
  <2>1. wk'[s][w] = wk[s][w] /\ raft'[s].role = "leader" => raft[s].role = "leader"
    BY <1>2
  <2> QED
    BY <1>1, <1>2, <2>1 DEF HandlesAt
<1>3. fatal'[s] = "handle" =>
        \E w \in Workers : /\ wk'[s][w].pc = "lock" /\ ~wk'[s][w].leader
                           /\ <<s, w>> \in won
  BY <1>1 DEF HandlesAt
<1> QED
  BY <1>2, <1>3 DEF HandlesAt

\* The workers' steps before the mutex
LEMMA HandlesGoto ==
  ASSUME TypeOK, Handles, NEW s \in Servers, NEW w \in Workers,
         NEW q \in Request \cup {Idle}, Goto(s, w, q), UNCHANGED <<raft, fatal>>,
         fatal[s] = "none", won' \in {won, won \ {<<s, w>>}},
         NotLeaders(q) /\ (q.pc = "lock" \/ raft[s].role = "leader") =>
           <<s, w>> \in won'
  PROVE  Handles'
<1>1. /\ wk'[s][w] = q
      /\ \A v \in Workers : v # w => wk'[s][v] = wk[s][v]
      /\ \A x \in Servers : x # s => wk'[x] = wk[x]
  BY GotoIs
<1>2. \A x \in Servers, v \in Workers :
        x # s \/ v # w => (<<x, v>> \in won' <=> <<x, v>> \in won)
  OBVIOUS
<1> SUFFICES ASSUME NEW x \in Servers
             PROVE  HandlesAt(x, raft[x].role, wk'[x], fatal[x], won')
  BY DEF Handles
<1>3. HandlesAt(x, raft[x].role, wk[x], fatal[x], won)
  BY DEF Handles
<1>4. CASE x # s
  BY <1>1, <1>2, <1>3, <1>4 DEF HandlesAt
<1>5. CASE x = s
  <2>1. ASSUME NEW v \in Workers, NotLeaders(wk'[s][v]),
               wk'[s][v].pc = "lock" \/ raft[s].role = "leader"
        PROVE  <<s, v>> \in won'
    <3>1. CASE v # w
      BY <1>1, <1>2, <1>3, <1>5, <2>1, <3>1 DEF HandlesAt
    <3>2. CASE v = w
      <4>1. NotLeaders(q) /\ (q.pc = "lock" \/ raft[s].role = "leader")
        BY <1>1, <2>1, <3>2
      <4> QED
        BY <3>2, <4>1
    <3> QED
      BY <3>1, <3>2
  <2> QED
    BY <1>5, <2>1 DEF HandlesAt
<1> QED
  BY <1>4, <1>5

\* Each step keeps it.
LEMMA HandlesKept ==
  ASSUME ~SeenInInit, TypeOK, TypeOK', Handles, [Next]_vars
  PROVE  Handles'
<1>0. /\ raft \in [Servers -> Server]
      /\ wk \in [Servers -> [Workers -> Request \cup {Idle}]]
      /\ \A s \in Servers : wk[s] \in [Workers -> Request \cup {Idle}]
  BY DEF TypeOK
<1>1. CASE UNCHANGED vars
  BY <1>1 DEF vars, Handles
<1>2. ASSUME NEW s \in Servers, BecomeLeader(s) PROVE Handles'
  <2>1. /\ raft' = [raft EXCEPT ![s] = raft'[s]] /\ UNCHANGED <<wk, fatal>>
        /\ won' = won \cup ({s} \X {w \in Workers : wk[s][w].pc = "check"})
    BY <1>0, <1>2 DEF BecomeLeader
  <2>2. \A x \in Servers : x # s => raft'[x] = raft[x]
    BY <1>0, <1>2 DEF BecomeLeader
  <2> SUFFICES ASSUME NEW x \in Servers
               PROVE  HandlesAt(x, raft'[x].role, wk[x], fatal[x], won')
    BY <2>1 DEF Handles
  <2>3. HandlesAt(x, raft[x].role, wk[x], fatal[x], won)
    BY DEF Handles
  <2>4. ASSUME NEW w \in Workers, NotLeaders(wk[x][w]),
               wk[x][w].pc = "lock" \/ raft'[x].role = "leader"
        PROVE  <<x, w>> \in won'
    <3>1. CASE x # s \/ wk[x][w].pc = "lock"
      BY <2>1, <2>2, <2>3, <2>4, <3>1 DEF HandlesAt
    <3>2. CASE x = s /\ wk[x][w].pc # "lock"
      <4>1. wk[s][w].pc = "check"
        BY <2>4, <3>2 DEF NotLeaders
      <4> QED
        BY <2>1, <3>2, <4>1
    <3> QED
      BY <3>1, <3>2
  <2>5. won \subseteq won'
    BY <2>1
  <2> QED
    BY <2>3, <2>4, <2>5 DEF HandlesAt
<1>3. ASSUME NEW s \in Servers, Candidacy(s) \/ BecomeCandidate(s)
      PROVE  Handles'
  <2>1. /\ UNCHANGED <<wk, fatal, won>>
        /\ \A x \in Servers :
             raft'[x].role = "leader" => raft[x].role = "leader"
    BY <1>0, <1>3 DEF Candidacy, BecomeCandidate, hist, Server
  <2> QED
    BY <2>1, HandlesSame
<1>4. ASSUME NEW s \in Servers, NEW t \in Servers,
             Follow(t, s) \/ StaleTerm(t, s)
      PROVE  Handles'
  <2>1. UNCHANGED <<wk, fatal, won>>
    BY <1>4 DEF Follow, StaleTerm, hist
  <2>2. ASSUME NEW x \in Servers, raft'[x].role = "leader"
        PROVE  raft[x].role = "leader"
    <3>1. /\ x # t => raft'[x] = raft[x]
          /\ raft'[t].role = "follower"
      <4>1. CASE Follow(t, s)
        BY <1>0, <4>1 DEF Follow, Server
      <4>2. CASE StaleTerm(t, s)
        BY <1>0, <4>2 DEF StaleTerm, Server
      <4> QED
        BY <1>4, <4>1, <4>2
    <3> QED
      BY <2>2, <3>1
  <2> QED
    BY <2>1, <2>2, HandlesSame
<1>5. ASSUME NEW s \in Servers, Commit(s) \/ CoWrTimerExpired(s)
      PROVE  Handles'
  <2>1. /\ UNCHANGED <<wk, fatal, won>>
        /\ \A x \in Servers :
             raft'[x].role = "leader" => raft[x].role = "leader"
    BY <1>0, <1>5 DEF Commit, CoWrTimerExpired, hist, Server
  <2> QED
    BY <2>1, HandlesSame
<1>6. ASSUME NEW s \in Servers, NEW w \in Workers, RequestInit(s, w)
      PROVE  Handles'
  <2>1. PICK op \in Op :
          Goto(s, w, [pc |-> "check", op |-> op, term |-> raft[s].term,
                      leader |-> raft[s].role = "leader"])
    BY <1>6 DEF RequestInit
  <2>2. PICK q : q = [pc |-> "check", op |-> op, term |-> raft[s].term,
                      leader |-> raft[s].role = "leader"]
    OBVIOUS
  <2>3. raft[s].term \in Nat
    BY Typed, ServerFields
  <2>4. q \in Request /\ q.pc = "check" /\ q.leader = (raft[s].role = "leader")
    BY <2>2, <2>3 DEF Request
  <2>5. UNCHANGED <<raft, fatal>> /\ won' = won \ {<<s, w>>} /\ fatal[s] = "none"
    BY <1>6 DEF RequestInit, Worker, Up
  <2>6. ~(NotLeaders(q) /\ (q.pc = "lock" \/ raft[s].role = "leader"))
    BY <2>4 DEF NotLeaders
  <2> QED
    BY <2>1, <2>2, <2>4, <2>5, <2>6, HandlesGoto
<1>7. ASSUME NEW s \in Servers, NEW w \in Workers, PrepareWrite(s, w)
      PROVE  Handles'
  <2>1. /\ UNCHANGED <<raft, fatal, won>> /\ fatal[s] = "none"
        /\ wk[s][w].pc = "check"
    BY <1>7 DEF PrepareWrite, Worker, Up, hist
  <2>2. CASE Goto(s, w, Idle)
    <3>1. ~NotLeaders(Idle)
      BY DEF NotLeaders, Idle
    <3> QED
      BY <2>1, <2>2, <3>1, HandlesGoto
  <2>3. CASE MayAccept(s) /\ Goto(s, w, [wk[s][w] EXCEPT !.pc = "lock"])
    <3>1. wk[s][w] \in Request /\ wk[s][w] # Idle
      BY <1>0, <2>1, RequestFields DEF Idle
    <3>2. PICK q : q = [wk[s][w] EXCEPT !.pc = "lock"]
      OBVIOUS
    <3>3. q \in Request /\ q.pc = "lock" /\ q.leader = wk[s][w].leader
      BY <3>1, <3>2 DEF Request
    <3>4. raft[s].role = "leader"
      BY <2>3, MayAcceptActive
    <3>5. NotLeaders(q) => <<s, w>> \in won
      BY <2>1, <3>3, <3>4 DEF NotLeaders, Handles, HandlesAt
    <3> QED
      BY <2>1, <2>3, <3>2, <3>3, <3>5, HandlesGoto
  <2> QED
    BY <1>7, <2>2, <2>3 DEF PrepareWrite
<1>8. ASSUME NEW s \in Servers, NEW w \in Workers, HandleFails(s, w)
      PROVE  Handles'
  <2>1. /\ wk[s][w].pc = "lock" /\ ~wk[s][w].leader
        /\ UNCHANGED <<raft, wk, won>>
        /\ fatal' = [fatal EXCEPT ![s] = "handle"]
    BY <1>8 DEF HandleFails, Worker, Abort, hist
  <2>2. \A x \in Servers : x # s => fatal'[x] = fatal[x]
    BY <2>1 DEF TypeOK
  <2>3. <<s, w>> \in won
    BY <2>1 DEF Handles, HandlesAt, NotLeaders
  <2> SUFFICES ASSUME NEW x \in Servers
               PROVE  HandlesAt(x, raft[x].role, wk[x], fatal'[x], won)
    BY <2>1 DEF Handles
  <2>4. HandlesAt(x, raft[x].role, wk[x], fatal[x], won)
    BY DEF Handles
  <2>5. CASE x # s
    BY <2>2, <2>4, <2>5
  <2>6. CASE x = s
    BY <2>1, <2>3, <2>4, <2>6 DEF HandlesAt
  <2> QED
    BY <2>5, <2>6
<1>9. ASSUME NEW s \in Servers, NEW w \in Workers,
             WriteAnswered(s, w) \/ WriteAccepted(s, w)
      PROVE  Handles'
  <2>1. UNCHANGED <<raft, fatal, won>> /\ fatal[s] = "none" /\ wk[s][w].pc = "lock"
    BY <1>9 DEF WriteAnswered, WriteAccepted, Worker, Up
  <2>2. PICK q : Goto(s, w, q) /\ q \in {Idle, [wk[s][w] EXCEPT !.pc = "write"]}
    BY <1>9 DEF WriteAnswered, WriteAccepted
  <2>3. q \in Request \cup {Idle} /\ ~NotLeaders(q)
    <3>1. wk[s][w] \in Request
      BY <1>0, <2>1, RequestFields DEF Idle
    <3>2. ~NotLeaders(Idle)
      BY DEF NotLeaders, Idle
    <3>3. PICK q2 : q2 = [wk[s][w] EXCEPT !.pc = "write"]
      OBVIOUS
    <3>4. q2 \in Request /\ q2.pc = "write"
      BY <3>1, <3>3 DEF Request
    <3>5. ~NotLeaders(q2)
      BY <3>4 DEF NotLeaders
    <3> QED
      BY <2>2, <3>2, <3>3, <3>4, <3>5
  <2> QED
    BY <2>1, <2>2, <2>3, HandlesGoto
<1>10. ASSUME NEW s \in Servers, NEW w \in Workers, WriteRaftEntry(s, w)
       PROVE  Handles'
  <2>1. won' = won /\ fatal[s] = "none"
    BY <1>10 DEF WriteRaftEntry, Worker, Up
  <2>2. CASE fatal' = [fatal EXCEPT ![s] = "not_leader"] /\ UNCHANGED <<raft, wk>>
    <3>1. \A x \in Servers : fatal'[x] = "handle" => fatal[x] = "handle"
      BY <2>2 DEF TypeOK
    <3> QED
      BY <2>1, <2>2, <3>1, HandlesSame
  <2>3. CASE /\ Goto(s, w, Idle) /\ fatal' = fatal
             /\ \E L : raft' = [raft EXCEPT ![s].log = L]
    <3>1. PICK L : raft' = [raft EXCEPT ![s].log = L]
      BY <2>3
    <3>2. \A x \in Servers : raft'[x].role = raft[x].role
      BY <1>0, <3>1 DEF Server
    <3>3. /\ wk'[s][w] = Idle
          /\ \A v \in Workers : v # w => wk'[s][v] = wk[s][v]
          /\ \A x \in Servers : x # s => wk'[x] = wk[x]
      BY <2>3, GotoIs
    <3>4. \A x \in Servers : \A v \in Workers :
            NotLeaders(wk'[x][v]) => wk'[x][v] = wk[x][v]
      BY <3>3 DEF NotLeaders, Idle
    <3> QED
      BY <2>1, <2>3, <3>2, <3>3, <3>4, HandlesSame
  <2> QED
    BY <1>10, <2>2, <2>3 DEF WriteRaftEntry, Abort
<1>11. ASSUME NEW s \in Servers, NEW w \in Workers, Read(s, w) PROVE Handles'
  BY <1>11 DEF Read, Handles
<1>12. ASSUME NEW s \in Servers,
              ApplyReturns(s) \/ ApplyMarker(s) \/ ApplySubEntry(s)
       PROVE  Handles'
  <2>1. UNCHANGED <<raft, wk, won>>
    BY <1>12 DEF ApplyReturns, ApplyMarker, ApplySubEntry, hist
  <2>2. \A x \in Servers : fatal'[x] = "handle" => fatal[x] = "handle"
    <3>1. \E why : why # "handle" /\ (fatal' = fatal
                                      \/ fatal' = [fatal EXCEPT ![s] = why])
      <4>1. \A n, op : ApplyFails(s, n, op) # "handle"
        BY DEF ApplyFails
      <4> QED
        BY <1>12, <4>1 DEF ApplyReturns, ApplyMarker, ApplySubEntry, Abort
    <3> QED
      BY <3>1 DEF TypeOK
  <2> QED
    BY <2>1, <2>2, HandlesSame
<1>13. ASSUME NEW s \in Servers, Restart(s) PROVE Handles'
  <2>1. /\ won' = won
        /\ wk' = [wk EXCEPT ![s] = [w \in Workers |-> Idle]]
        /\ fatal' = [fatal EXCEPT ![s] = "none"]
        /\ \A x \in Servers :
             raft'[x].role = "leader" => raft[x].role = "leader"
    BY <1>0, <1>13 DEF Restart, Server
  <2>2. \A x \in Servers : \A v \in Workers :
          NotLeaders(wk'[x][v]) => wk'[x][v] = wk[x][v]
    BY <1>0, <2>1 DEF NotLeaders, Idle
  <2>3. \A x \in Servers :
          fatal'[x] = "handle" => fatal[x] = "handle" /\ wk'[x] = wk[x]
    BY <1>0, <2>1 DEF TypeOK
  <2> QED
    BY <2>1, <2>2, <2>3, HandlesSame
<1> QED
  BY <1>1, <1>2, <1>3, <1>4, <1>5, <1>6, <1>7, <1>8, <1>9, <1>10, <1>11, <1>12,
     <1>13 DEF Next

\* AbortsExplainedHolds: the assertions of the apply callback and of the
\* application fail only after a late request, the one on the commit index
\* only after a restart of the server, the one on leadership only in a worker
\* that was checked before, the one on the handle only if the server became
\* leader after the handle was filled and before the check of leadership; the
\* one on a partly applied entry never fails (raft_server_state_machine_apply,
\* rst_sm_handler_commit, rst_sm_handler_write).
THEOREM AbortsExplainedHolds == ~SeenInInit => (Spec => []AbortsExplained)
<1> SUFFICES ASSUME ~SeenInInit PROVE Spec => []AbortsExplained
  OBVIOUS
<1>1. Init => Handles
  <2> SUFFICES ASSUME Init, NEW s \in Servers
               PROVE  HandlesAt(s, raft[s].role, wk[s], fatal[s], won)
    BY DEF Handles
  <2>1. fatal[s] = "none" /\ \A w \in Workers : wk[s][w] = Idle
    BY DEF Init
  <2> QED
    BY <2>1 DEF HandlesAt, NotLeaders, Idle
<1>2. IndInv => TypeOK
  BY DEF IndInv
<1>3. TypeOK /\ TypeOK' /\ Handles /\ [Next]_vars => Handles'
  BY HandlesKept
<1>4. IndInv /\ Handles => AbortsExplained
  <2> SUFFICES ASSUME IndInv, Handles, NEW s \in Servers
               PROVE  /\ fatal[s] \in {"none", "commit_behind", "not_leader",
                                       "pending", "seqno", "handle"}
                      /\ fatal[s] = "commit_behind" => s \in restarted
                      /\ fatal[s] = "not_leader" =>
                           \E w \in Workers : wk[s][w].pc = "write"
                      /\ fatal[s] \in {"pending", "seqno"} => late
                      /\ fatal[s] = "handle" =>
                           \E w \in Workers :
                             /\ wk[s][w].pc = "lock" /\ ~wk[s][w].leader
                             /\ <<s, w>> \in won
    BY DEF AbortsExplained
  <2>1. fatal[s] \in {"none", "commit_behind", "not_leader", "pending", "seqno",
                      "handle"}
    BY DEF IndInv, TypeOK
  <2>2. Explained(fatal[s], wk[s], late, s \in restarted)
    BY DEF IndInv, Workings
  <2>3. HandlesAt(s, raft[s].role, wk[s], fatal[s], won)
    BY DEF Handles
  <2> QED
    BY <2>1, <2>2, <2>3 DEF Explained, HandlesAt
<1> QED
  BY <1>1, <1>2, <1>3, <1>4, RequestsInvariant, PTL DEF Spec

=============================================================================
