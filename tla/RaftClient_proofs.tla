------------------------- MODULE RaftClient_proofs -------------------------
(***************************************************************************)
(* Proofs about RaftClient for every number of application threads, users  *)
(* and requests, as long as no application cancels a request that is being *)
(* initialized (~CancelInit): references are counted right, a request ends *)
(* once and with its own reply, and no queued request is forgotten.        *)
(***************************************************************************)
EXTENDS RaftClient, FunctionTheorems, FiniteSetTheorems, SequenceTheorems, TLAPS

-----------------------------------------------------------------------------
(* Sequences in which nothing occurs twice *)

\* No object is in s twice.
Once(s) == \A i, j \in 1 .. Len(s) : s[i] = s[j] => i = j

\* The members of a sequence
LEMMA RangeIs ==
  ASSUME NEW S, NEW s \in Seq(S)
  PROVE  /\ Range(s) \subseteq S
         /\ \A x : x \in Range(s) <=> \E i \in 1 .. Len(s) : s[i] = x
         /\ Range(s) = {} <=> s = <<>>
         /\ Len(s) \in Nat
<1>1. DOMAIN s = 1 .. Len(s) /\ Len(s) \in Nat
  BY LenProperties
<1>2. \A i \in 1 .. Len(s) : s[i] \in S
  BY ElementOfSeq
<1>3. Range(s) = {} <=> s = <<>>
  <2>1. s = <<>> => Range(s) = {}
    BY DEF Range
  <2>2. s # <<>> => 1 \in DOMAIN s
    BY <1>1, EmptySeq, LenProperties
  <2> QED
    BY <2>1, <2>2 DEF Range
<1> QED
  BY <1>1, <1>2, <1>3 DEF Range

\* One of them, by its place
LEMMA RangeHas ==
  ASSUME NEW S, NEW s \in Seq(S), NEW i \in 1 .. Len(s)
  PROVE  s[i] \in Range(s)
BY RangeIs

\* An object is counted once or not at all.
LEMMA CountOnce ==
  ASSUME NEW S, NEW s \in Seq(S), Once(s), NEW x
  PROVE  Cardinality({i \in DOMAIN s : s[i] = x}) = IF x \in Range(s) THEN 1 ELSE 0
<1>1. DOMAIN s = 1 .. Len(s)
  BY LenProperties
<1>2. CASE x \in Range(s)
  <2>1. PICK k \in 1 .. Len(s) : s[k] = x
    BY <1>2, RangeIs
  <2>2. {i \in DOMAIN s : s[i] = x} = {k}
    BY <1>1, <2>1 DEF Once
  <2> QED
    BY <1>2, <2>2, FS_Singleton
<1>3. CASE x \notin Range(s)
  <2>1. {i \in DOMAIN s : s[i] = x} = {}
    BY <1>3 DEF Range
  <2> QED
    BY <1>3, <2>1, FS_EmptySet
<1> QED
  BY <1>2, <1>3

\* The head leaves.
LEMMA TailOnce ==
  ASSUME NEW S, NEW s \in Seq(S), s # <<>>, Once(s)
  PROVE  /\ Tail(s) \in Seq(S) /\ Once(Tail(s)) /\ Head(s) \in Range(s)
         /\ Head(s) \notin Range(Tail(s))
         /\ Range(Tail(s)) = Range(s) \ {Head(s)}
<1>1. /\ Tail(s) \in Seq(S) /\ Len(Tail(s)) = Len(s) - 1
      /\ \A i \in 1 .. Len(Tail(s)) : Tail(s)[i] = s[i+1]
  BY HeadTailProperties
<1>2. Len(s) \in Nat /\ Len(s) >= 1 /\ Head(s) = s[1]
  BY EmptySeq, LenProperties
<1>3. Once(Tail(s))
  BY <1>1, <1>2 DEF Once
<1>4. Head(s) \in Range(s)
  BY <1>2, RangeIs
<1>5. ASSUME NEW x
      PROVE  x \in Range(Tail(s)) <=> x \in Range(s) /\ x # Head(s)
  <2>1. CASE x \in Range(Tail(s))
    <3>1. PICK i \in 1 .. Len(Tail(s)) : Tail(s)[i] = x
      BY <1>1, <2>1, RangeIs
    <3>2. i + 1 \in 1 .. Len(s) /\ s[i+1] = x /\ i + 1 # 1
      BY <1>1, <1>2, <3>1
    <3>3. 1 \in 1 .. Len(s)
      BY <1>2
    <3>4. x # s[1]
      BY <3>2, <3>3 DEF Once
    <3>5. x \in Range(s)
      BY <3>2, RangeIs
    <3> QED
      BY <1>2, <2>1, <3>4, <3>5
  <2>2. CASE x \in Range(s) /\ x # Head(s)
    <3>1. PICK i \in 1 .. Len(s) : s[i] = x
      BY <2>2, RangeIs
    <3>2. i # 1
      BY <1>2, <2>2, <3>1
    <3>3. i - 1 \in 1 .. Len(Tail(s))
      BY <1>1, <1>2, <3>1, <3>2
    <3>4. Tail(s)[i-1] = s[(i-1)+1] /\ (i-1)+1 = i
      BY <1>1, <3>3
    <3>5. x \in Range(Tail(s))
      <4>1. Tail(s)[i-1] \in Range(Tail(s))
        BY <1>1, <3>3, RangeHas
      <4> QED
        BY <3>1, <3>4, <4>1
    <3> QED
      BY <2>2, <3>5
  <2> QED
    BY <2>1, <2>2
<1> QED
  BY <1>1, <1>3, <1>4, <1>5

\* Objects that are not yet there are appended.
LEMMA ConcatOnce ==
  ASSUME NEW S, NEW s \in Seq(S), NEW r \in Seq(S), Once(s), Once(r),
         Range(s) \cap Range(r) = {}
  PROVE  /\ s \o r \in Seq(S) /\ Once(s \o r)
         /\ Range(s \o r) = Range(s) \cup Range(r)
<1>1. /\ s \o r \in Seq(S) /\ Len(s \o r) = Len(s) + Len(r)
      /\ \A i \in 1 .. Len(s) + Len(r) :
           (s \o r)[i] = IF i <= Len(s) THEN s[i] ELSE r[i - Len(s)]
  BY ConcatProperties
<1>2. Range(s \o r) = Range(s) \cup Range(r)
  BY RangeConcatenation
<1>3. Len(s) \in Nat /\ Len(r) \in Nat
  BY LenProperties
<1>4. ASSUME NEW i \in 1 .. Len(s \o r), NEW j \in 1 .. Len(s \o r),
             (s \o r)[i] = (s \o r)[j]
      PROVE  i = j
  <2>1. CASE i <= Len(s) /\ j <= Len(s)
    BY <1>1, <1>3, <1>4, <2>1 DEF Once
  <2>2. CASE i > Len(s) /\ j > Len(s)
    <3>1. i - Len(s) \in 1 .. Len(r) /\ j - Len(s) \in 1 .. Len(r)
      BY <1>1, <1>3, <2>2
    <3>2. r[i - Len(s)] = r[j - Len(s)]
      BY <1>1, <1>3, <1>4, <2>2
    <3>3. i - Len(s) = j - Len(s)
      BY <3>1, <3>2 DEF Once
    <3> QED
      BY <1>3, <3>3
  <2>3. CASE i <= Len(s) /\ j > Len(s)
    <3>1. i \in 1 .. Len(s) /\ j - Len(s) \in 1 .. Len(r)
      BY <1>1, <1>3, <2>3
    <3>2. s[i] = r[j - Len(s)]
      BY <1>1, <1>3, <1>4, <2>3
    <3>3. s[i] \in Range(s) /\ r[j - Len(s)] \in Range(r)
      BY <3>1, RangeIs
    <3> QED
      BY <3>2, <3>3
  <2>4. CASE i > Len(s) /\ j <= Len(s)
    <3>1. j \in 1 .. Len(s) /\ i - Len(s) \in 1 .. Len(r)
      BY <1>1, <1>3, <2>4
    <3>2. s[j] = r[i - Len(s)]
      BY <1>1, <1>3, <1>4, <2>4
    <3>3. s[j] \in Range(s) /\ r[i - Len(s)] \in Range(r)
      BY <3>1, RangeIs
    <3> QED
      BY <3>2, <3>3
  <2>5. i \in Int /\ j \in Int
    OBVIOUS
  <2> QED
    BY <1>3, <2>1, <2>2, <2>3, <2>4, <2>5
<1> QED
  BY <1>1, <1>2, <1>4 DEF Once

\* One object is appended.
LEMMA AppendOnce ==
  ASSUME NEW S, NEW s \in Seq(S), NEW x \in S, Once(s), x \notin Range(s)
  PROVE  /\ Append(s, x) \in Seq(S) /\ Once(Append(s, x))
         /\ Range(Append(s, x)) = Range(s) \cup {x}
<1> DEFINE r == <<x>>
<1>1. r \in Seq(S) /\ Len(r) = 1 /\ r[1] = x
  OBVIOUS
<1>2. Append(s, x) = s \o r
  BY AppendIsConcat
<1> HIDE DEF r
<1>3. Once(r)
  BY <1>1 DEF Once
<1>4. Range(r) = {x}
  <2>1. \A y : y \in Range(r) <=> \E i \in 1 .. Len(r) : r[i] = y
    BY <1>1, RangeIs
  <2> QED
    BY <1>1, <2>1
<1>5. Range(s) \cap Range(r) = {}
  BY <1>4
<1>6. s \o r \in Seq(S) /\ Once(s \o r) /\ Range(s \o r) = Range(s) \cup Range(r)
  BY <1>1, <1>3, <1>5, ConcatOnce
<1> QED
  BY <1>2, <1>4, <1>6

\* The queue of expired objects is read in the reverse order.
LEMMA ReverseOnce ==
  ASSUME NEW S, NEW s \in Seq(S), Once(s)
  PROVE  /\ Reverse(s) \in Seq(S) /\ Once(Reverse(s))
         /\ Range(Reverse(s)) = Range(s)
<1>1. Len(s) \in Nat /\ \A i \in 1 .. Len(s) : s[i] \in S
  BY LenProperties, ElementOfSeq
<1>2. \A i \in 1 .. Len(s) : Len(s) - i + 1 \in 1 .. Len(s)
  BY <1>1
<1>3. /\ Reverse(s) \in Seq(S) /\ Len(Reverse(s)) = Len(s)
      /\ \A i \in 1 .. Len(s) : Reverse(s)[i] = s[Len(s) - i + 1]
  BY <1>1, <1>2 DEF Reverse
<1>4. Once(Reverse(s))
  <2> SUFFICES ASSUME NEW i \in 1 .. Len(s), NEW j \in 1 .. Len(s),
                      Reverse(s)[i] = Reverse(s)[j]
               PROVE  i = j
    BY <1>3 DEF Once
  <2>1. Len(s) - i + 1 = Len(s) - j + 1
    BY <1>2, <1>3 DEF Once
  <2> QED
    BY <1>1, <2>1
<1>5. ASSUME NEW x
      PROVE  x \in Range(Reverse(s)) <=> x \in Range(s)
  <2>1. CASE x \in Range(Reverse(s))
    <3>1. PICK i \in 1 .. Len(s) : Reverse(s)[i] = x
      BY <1>3, <2>1, RangeIs
    <3>2. x \in Range(s)
      <4>1. Len(s) - i + 1 \in 1 .. Len(s)
        BY <1>2
      <4>2. s[Len(s) - i + 1] \in Range(s)
        BY <4>1, RangeHas
      <4> QED
        BY <1>3, <3>1, <4>2
    <3> QED
      BY <2>1, <3>2
  <2>2. CASE x \in Range(s)
    <3>1. PICK i \in 1 .. Len(s) : s[i] = x
      BY <2>2, RangeIs
    <3>2. Len(s) - i + 1 \in 1 .. Len(s) /\ Len(s) - (Len(s) - i + 1) + 1 = i
      BY <1>1, <1>2
    <3>3. Reverse(s)[Len(s) - i + 1] = x
      BY <1>3, <3>1, <3>2
    <3>4. x \in Range(Reverse(s))
      BY <1>3, <3>2, <3>3, RangeIs
    <3> QED
      BY <2>2, <3>4
  <2> QED
    BY <2>1, <2>2
<1> QED
  BY <1>3, <1>4, <1>5

\* RT_FOREACH_LOCKED() visits every object once if no two have the same user.
LEMMA TreeOrder ==
  ASSUME NEW X \in SUBSET Request, \A x \in X : user[x] \in Nat,
         \A x, y \in X : user[x] = user[y] => x = y
  PROVE  /\ InTreeOrder(X) \in Seq(Request) /\ Once(InTreeOrder(X))
         /\ Range(InTreeOrder(X)) = X
<1> DEFINE n == Cardinality(X)
           Below(x) == {y \in X : user[y] <= user[x]}
           f == [x \in X |-> Rank(X, x)]
           s == InTreeOrder(X)
<1>1. IsFiniteSet(X) /\ n \in Nat
  <2>1. IsFiniteSet(Request)
    BY FS_Interval, BoundAssumption DEF Request
  <2> QED
    BY <2>1, FS_Subset, FS_CardinalityType
<1>2. ASSUME NEW x \in X
      PROVE  /\ IsFiniteSet(Below(x)) /\ x \in Below(x)
             /\ Rank(X, x) = Cardinality(Below(x)) /\ Rank(X, x) \in 1 .. n
  <2>1. Below(x) \in SUBSET X /\ x \in Below(x)
    OBVIOUS
  <2>2. IsFiniteSet(Below(x)) /\ Cardinality(Below(x)) <= n /\ Cardinality(Below(x)) \in Nat
    BY <1>1, <2>1, FS_Subset, FS_CardinalityType
  <2>3. Cardinality(Below(x)) # 0
    BY <2>1, <2>2, FS_EmptySet
  <2> QED
    BY <1>1, <2>1, <2>2, <2>3 DEF Rank
<1>3. ASSUME NEW x \in X, NEW y \in X, user[x] < user[y]
      PROVE  Rank(X, x) < Rank(X, y)
  <2>1. Below(x) \in SUBSET Below(y) /\ y \notin Below(x)
    BY <1>3
  <2>2. Cardinality(Below(x)) <= Cardinality(Below(y))
        /\ (Cardinality(Below(y)) = Cardinality(Below(x)) => Below(y) = Below(x))
    BY <1>2, <2>1, FS_Subset
  <2>3. Below(y) # Below(x)
    BY <1>2, <2>1
  <2>4. /\ Rank(X, x) = Cardinality(Below(x)) /\ Rank(X, x) \in 1 .. n
        /\ Rank(X, y) = Cardinality(Below(y)) /\ Rank(X, y) \in 1 .. n
    BY <1>2
  <2> QED
    BY <1>1, <2>2, <2>3, <2>4
<1>4. ASSUME NEW x \in X, NEW y \in X, Rank(X, x) = Rank(X, y)
      PROVE  x = y
  <2>1. ~(user[x] < user[y]) /\ ~(user[y] < user[x])
    <3>1. Rank(X, x) \in 1 .. n /\ Rank(X, y) \in 1 .. n
      BY <1>2
    <3>2. ~(Rank(X, x) < Rank(X, y)) /\ ~(Rank(X, y) < Rank(X, x))
      BY <1>1, <1>4, <3>1
    <3> QED
      BY <1>3, <3>2
  <2> QED
    BY <2>1
<1>5. f \in Injection(X, 1 .. n)
  <2>1. f \in [X -> 1 .. n]
    BY <1>2
  <2> QED
    BY <1>4, <2>1, Fun_IsInj
<1>6. IsFiniteSet(1 .. n) /\ Cardinality(1 .. n) = n
  BY <1>1, FS_Interval
<1>7. f \in Surjection(X, 1 .. n)
  BY <1>5, <1>6, FS_Injection
<1>8. ASSUME NEW i \in 1 .. n
      PROVE  s[i] \in X /\ Rank(X, s[i]) = i
  <2>1. \E x \in X : Rank(X, x) = i
    <3> HIDE DEF f
    <3>1. \E x \in X : f[x] = i
      BY <1>7 DEF Surjection
    <3> QED
      BY <3>1 DEF f
  <2>2. s[i] = CHOOSE x \in X : Rank(X, x) = i
    BY DEF InTreeOrder
  <2> QED
    BY <2>1, <2>2
<1>9. s \in Seq(Request) /\ Len(s) = n
  <2>1. s \in [1 .. n -> X]
    BY <1>8 DEF InTreeOrder
  <2> QED
    BY <1>1, <2>1
<1>10. Once(s)
  BY <1>8, <1>9 DEF Once
<1>11. ASSUME NEW x \in X
       PROVE  x \in Range(s)
  <2>1. Rank(X, x) \in 1 .. n /\ s[Rank(X, x)] = x
    BY <1>2, <1>4, <1>8
  <2>2. s[Rank(X, x)] \in Range(s)
    BY <1>9, <2>1, RangeHas
  <2> QED
    BY <2>1, <2>2
<1>12. ASSUME NEW x \in Range(s)
       PROVE  x \in X
  BY <1>8, <1>9, RangeIs
<1> QED
  BY <1>9, <1>10, <1>11, <1>12

-----------------------------------------------------------------------------
(* The inductive invariant *)

\* An object is in the tree from its construction to its last put; no user has
\* two.
Lives ==
  /\ \A x \in Request : x \in alive <=> age[x] \in {"new", "late"}
  /\ \A x \in Request : age[x] = "unused" => result[x] = NoRequest /\ leaks[x] = 0
  /\ \A x, y \in alive : user[x] = user[y] => x = y
  /\ \A x \in Request : x \notin alive => flags[x] = {}

\* raft_client_request_submit() between the tree and the send queue
Opening(t) == pc[t] \in {"init", "enqueue"}

\* What a thread uses is in the tree; an object that is being initialized has
\* one thread that does so, and has not ended.  The sender has a share left for
\* what it launches.
Places ==
  /\ \A t \in App :
       pc[t] \in {"idle", "add", "init", "enqueue", "notify", "wait", "put"}
  /\ pc[Client] \in {"epoll", "reply", "send", "launch", "dequeue_put",
                     "cancel", "done", "done_put", "put"}
  /\ \A t \in Thread : Uses(t) => cur[t] \in alive
  /\ \A t \in App : Opening(t) =>
       result[cur[t]] = NoRequest /\ "initializing" \in flags[cur[t]]
  /\ \A s, t \in App : Opening(s) /\ Opening(t) /\ cur[s] = cur[t] => s = t
  /\ pc[Client] = "launch" => remaining_sends > 0

\* What is queued is in the tree, once.  The objects that have expired are left
\* alone until the client thread takes them.
Queues ==
  /\ Once(sendq) /\ Once(expiredq)
  /\ Range(sendq) \subseteq alive /\ Range(expiredq) \subseteq alive
  /\ \A x \in Range(sendq) : "initializing" \notin flags[x]
  /\ \A x \in Range(expiredq) : flags[x] \cap {"cancel", "initializing"} = {}
  /\ Uses(Client) => cur[Client] \notin Range(expiredq)
  /\ pc[Client] \in {"epoll", "send", "launch", "dequeue_put", "reply"} =>
       expiredq = <<>>
  /\ pc[Client] \in {"done", "done_put"} /\ "send_failed" \in flags[cur[Client]]
       => expiredq = <<>>

\* How the flags of an object follow its end
Ending ==
  /\ \A x \in alive : result[x] # NoRequest =>
       flags[x] \cap {"ready", "cancel", "initializing"} # {}
  /\ \A x \in Request : "completing" \in flags[x] =>
       pc[Client] = "done" /\ cur[Client] = x /\ reply = x
  /\ \A x \in Request : "send_failed" \in flags[x] => "cancel" \in flags[x]
  /\ pc[Client] = "cancel" => flags[cur[Client]] \cap {"cancel", "initializing"} = {}
  /\ pc[Client] = "launch" =>
       flags[cur[Client]] \cap {"cancel", "ready", "initializing"} = {}
  /\ pc[Client] = "done" =>
       /\ result[cur[Client]] = NoRequest
       /\ flags[cur[Client]] \cap {"ready", "initializing"} = {}
       /\ "cancel" \in flags[cur[Client]] <=> "completing" \notin flags[cur[Client]]
  /\ pc[Client] = "done_put" => result[cur[Client]] # NoRequest

\* The references of x by who will put them: application threads, the client
\* thread, and raft_client_sub_app_done() for the constructor
AppHolders(x) == {t \in App : pc[t] = "put" /\ cur[t] = x}
ClientHolds(x) == Holds(Client) /\ cur[Client] = x
Open(x) == result[x] = NoRequest \/ (pc[Client] = "done_put" /\ cur[Client] = x)

\* 1 for a reference that is there
One(b) == IF b THEN 1 ELSE 0

\* The references that no application thread has
Shares(x) ==
  leaks[x] + One(Open(x)) + One(x \in Range(sendq)) + One(x \in Range(expiredq))
    + One(ClientHolds(x))

\* rte_ref_cnt is the number of references.
Counts == \A x \in alive : ref_cnt[x] = Shares(x) + Cardinality(AppHolders(x))

\* The inductive invariant
IInv ==
  /\ TypeOK /\ Lives /\ Places /\ Queues /\ Ending /\ Counts
  /\ OwnReply /\ QueueIsWatched

-----------------------------------------------------------------------------
(* Counting *)

\* The references of application threads can be counted.
LEMMA HoldersFinite ==
  \A x : IsFiniteSet(AppHolders(x)) /\ Cardinality(AppHolders(x)) \in Nat
<1> SUFFICES ASSUME NEW x
             PROVE  IsFiniteSet(AppHolders(x)) /\ Cardinality(AppHolders(x)) \in Nat
  OBVIOUS
<1>1. AppHolders(x) \in SUBSET App
  BY DEF AppHolders
<1> QED
  BY <1>1, ClientAssumption, FS_Subset, FS_CardinalityType

\* A step of one application thread changes the count by that thread.
LEMMA HoldersMove ==
  ASSUME NEW t \in App,
         \A s \in App : s # t => pc'[s] = pc[s] /\ cur'[s] = cur[s]
  PROVE  \A x : Cardinality(AppHolders(x)') =
                  Cardinality(AppHolders(x)) + One(pc'[t] = "put" /\ cur'[t] = x)
                    - One(pc[t] = "put" /\ cur[t] = x)
<1> SUFFICES ASSUME NEW x
             PROVE  Cardinality(AppHolders(x)') =
                      Cardinality(AppHolders(x)) + One(pc'[t] = "put" /\ cur'[t] = x)
                        - One(pc[t] = "put" /\ cur[t] = x)
  OBVIOUS
<1> DEFINE H == AppHolders(x) \ {t}
<1>1. IsFiniteSet(AppHolders(x)) /\ Cardinality(AppHolders(x)) \in Nat
  BY HoldersFinite
<1>2. IsFiniteSet(H) /\ Cardinality(H) \in Nat
  BY <1>1, FS_RemoveElement, FS_CardinalityType
<1>3. t \in AppHolders(x) <=> pc[t] = "put" /\ cur[t] = x
  BY DEF AppHolders
<1>4. Cardinality(AppHolders(x)) = Cardinality(H) + One(pc[t] = "put" /\ cur[t] = x)
  BY <1>1, <1>2, <1>3, FS_RemoveElement DEF One
<1>5. AppHolders(x)' = IF pc'[t] = "put" /\ cur'[t] = x THEN H \cup {t} ELSE H
  BY DEF AppHolders
<1>6. t \notin H
  OBVIOUS
<1>7. Cardinality(H \cup {t}) = Cardinality(H) + 1
  BY <1>2, <1>6, FS_AddElement
<1> HIDE DEF H
<1>8. Cardinality(AppHolders(x)') = Cardinality(H) + One(pc'[t] = "put" /\ cur'[t] = x)
  BY <1>2, <1>5, <1>7 DEF One
<1> QED
  BY <1>2, <1>4, <1>8 DEF One

\* A step of the client thread, or of none, does not.
LEMMA HoldersStay ==
  ASSUME \A s \in App : pc'[s] = pc[s] /\ cur'[s] = cur[s]
  PROVE  \A x : AppHolders(x)' = AppHolders(x)
BY DEF AppHolders

\* Every thread that has a reference is counted.
LEMMA HeldIsCounted ==
  ASSUME IInv, NEW t \in Thread, Holds(t)
  PROVE  /\ cur[t] \in alive /\ cur[t] \in Request
         /\ ref_cnt[cur[t]] \in Nat /\ ref_cnt[cur[t]] >= 1
         /\ ref_cnt[cur[t]] = 1 =>
              /\ result[cur[t]] # NoRequest /\ leaks[cur[t]] = 0
              /\ cur[t] \notin Range(sendq) /\ cur[t] \notin Range(expiredq)
              /\ \A s \in Thread : Uses(s) /\ cur[s] = cur[t] => s = t
<1> DEFINE x == cur[t]
<1>1. x \in alive /\ x \in Request /\ leaks[x] \in Nat /\ ref_cnt[x] \in Nat
  BY DEF IInv, Places, TypeOK, Holds
<1>2. ref_cnt[x] = leaks[x] + One(Open(x))
      + One(x \in Range(sendq)) + One(x \in Range(expiredq))
      + One(ClientHolds(x)) + Cardinality(AppHolders(x))
  BY <1>1 DEF IInv, Counts, Shares
<1>3. IsFiniteSet(AppHolders(x)) /\ Cardinality(AppHolders(x)) \in Nat
  BY HoldersFinite
<1>4. \A s \in App : s \in AppHolders(x) => Cardinality(AppHolders(x)) >= 1
  BY <1>3, FS_EmptySet
<1>5. t = Client \/ (t \in App /\ t \in AppHolders(x))
  BY DEF IInv, Places, Thread, Holds, Uses, AppHolders
<1>6. t = Client => ClientHolds(x)
  BY DEF ClientHolds
<1>7. ref_cnt[x] >= 1
  BY <1>1, <1>2, <1>3, <1>4, <1>5, <1>6 DEF One
<1>8. ASSUME ref_cnt[x] = 1
      PROVE  /\ result[x] # NoRequest /\ leaks[x] = 0
             /\ x \notin Range(sendq) /\ x \notin Range(expiredq)
             /\ \A s \in Thread : Uses(s) /\ cur[s] = x => s = t
  <2>1. ~Open(x) /\ leaks[x] = 0 /\ x \notin Range(sendq) /\ x \notin Range(expiredq)
    BY <1>1, <1>2, <1>3, <1>4, <1>5, <1>6, <1>8 DEF One
  <2>2. result[x] # NoRequest
    BY <2>1 DEF Open
  <2>3. One(ClientHolds(x)) + Cardinality(AppHolders(x)) = 1
    BY <1>1, <1>2, <1>3, <1>8, <2>1 DEF One
  <2>4. ASSUME NEW s \in Thread, Uses(s), cur[s] = x
        PROVE  s = t
    <3>1. CASE s = Client
      <4>1. ClientHolds(x)
        BY <2>4, <3>1 DEF IInv, Places, ClientHolds, Holds
      <4>2. Cardinality(AppHolders(x)) = 0
        BY <1>3, <2>3, <4>1 DEF One
      <4> QED
        BY <1>4, <1>5, <3>1, <4>2
    <3>2. CASE s \in App
      <4>1. s \in AppHolders(x)
        BY <2>2, <2>4, <3>2 DEF IInv, Places, Uses, Opening, AppHolders
      <4>2. Cardinality(AppHolders(x)) = 1 /\ ~ClientHolds(x)
        BY <1>3, <1>4, <2>3, <3>2, <4>1 DEF One
      <4>3. t \in AppHolders(x)
        BY <1>5, <1>6, <4>2
      <4>4. Cardinality(AppHolders(x) \ {s}) = 0 /\ IsFiniteSet(AppHolders(x) \ {s})
        BY <1>3, <4>1, <4>2, FS_RemoveElement
      <4>5. AppHolders(x) \ {s} = {}
        BY <4>4, FS_EmptySet
      <4> QED
        BY <4>3, <4>5
    <3> QED
      BY <3>1, <3>2 DEF Thread
  <2> QED
    BY <2>1, <2>2, <2>4
<1> QED
  BY <1>1, <1>7, <1>8

\* Shares changes with the client thread, the queues, the result and the leaks.
LEMMA SharesStay ==
  ASSUME UNCHANGED <<sendq, expiredq>>, pc'[Client] = pc[Client],
         cur'[Client] = cur[Client], NEW x, result'[x] = result[x], leaks'[x] = leaks[x]
  PROVE  Shares(x)' = Shares(x)
<1>1. Open(x)' <=> Open(x)
  BY DEF Open
<1>2. ClientHolds(x)' <=> ClientHolds(x)
  BY DEF ClientHolds, Holds, Uses
<1> QED
  BY <1>1, <1>2 DEF Shares, One

\* It is a number.
LEMMA SharesNat ==
  ASSUME TypeOK, NEW x \in Request
  PROVE  /\ Shares(x) \in Nat /\ ref_cnt[x] \in Nat /\ leaks[x] \in Nat
         /\ \A b : One(b) \in {0, 1}
<1>1. leaks[x] \in Nat /\ ref_cnt[x] \in Nat
  BY DEF TypeOK
<1>2. \A b : One(b) \in {0, 1}
  BY DEF One
<1>3. /\ One(Open(x)) \in Nat /\ One(x \in Range(sendq)) \in Nat
      /\ One(x \in Range(expiredq)) \in Nat /\ One(ClientHolds(x)) \in Nat
  BY DEF One
<1> QED
  BY <1>1, <1>2, <1>3 DEF Shares

\* It is one after every step.
LEMMA SharesNatNext ==
  ASSUME TypeOK', NEW x \in Request
  PROVE  Shares(x)' \in Nat /\ ref_cnt'[x] \in Nat /\ leaks'[x] \in Nat
<1>1. leaks'[x] \in Nat /\ ref_cnt'[x] \in Nat
  BY DEF TypeOK
<1>2. /\ One(Open(x))' \in Nat /\ One(x \in Range(sendq))' \in Nat
      /\ One(x \in Range(expiredq))' \in Nat /\ One(ClientHolds(x))' \in Nat
  BY DEF One
<1> QED
  BY <1>1, <1>2 DEF Shares

\* A step of an application thread that counts what it does
LEMMA AppCounts ==
  ASSUME IInv, TypeOK', NEW t \in App,
         \A s \in App : s # t => pc'[s] = pc[s] /\ cur'[s] = cur[s],
         alive' \subseteq alive,
         \A x \in alive' :
           ref_cnt'[x] - Shares(x)' =
             ref_cnt[x] - Shares(x) + One(pc'[t] = "put" /\ cur'[t] = x)
               - One(pc[t] = "put" /\ cur[t] = x)
  PROVE  Counts'
<1> SUFFICES ASSUME NEW x \in alive'
             PROVE  ref_cnt'[x] = Shares(x)' + Cardinality(AppHolders(x)')
  BY DEF Counts
<1> DEFINE a == One(pc'[t] = "put" /\ cur'[t] = x)
           b == One(pc[t] = "put" /\ cur[t] = x)
           h == Cardinality(AppHolders(x))
           k == Cardinality(AppHolders(x)')
<1>1. x \in alive /\ x \in Request
  BY DEF IInv, TypeOK
<1>2. Shares(x) \in Nat /\ ref_cnt[x] \in Nat /\ a \in {0, 1} /\ b \in {0, 1} /\ h \in Nat
  BY <1>1, SharesNat, HoldersFinite DEF IInv
<1>3. Shares(x)' \in Nat /\ ref_cnt'[x] \in Nat
  BY <1>1, SharesNatNext
<1>4. ref_cnt[x] = Shares(x) + h
  BY <1>1 DEF IInv, Counts
<1>5. k = h + a - b
  BY HoldersMove
<1>6. ref_cnt'[x] - Shares(x)' = ref_cnt[x] - Shares(x) + a - b
  OBVIOUS
<1> HIDE DEF a, b, h, k
<1>7. ref_cnt'[x] = Shares(x)' + k
  BY <1>2, <1>3, <1>4, <1>5, <1>6
<1> QED
  BY <1>7 DEF k

\* A step of the client thread that does
LEMMA ClientCounts ==
  ASSUME IInv, TypeOK', \A s \in App : pc'[s] = pc[s] /\ cur'[s] = cur[s],
         alive' \subseteq alive,
         \A x \in alive' : ref_cnt'[x] - Shares(x)' = ref_cnt[x] - Shares(x)
  PROVE  Counts'
<1> SUFFICES ASSUME NEW x \in alive'
             PROVE  ref_cnt'[x] = Shares(x)' + Cardinality(AppHolders(x)')
  BY DEF Counts
<1> DEFINE h == Cardinality(AppHolders(x))
<1>1. x \in alive /\ x \in Request
  BY DEF IInv, TypeOK
<1>2. Shares(x) \in Nat /\ ref_cnt[x] \in Nat /\ h \in Nat
  BY <1>1, SharesNat, HoldersFinite DEF IInv
<1>3. Shares(x)' \in Nat /\ ref_cnt'[x] \in Nat
  BY <1>1, SharesNatNext
<1>4. ref_cnt[x] = Shares(x) + h
  BY <1>1 DEF IInv, Counts
<1>5. Cardinality(AppHolders(x)') = h
  BY HoldersStay
<1>6. ref_cnt'[x] - Shares(x)' = ref_cnt[x] - Shares(x)
  OBVIOUS
<1> HIDE DEF h
<1> QED
  BY <1>2, <1>3, <1>4, <1>5, <1>6

\* A step of an application thread that has nothing to do with references
LEMMA AppCountsNot ==
  ASSUME IInv, NEW t \in App,
         \A s \in App : s # t => pc'[s] = pc[s] /\ cur'[s] = cur[s],
         pc[t] # "put", pc'[t] # "put", alive' \subseteq alive,
         \A x \in alive : Shares(x)' = Shares(x) /\ ref_cnt'[x] = ref_cnt[x]
  PROVE  Counts'
<1>1. \A x : AppHolders(x)' = AppHolders(x)
  BY DEF AppHolders
<1> QED
  BY <1>1 DEF IInv, Counts

\* Where a thread is
LEMMA Threads ==
  /\ Client \in Thread
  /\ \A t \in App : t \in Thread /\ t # Client
  /\ \A t \in Thread : t = Client \/ t \in App
BY ClientAssumption DEF Thread

-----------------------------------------------------------------------------
(* Application threads *)

\* raft_client_request_submit() begins.
LEMMA SubmitKeeps ==
  ASSUME ~CancelInit, IInv, NEW t \in App, Submit(t)
  PROVE  IInv'
<1> USE ClientAssumption
<1>1. TypeOK'
  BY DEF IInv, TypeOK, Thread, Label, Submit, Goto, objVars, qVars, sendVars
<1>2. Lives'
  BY DEF IInv, Lives, Submit, objVars
<1>3. Places'
  BY DEF IInv, Places, Uses, Opening, Thread, TypeOK, Submit, Goto, objVars, sendVars
<1>4. Queues'
  BY DEF IInv, Queues, Uses, Places, TypeOK, Thread, Submit, Goto, objVars, qVars
<1>5. Ending'
  BY DEF IInv, Ending, TypeOK, Thread, Submit, Goto, objVars
<1>6. Counts'
  <2>1. /\ \A s \in Thread : s # t => pc'[s] = pc[s] /\ cur'[s] = cur[s]
        /\ pc[t] # "put" /\ pc'[t] # "put"
    BY Threads DEF IInv, TypeOK, Submit, Goto
  <2>2. \A x \in alive : Shares(x)' = Shares(x) /\ ref_cnt'[x] = ref_cnt[x]
    BY <2>1, SharesStay, Threads DEF Submit, objVars, qVars
  <2> QED
    BY <2>1, <2>2, AppCountsNot, Threads DEF Submit, objVars
<1>7. OwnReply'
  BY DEF IInv, OwnReply, Submit, objVars
<1>8. QueueIsWatched'
  BY DEF IInv, QueueIsWatched, TypeOK, Thread, Submit, Goto, objVars, qVars, sendVars
<1> QED
  BY <1>1, <1>2, <1>3, <1>4, <1>5, <1>6, <1>7, <1>8 DEF IInv

\* An object is constructed: its one reference is the constructor's.
LEMMA SubAppAddKeeps ==
  ASSUME ~CancelInit, IInv, NEW t \in App, NEW u \in UserId, SubAppAdd(t, u)
  PROVE  IInv'
<1> USE ClientAssumption
<1>1. PICK x \in Request :
        /\ age[x] = "unused" /\ alive' = alive \cup {x}
        /\ user' = [user EXCEPT ![x] = u] /\ ref_cnt' = [ref_cnt EXCEPT ![x] = 1]
        /\ flags' = [flags EXCEPT ![x] = {"initializing"}]
        /\ age' = [age EXCEPT ![x] = "new"] /\ cur' = [cur EXCEPT ![t] = x]
  BY DEF SubAppAdd, Fresh
<1>2. /\ pc[t] = "add" /\ pc' = [pc EXCEPT ![t] = "init"] /\ Find(u) = {}
      /\ UNCHANGED <<result, replies, leaks, sendq, expiredq, sendVars, queue, reply>>
  BY DEF SubAppAdd, Goto, qVars
<1>3. /\ x \notin alive /\ result[x] = NoRequest /\ leaks[x] = 0 /\ flags[x] = {}
      /\ x \notin Range(sendq) /\ x \notin Range(expiredq)
      /\ \A s \in Thread : Uses(s) => cur[s] # x
  BY <1>1 DEF IInv, Lives, Queues, Places
<1>4. /\ t \in Thread /\ t # Client /\ pc'[t] = "init" /\ cur'[t] = x
      /\ \A s \in Thread : s # t => pc'[s] = pc[s] /\ cur'[s] = cur[s]
      /\ \A y \in Request : y # x => /\ flags'[y] = flags[y] /\ age'[y] = age[y]
                                     /\ user'[y] = user[y] /\ ref_cnt'[y] = ref_cnt[y]
      /\ flags'[x] = {"initializing"} /\ age'[x] = "new" /\ user'[x] = u
      /\ ref_cnt'[x] = 1
  BY <1>1, <1>2, Threads DEF IInv, TypeOK
<1>5. TypeOK'
  BY <1>1, <1>2 DEF IInv, TypeOK, Thread, Label, Flag, sendVars
<1>6. Lives'
  <2>1. \A y \in alive : user[y] # u /\ y \in Request
    BY <1>2 DEF Find, IInv, TypeOK
  <2> QED
    BY <1>1, <1>2, <1>3, <1>4, <2>1 DEF IInv, Lives
<1>7. Places'
  BY <1>1, <1>2, <1>3, <1>4, Threads DEF IInv, Places, Uses, Opening, sendVars
<1>8. Queues'
  <2>1. \A y \in Range(sendq) \cup Range(expiredq) : y \in Request /\ y # x
    BY <1>3 DEF IInv, Queues, TypeOK
  <2>2. pc[Client] \in {"done", "done_put"} => cur[Client] \in Request /\ cur[Client] # x
    BY <1>3, Threads DEF IInv, Places, Uses, TypeOK
  <2> QED
    BY <1>1, <1>2, <1>3, <1>4, <2>1, <2>2, Threads DEF IInv, Queues, Uses
<1>9. Ending'
  <2>1. Uses(Client) => cur[Client] \in Request /\ cur[Client] # x
    BY <1>3, Threads DEF IInv, Places, TypeOK
  <2>2. pc'[Client] = pc[Client] /\ cur'[Client] = cur[Client]
    BY <1>4, Threads
  <2>3. \A y \in alive : y \in Request
    BY DEF IInv, TypeOK
  <2> QED
    BY <1>1, <1>2, <1>3, <1>4, <2>1, <2>2, <2>3 DEF IInv, Ending, Uses
<1>10. Counts'
  <2>1. \A y : AppHolders(y)' = AppHolders(y)
    BY <1>2, <1>4, Threads DEF AppHolders
  <2>2. \A y \in alive : Shares(y)' = Shares(y) /\ ref_cnt'[y] = ref_cnt[y]
    <3>1. pc'[Client] = pc[Client] /\ cur'[Client] = cur[Client]
      BY <1>4, Threads
    <3>2. \A y \in alive : y \in Request /\ y # x
      BY <1>3 DEF IInv, TypeOK
    <3> QED
      BY <1>2, <1>4, <3>1, <3>2, SharesStay
  <2>3. AppHolders(x) = {} /\ ~ClientHolds(x)'
    BY <1>3, <1>4, Threads DEF AppHolders, Uses, ClientHolds, Holds
  <2>4. Shares(x)' = 1
    BY <1>2, <1>3, <2>3 DEF Shares, Open, One
  <2>5. ref_cnt'[x] = Shares(x)' + Cardinality(AppHolders(x)')
    BY <1>4, <2>1, <2>3, <2>4, FS_EmptySet
  <2> QED
    BY <1>1, <2>1, <2>2, <2>5 DEF IInv, Counts
<1>11. OwnReply'
  BY <1>2 DEF IInv, OwnReply
<1>12. QueueIsWatched'
  <2>1. pc[Client] \in {"done", "done_put"} => cur[Client] \in Request /\ cur[Client] # x
    BY <1>3, Threads DEF IInv, Places, Uses, TypeOK
  <2> QED
    BY <1>2, <1>4, <2>1, Threads DEF IInv, QueueIsWatched, sendVars
<1> QED
  BY <1>5, <1>6, <1>7, <1>8, <1>9, <1>10, <1>11, <1>12 DEF IInv

\* The user has a pending request: the thread has a reference for a while.
LEMMA SubAppAlreadyKeeps ==
  ASSUME ~CancelInit, IInv, NEW t \in App, NEW u \in UserId, SubAppAlready(t, u)
  PROVE  IInv'
<1> USE ClientAssumption
<1>1. PICK x \in alive :
        ref_cnt' = [ref_cnt EXCEPT ![x] = @ + 1] /\ cur' = [cur EXCEPT ![t] = x]
  BY DEF SubAppAlready, Find, Get
<1>2. PICK y \in Request : age[y] = "unused" /\ age' = [age EXCEPT ![y] = "freed"]
  BY DEF SubAppAlready, Fresh
<1>3. /\ pc[t] = "add" /\ pc' = [pc EXCEPT ![t] = "put"]
      /\ UNCHANGED <<alive, user, flags, result, replies, leaks, sendq, expiredq,
                     sendVars, queue, reply>>
  BY DEF SubAppAlready, Goto, qVars
<1>4. /\ x \in Request /\ t \in Thread /\ t # Client
      /\ pc'[t] = "put" /\ cur'[t] = x
      /\ \A s \in Thread : s # t => pc'[s] = pc[s] /\ cur'[s] = cur[s]
      /\ \A z \in Request : ref_cnt'[z] = IF z = x THEN ref_cnt[x] + 1 ELSE ref_cnt[z]
      /\ ref_cnt[x] \in Nat
  BY <1>1, <1>3, Threads DEF IInv, TypeOK
<1>5. TypeOK'
  <2>1. ref_cnt' \in [Request -> Nat] /\ age' \in [Request -> {"unused", "new", "late", "freed"}]
    BY <1>1, <1>2, <1>4 DEF IInv, TypeOK
  <2>2. cur' \in [Thread -> Request \cup {NoRequest}] /\ pc' \in [Thread -> Label]
    BY <1>1, <1>3, <1>4 DEF IInv, TypeOK, Label
  <2> QED
    BY <1>3, <2>1, <2>2 DEF IInv, TypeOK, sendVars
<1>6. Lives'
  BY <1>2, <1>3 DEF IInv, Lives, TypeOK
<1>7. Places'
  BY <1>3, <1>4, Threads DEF IInv, Places, Uses, Opening, sendVars
<1>8. Queues'
  BY <1>3, <1>4, Threads DEF IInv, Queues, Uses
<1>9. Ending'
  BY <1>3, <1>4, Threads DEF IInv, Ending
<1>10. Counts'
  <2>1. \A z \in alive : Shares(z)' = Shares(z) /\ z \in Request
    BY <1>3, <1>4, SharesStay, Threads DEF IInv, TypeOK
  <2>2. ASSUME NEW z \in alive
        PROVE  ref_cnt'[z] - Shares(z)' =
                 ref_cnt[z] - Shares(z) + One(pc'[t] = "put" /\ cur'[t] = z)
                   - One(pc[t] = "put" /\ cur[t] = z)
    <3>1. Shares(z) \in Nat /\ ref_cnt[z] \in Nat
      BY <2>1, SharesNat DEF IInv
    <3>2. /\ One(pc[t] = "put" /\ cur[t] = z) = 0
          /\ One(pc'[t] = "put" /\ cur'[t] = z) = IF z = x THEN 1 ELSE 0
      BY <1>3, <1>4 DEF One
    <3>3. ref_cnt'[z] = IF z = x THEN ref_cnt[z] + 1 ELSE ref_cnt[z]
      BY <1>4, <2>1
    <3> QED
      BY <2>1, <3>1, <3>2, <3>3
  <2> QED
    BY <1>3, <1>4, <1>5, <2>2, AppCounts, Threads
<1>11. OwnReply'
  BY <1>3 DEF IInv, OwnReply
<1>12. QueueIsWatched'
  BY <1>3, <1>4, Threads DEF IInv, QueueIsWatched, sendVars
<1> QED
  BY <1>5, <1>6, <1>7, <1>8, <1>9, <1>10, <1>11, <1>12 DEF IInv

\* raft_client_request_handle_init() succeeds.
LEMMA HandleInitKeeps ==
  ASSUME ~CancelInit, IInv, NEW t \in App, NEW block \in BOOLEAN,
         NEW viable \in BOOLEAN, HandleInit(t, block, viable)
  PROVE  IInv'
<1> USE ClientAssumption
<1> DEFINE x == cur[t]
<1>1. /\ x \in alive /\ x \in Request /\ t \in Thread /\ t # Client
      /\ result[x] = NoRequest /\ "initializing" \in flags[x]
  BY Threads DEF IInv, Places, Uses, Opening, TypeOK, HandleInit
<1>2. /\ pc[t] = "init" /\ pc' = [pc EXCEPT ![t] = "enqueue"]
      /\ flags' = [flags EXCEPT ![x] = @ \cup (IF block THEN {"blocking"} ELSE {})]
      /\ queue' = [queue EXCEPT ![t] = viable]
      /\ UNCHANGED <<alive, user, ref_cnt, result, age, replies, leaks, sendq,
                     expiredq, sendVars, cur, reply>>
  BY DEF HandleInit, Goto, qVars
<1> HIDE DEF x
<1>3. /\ pc'[t] = "enqueue" /\ \A s \in Thread : s # t => pc'[s] = pc[s]
      /\ \A y \in Request : y # x => flags'[y] = flags[y]
      /\ \A f \in Flag \ {"blocking"}, y \in Request : f \in flags'[y] <=> f \in flags[y]
  <2>1. pc'[t] = "enqueue" /\ \A s \in Thread : s # t => pc'[s] = pc[s]
    BY <1>1, <1>2 DEF IInv, TypeOK
  <2>2. /\ \A y \in Request : y # x => flags'[y] = flags[y]
        /\ flags'[x] = flags[x] \cup (IF block THEN {"blocking"} ELSE {})
    BY <1>1, <1>2 DEF IInv, TypeOK
  <2> QED
    BY <2>1, <2>2
<1>4. TypeOK'
  BY <1>1, <1>2 DEF IInv, TypeOK, Thread, Label, Flag, sendVars
<1>5. Lives'
  BY <1>1, <1>2, <1>3 DEF IInv, Lives
<1>6. Places'
  BY <1>1, <1>2, <1>3, Threads DEF IInv, Places, Uses, Opening, Flag, TypeOK, sendVars
<1>7. Queues'
  <2>1. \A y \in Range(sendq) \cup Range(expiredq) : y \in Request
    BY DEF IInv, Queues, TypeOK
  <2>2. pc[Client] \in {"done", "done_put"} => cur[Client] \in Request
    BY Threads DEF IInv, Places, Uses, TypeOK
  <2> QED
    BY <1>2, <1>3, <2>1, <2>2, Threads DEF IInv, Queues, Uses, Flag
<1>8. Ending'
  <2>1. Uses(Client) => cur[Client] \in Request
    BY Threads DEF IInv, Places, TypeOK
  <2>2. pc'[Client] = pc[Client]
    BY <1>1, <1>3, Threads
  <2>3. \A y \in alive : y \in Request
    BY DEF IInv, TypeOK
  <2> QED
    BY <1>2, <1>3, <2>1, <2>2, <2>3 DEF IInv, Ending, Uses, Flag
<1>9. Counts'
  <2>1. \A y \in alive : Shares(y)' = Shares(y) /\ ref_cnt'[y] = ref_cnt[y]
    BY <1>1, <1>2, <1>3, SharesStay, Threads
  <2> QED
    BY <1>2, <1>3, <2>1, AppCountsNot, Threads
<1>10. OwnReply'
  BY <1>2 DEF IInv, OwnReply
<1>11. QueueIsWatched'
  <2>1. pc[Client] \in {"done", "done_put"} => cur[Client] \in Request
    BY Threads DEF IInv, Places, Uses, TypeOK
  <2> QED
    BY <1>1, <1>2, <1>3, <2>1, Threads DEF IInv, QueueIsWatched, sendVars, Flag
<1> QED
  BY <1>4, <1>5, <1>6, <1>7, <1>8, <1>9, <1>10, <1>11 DEF IInv

\* It fails: the reference of the constructor is the thread's to put.
LEMMA HandleInitFailsKeeps ==
  ASSUME ~CancelInit, IInv, NEW t \in App, HandleInitFails(t)
  PROVE  IInv'
<1> USE ClientAssumption
<1> DEFINE x == cur[t]
<1>1. /\ x \in alive /\ x \in Request /\ t \in Thread /\ t # Client
      /\ result[x] = NoRequest /\ "initializing" \in flags[x]
      /\ \A s \in App : Opening(s) /\ cur[s] = x => s = t
  BY Threads DEF IInv, Places, Uses, Opening, TypeOK, HandleInitFails
<1>2. /\ pc[t] = "init" /\ cur[t] = x /\ pc' = [pc EXCEPT ![t] = "put"]
      /\ result' = [result EXCEPT ![x] = EMSGSIZE]
      /\ UNCHANGED <<alive, user, ref_cnt, flags, age, replies, leaks, sendq,
                     expiredq, sendVars, cur, queue, reply>>
  BY DEF HandleInitFails, Goto, qVars
<1> HIDE DEF x
<1>3. /\ pc'[t] = "put" /\ \A s \in Thread : s # t => pc'[s] = pc[s]
      /\ \A y \in Request : y # x => result'[y] = result[y]
      /\ result'[x] = EMSGSIZE /\ EMSGSIZE # NoRequest /\ ~(EMSGSIZE > 0)
  BY <1>1, <1>2 DEF IInv, TypeOK, EMSGSIZE, NoRequest
<1>4. pc[Client] \in {"done", "done_put", "launch", "cancel"} => cur[Client] # x
  BY <1>1 DEF IInv, Ending
<1>5. TypeOK'
  BY <1>1, <1>2 DEF IInv, TypeOK, Thread, Label, sendVars
<1>6. Lives'
  BY <1>1, <1>2, <1>3 DEF IInv, Lives
<1>7. Places'
  <2>1. \A s \in App : Opening(s) => cur[s] \in Request
    BY Threads DEF IInv, Places, Uses, Opening, TypeOK
  <2> QED
    BY <1>1, <1>2, <1>3, <2>1, Threads DEF IInv, Places, Uses, Opening, sendVars
<1>8. Queues'
  BY <1>1, <1>2, <1>3, Threads DEF IInv, Queues, Uses
<1>9. Ending'
  <2>1. Uses(Client) => cur[Client] \in Request
    BY Threads DEF IInv, Places, TypeOK
  <2>2. pc'[Client] = pc[Client]
    BY <1>1, <1>3, Threads
  <2>3. \A y \in alive : y \in Request
    BY DEF IInv, TypeOK
  <2> QED
    BY <1>1, <1>2, <1>3, <1>4, <2>1, <2>2, <2>3 DEF IInv, Ending, Uses
<1>10. Counts'
  <2>1. pc'[Client] = pc[Client] /\ cur'[Client] = cur[Client]
    BY <1>1, <1>2, <1>3, Threads
  <2>2. ASSUME NEW z \in alive
        PROVE  ref_cnt'[z] - Shares(z)' =
                 ref_cnt[z] - Shares(z) + One(pc'[t] = "put" /\ cur'[t] = z)
                   - One(pc[t] = "put" /\ cur[t] = z)
    <3>1. z \in Request /\ Shares(z) \in Nat /\ ref_cnt[z] \in Nat
      BY SharesNat DEF IInv, TypeOK
    <3>2. /\ One(pc[t] = "put" /\ cur[t] = z) = 0
          /\ One(pc'[t] = "put" /\ cur'[t] = z) = IF z = x THEN 1 ELSE 0
      BY <1>2, <1>3 DEF One
    <3>3. CASE z # x
      <4>1. Shares(z)' = Shares(z)
        BY <1>2, <1>3, <2>1, <3>1, <3>3, SharesStay
      <4> QED
        BY <1>2, <3>1, <3>2, <3>3, <4>1
    <3>4. CASE z = x
      <4>1. Open(z) /\ ~Open(z)' /\ (ClientHolds(z)' <=> ClientHolds(z))
        BY <1>1, <1>2, <1>3, <1>4, <2>1, <3>4 DEF Open, ClientHolds, Holds, Uses
      <4>2. Shares(z) = Shares(z)' + 1
        <5>1. leaks[z] \in Nat
          BY <3>1 DEF IInv, TypeOK
        <5> QED
          BY <1>2, <4>1, <5>1 DEF Shares, One
      <4>3. Shares(z)' \in Nat
        BY <3>1, <1>5, SharesNatNext
      <4> QED
        BY <1>2, <3>1, <3>2, <3>4, <4>2, <4>3
    <3> QED
      BY <3>3, <3>4
  <2> QED
    BY <1>2, <1>3, <1>5, <2>2, AppCounts, Threads
<1>11. OwnReply'
  BY <1>1, <1>3 DEF IInv, OwnReply
<1>12. QueueIsWatched'
  BY <1>2, <1>3, Threads DEF IInv, QueueIsWatched, sendVars
<1> QED
  BY <1>5, <1>6, <1>7, <1>8, <1>9, <1>10, <1>11, <1>12 DEF IInv

\* The critical section of raft_client_request_submit_enqueue()
LEMMA EnqueueKeeps ==
  ASSUME ~CancelInit, IInv, NEW t \in App, Enqueue(t)
  PROVE  IInv'
<1> USE ClientAssumption
<1> DEFINE x == cur[t]
<1>1. /\ x \in alive /\ x \in Request /\ t \in Thread /\ t # Client
      /\ result[x] = NoRequest /\ "initializing" \in flags[x]
      /\ x \notin Range(sendq) /\ x \notin Range(expiredq)
      /\ \A s \in App : Opening(s) /\ cur[s] = x => s = t
  BY Threads DEF IInv, Places, Queues, Uses, Opening, TypeOK, Enqueue
<1>2. /\ pc[t] = "enqueue" /\ queue[t] \in BOOLEAN
      /\ flags' = [flags EXCEPT ![x] = (@ \ {"initializing"}) \cup
                             (IF queue[t] THEN {} ELSE {"delay"})]
      /\ sendq' = IF queue[t] THEN Append(sendq, x) ELSE sendq
      /\ ref_cnt' = [y \in Request |->
           IF y \in (IF queue[t] THEN {x} ELSE {}) THEN ref_cnt[y] + 1 ELSE ref_cnt[y]]
      /\ queue' = [queue EXCEPT ![t] = FALSE]
      /\ UNCHANGED <<alive, user, result, age, replies, leaks, expiredq, sendVars,
                     reply>>
  BY DEF Enqueue, SendQueueAdd, IInv, TypeOK
<1>3. /\ pc' \in [Thread -> Label] /\ cur' \in [Thread -> Request \cup {NoRequest}]
      /\ pc'[t] \in {"notify", "wait", "idle"} /\ (queue[t] => pc'[t] = "notify")
      /\ \A s \in Thread : s # t => pc'[s] = pc[s] /\ cur'[s] = cur[s]
  <2>1. CASE queue[t]
    BY <1>1, <2>1 DEF Enqueue, Goto, IInv, TypeOK, Label
  <2>2. CASE ~queue[t] /\ "blocking" \in flags[x]
    BY <1>1, <2>2 DEF Enqueue, Goto, AfterEnqueue, IInv, TypeOK, Label
  <2>3. CASE ~queue[t] /\ "blocking" \notin flags[x]
    BY <1>1, <2>3 DEF Enqueue, Goto, AfterEnqueue, Return, IInv, TypeOK, Label
  <2> QED
    BY <1>2, <2>1, <2>2, <2>3
<1> HIDE DEF x
<1>4. /\ \A y \in Request : y # x => flags'[y] = flags[y]
      /\ \A f \in Flag \ {"initializing", "delay"}, y \in Request :
           f \in flags'[y] <=> f \in flags[y]
      /\ "initializing" \notin flags'[x]
  <2>1. /\ \A y \in Request : y # x => flags'[y] = flags[y]
        /\ flags'[x] = (flags[x] \ {"initializing"}) \cup
             (IF queue[t] THEN {} ELSE {"delay"})
    BY <1>1, <1>2 DEF IInv, TypeOK
  <2> QED
    BY <1>2, <2>1
<1>5. /\ sendq' \in Seq(Request) /\ Once(sendq')
      /\ Range(sendq') = Range(sendq) \cup (IF queue[t] THEN {x} ELSE {})
  <2>1. /\ Append(sendq, x) \in Seq(Request) /\ Once(Append(sendq, x))
        /\ Range(Append(sendq, x)) = Range(sendq) \cup {x}
    BY <1>1, AppendOnce DEF IInv, TypeOK, Queues
  <2> QED
    BY <1>2, <2>1 DEF IInv, TypeOK, Queues
<1>6. TypeOK'
  <2>1. flags' \in [Request -> SUBSET Flag]
    BY <1>1, <1>2 DEF IInv, TypeOK, Flag
  <2>2. ref_cnt' \in [Request -> Nat] /\ queue' \in [App -> BOOLEAN]
    BY <1>1, <1>2 DEF IInv, TypeOK
  <2> QED
    BY <1>2, <1>3, <1>5, <2>1, <2>2 DEF IInv, TypeOK, sendVars
<1>7. Lives'
  BY <1>1, <1>2, <1>4 DEF IInv, Lives
<1>8. Places'
  <2>1. \A s \in App : Opening(s) => cur[s] \in Request
    BY Threads DEF IInv, Places, Uses, Opening, TypeOK
  <2>2. \A s \in App : Opening(s)' => s # t /\ Opening(s) /\ cur'[s] = cur[s] /\ cur[s] # x
    BY <1>1, <1>3, Threads DEF Opening
  <2>3. \A s \in Thread : Uses(s)' => s # t /\ Uses(s) /\ cur'[s] = cur[s]
    BY <1>3, Threads DEF Uses
  <2>4. /\ \A s \in App : pc'[s] \in {"idle", "add", "init", "enqueue", "notify", "wait", "put"}
        /\ pc'[Client] = pc[Client]
    BY <1>1, <1>3, Threads DEF IInv, Places
  <2> QED
    BY <1>2, <1>4, <2>1, <2>2, <2>3, <2>4 DEF IInv, Places, sendVars
<1>9. Queues'
  <2>1. \A y \in Range(sendq) \cup Range(expiredq) : y \in Request
    BY DEF IInv, Queues, TypeOK
  <2>2. pc[Client] \in {"done", "done_put"} => cur[Client] \in Request
    BY Threads DEF IInv, Places, Uses, TypeOK
  <2>3. pc'[Client] = pc[Client] /\ cur'[Client] = cur[Client]
    BY <1>1, <1>3, Threads
  <2>4. \A y \in Request : "initializing" \notin flags[y] => "initializing" \notin flags'[y]
    BY <1>4
  <2>5. Range(sendq') \subseteq alive'
        /\ \A y \in Range(sendq') : "initializing" \notin flags'[y]
    BY <1>1, <1>2, <1>4, <1>5, <2>1, <2>4 DEF IInv, Queues
  <2> QED
    BY <1>2, <1>4, <1>5, <2>1, <2>2, <2>3, <2>4, <2>5 DEF IInv, Queues, Uses, Flag
<1>10. Ending'
  <2>1. Uses(Client) => cur[Client] \in Request
    BY Threads DEF IInv, Places, TypeOK
  <2>2. pc'[Client] = pc[Client] /\ cur'[Client] = cur[Client]
    BY <1>1, <1>3, Threads
  <2>3. \A y \in alive : y \in Request
    BY DEF IInv, TypeOK
  <2>4. \A y \in Request : "initializing" \notin flags[y] => "initializing" \notin flags'[y]
    BY <1>4
  <2>5. \A y \in alive : result'[y] # NoRequest => flags'[y] = flags[y]
    BY <1>1, <1>2, <1>4, <2>3
  <2> QED
    BY <1>2, <1>4, <2>1, <2>2, <2>3, <2>4, <2>5 DEF IInv, Ending, Uses, Flag
<1>11. Counts'
  <2>1. pc'[Client] = pc[Client] /\ cur'[Client] = cur[Client]
    BY <1>1, <1>3, Threads
  <2>2. ASSUME NEW z \in alive
        PROVE  ref_cnt'[z] - Shares(z)' =
                 ref_cnt[z] - Shares(z) + One(pc'[t] = "put" /\ cur'[t] = z)
                   - One(pc[t] = "put" /\ cur[t] = z)
    <3>1. z \in Request /\ Shares(z) \in Nat /\ ref_cnt[z] \in Nat /\ leaks[z] \in Nat
      BY SharesNat DEF IInv, TypeOK
    <3>2. /\ One(pc[t] = "put" /\ cur[t] = z) = 0
          /\ One(pc'[t] = "put" /\ cur'[t] = z) = 0
      BY <1>2, <1>3 DEF One
    <3>3. (Open(z)' <=> Open(z)) /\ (ClientHolds(z)' <=> ClientHolds(z))
      BY <1>2, <2>1 DEF Open, ClientHolds, Holds, Uses
    <3>4. Shares(z)' = IF queue[t] /\ z = x THEN Shares(z) + 1 ELSE Shares(z)
      BY <1>1, <1>2, <1>5, <3>1, <3>3 DEF Shares, One
    <3>5. ref_cnt'[z] = IF queue[t] /\ z = x THEN ref_cnt[z] + 1 ELSE ref_cnt[z]
      BY <1>2, <3>1
    <3> QED
      BY <3>1, <3>2, <3>4, <3>5
  <2> QED
    BY <1>2, <1>3, <1>6, <2>2, AppCounts, Threads
<1>12. OwnReply'
  BY <1>2 DEF IInv, OwnReply
<1>13. QueueIsWatched'
  <2>1. pc[Client] \in {"done", "done_put"} => cur[Client] \in Request
    BY Threads DEF IInv, Places, Uses, TypeOK
  <2>2. pc'[Client] = pc[Client] /\ cur'[Client] = cur[Client]
    BY <1>1, <1>3, Threads
  <2>3. \A s \in App : pc[s] = "notify" => pc'[s] = "notify"
    BY <1>2, <1>3, Threads
  <2> QED
    BY <1>2, <1>3, <1>4, <2>1, <2>2, <2>3 DEF IInv, QueueIsWatched, sendVars, Flag
<1> QED
  BY <1>6, <1>7, <1>8, <1>9, <1>10, <1>11, <1>12, <1>13 DEF IInv

\* RAFT_NET_EVP_NOTIFY_NO_FAIL()
LEMMA NotifyKeeps ==
  ASSUME ~CancelInit, IInv, NEW t \in App, Notify(t)
  PROVE  IInv'
<1> USE ClientAssumption
<1>1. /\ pc' \in [Thread -> Label] /\ cur' \in [Thread -> Request \cup {NoRequest}]
      /\ pc'[t] \in {"wait", "idle"} /\ pc[t] = "notify"
      /\ \A s \in Thread : s # t => pc'[s] = pc[s] /\ cur'[s] = cur[s]
  <2>1. CASE "blocking" \in flags[cur[t]]
    BY <2>1, Threads DEF Notify, Goto, AfterEnqueue, IInv, TypeOK, Label
  <2>2. CASE "blocking" \notin flags[cur[t]]
    BY <2>2, Threads DEF Notify, Goto, AfterEnqueue, Return, IInv, TypeOK, Label
  <2> QED
    BY <2>1, <2>2
<1>2. notified' = TRUE /\ UNCHANGED <<objVars, qVars, remaining_sends, throttled,
                                      resend, queue, reply>>
  BY DEF Notify
<1>3. pc'[Client] = pc[Client] /\ cur'[Client] = cur[Client]
  BY <1>1, Threads
<1>4. TypeOK'
  BY <1>1, <1>2 DEF IInv, TypeOK, objVars, qVars
<1>5. Lives'
  BY <1>2 DEF IInv, Lives, objVars
<1>6. Places'
  BY <1>1, <1>2, <1>3, Threads DEF IInv, Places, Uses, Opening, objVars, sendVars
<1>7. Queues'
  BY <1>2, <1>3 DEF IInv, Queues, Uses, objVars, qVars
<1>8. Ending'
  BY <1>2, <1>3 DEF IInv, Ending, objVars
<1>9. Counts'
  <2>1. \A y \in alive : Shares(y)' = Shares(y) /\ ref_cnt'[y] = ref_cnt[y]
    BY <1>2, <1>3, SharesStay DEF objVars, qVars
  <2> QED
    BY <1>1, <1>2, <2>1, AppCountsNot, Threads DEF objVars
<1>10. OwnReply'
  BY <1>2 DEF IInv, OwnReply, objVars
<1>11. QueueIsWatched'
  BY <1>2 DEF QueueIsWatched
<1> QED
  BY <1>4, <1>5, <1>6, <1>7, <1>8, <1>9, <1>10, <1>11 DEF IInv

\* raft_client_sub_app_wait() returns.
LEMMA WakeKeeps ==
  ASSUME ~CancelInit, IInv, NEW t \in App, Wake(t)
  PROVE  IInv'
<1> USE ClientAssumption
<1>1. /\ pc' \in [Thread -> Label] /\ cur' \in [Thread -> Request \cup {NoRequest}]
      /\ pc'[t] = "idle" /\ pc[t] = "wait"
      /\ \A s \in Thread : s # t => pc'[s] = pc[s] /\ cur'[s] = cur[s]
  BY Threads DEF Wake, Goto, Return, IInv, TypeOK, Label
<1>2. UNCHANGED <<objVars, qVars, sendVars, queue, reply>>
  BY DEF Wake
<1>3. pc'[Client] = pc[Client] /\ cur'[Client] = cur[Client]
  BY <1>1, Threads
<1>4. TypeOK'
  BY <1>1, <1>2 DEF IInv, TypeOK, objVars, qVars, sendVars
<1>5. Lives'
  BY <1>2 DEF IInv, Lives, objVars
<1>6. Places'
  BY <1>1, <1>2, <1>3, Threads DEF IInv, Places, Uses, Opening, objVars, sendVars
<1>7. Queues'
  BY <1>2, <1>3 DEF IInv, Queues, Uses, objVars, qVars
<1>8. Ending'
  BY <1>2, <1>3 DEF IInv, Ending, objVars
<1>9. Counts'
  <2>1. \A y \in alive : Shares(y)' = Shares(y) /\ ref_cnt'[y] = ref_cnt[y]
    BY <1>2, <1>3, SharesStay DEF objVars, qVars
  <2> QED
    BY <1>1, <1>2, <2>1, AppCountsNot, Threads DEF objVars
<1>10. OwnReply'
  BY <1>2 DEF IInv, OwnReply, objVars
<1>11. QueueIsWatched'
  BY <1>1, <1>2, <1>3, Threads DEF IInv, QueueIsWatched, objVars, qVars, sendVars
<1> QED
  BY <1>4, <1>5, <1>6, <1>7, <1>8, <1>9, <1>10, <1>11 DEF IInv

\* raft_client_request_cancel() of a request beyond its initialization: the
\* reference it keeps is counted as leaked.
LEMMA CancelKeeps ==
  ASSUME ~CancelInit, IInv, NEW t \in App, NEW u \in UserId, Cancel(t, u)
  PROVE  IInv'
<1>1. PICK x \in alive :
        /\ ref_cnt' = [ref_cnt EXCEPT ![x] = @ + 1]
        /\ leaks' = [leaks EXCEPT ![x] = @ + 1]
        /\ UNCHANGED <<pc, cur>>
  BY DEF Cancel, Find, Get
<1>2. UNCHANGED <<alive, user, flags, result, age, replies, sendq, expiredq,
                  sendVars, queue, reply>>
  BY DEF Cancel, qVars
<1>3. /\ x \in Request
      /\ \A y \in Request : /\ ref_cnt[y] \in Nat /\ leaks[y] \in Nat
                            /\ ref_cnt'[y] = IF y = x THEN ref_cnt[y] + 1 ELSE ref_cnt[y]
                            /\ leaks'[y] = IF y = x THEN leaks[y] + 1 ELSE leaks[y]
  BY <1>1 DEF IInv, TypeOK
<1>4. TypeOK'
  <2>1. ref_cnt' \in [Request -> Nat] /\ leaks' \in [Request -> Nat]
    BY <1>1, <1>3 DEF IInv, TypeOK
  <2> QED
    BY <1>1, <1>2, <2>1 DEF IInv, TypeOK, sendVars
<1>5. Lives'
  BY <1>1, <1>2, <1>3 DEF IInv, Lives
<1>6. Places'
  BY <1>1, <1>2 DEF IInv, Places, Uses, Opening, sendVars
<1>7. Queues'
  BY <1>1, <1>2 DEF IInv, Queues, Uses
<1>8. Ending'
  BY <1>1, <1>2 DEF IInv, Ending
<1>9. Counts'
  <2>1. \A y : AppHolders(y)' = AppHolders(y)
    BY <1>1 DEF AppHolders
  <2>2. ASSUME NEW y \in alive
        PROVE  ref_cnt'[y] = Shares(y)' + Cardinality(AppHolders(y))
    <3>1. /\ y \in Request /\ Shares(y) \in Nat /\ leaks[y] \in Nat
          /\ Cardinality(AppHolders(y)) \in Nat
      BY SharesNat, HoldersFinite DEF IInv, TypeOK
    <3>2. (Open(y)' <=> Open(y)) /\ (ClientHolds(y)' <=> ClientHolds(y))
      BY <1>1, <1>2 DEF Open, ClientHolds, Holds, Uses
    <3>3. Shares(y)' = IF y = x THEN Shares(y) + 1 ELSE Shares(y)
      BY <1>2, <1>3, <3>1, <3>2 DEF Shares, One
    <3>4. ref_cnt[y] = Shares(y) + Cardinality(AppHolders(y))
      BY DEF IInv, Counts
    <3> QED
      BY <1>3, <3>1, <3>3, <3>4
  <2> QED
    BY <1>2, <2>1, <2>2 DEF Counts
<1>10. OwnReply'
  BY <1>2 DEF IInv, OwnReply
<1>11. QueueIsWatched'
  BY <1>1, <1>2 DEF IInv, QueueIsWatched, sendVars
<1> QED
  BY <1>4, <1>5, <1>6, <1>7, <1>8, <1>9, <1>10, <1>11 DEF IInv

-----------------------------------------------------------------------------
(* The end of a reference *)

\* raft_client_sub_app_put() of a thread that has a reference
LEMMA PutFacts ==
  ASSUME IInv, NEW t \in Thread, Holds(t), NEW x, x = cur[t], Put(x)
  PROVE  /\ x \in alive /\ x \in Request
         /\ ref_cnt' \in [Request -> Nat] /\ flags' \in [Request -> SUBSET Flag]
         /\ age' \in [Request -> {"unused", "new", "late", "freed"}]
         /\ ref_cnt[x] \in Nat /\ ref_cnt'[x] = ref_cnt[x] - 1
         /\ \A y \in Request : y # x =>
              /\ ref_cnt'[y] = ref_cnt[y] /\ flags'[y] = flags[y] /\ age'[y] = age[y]
              /\ y \in alive' <=> y \in alive
         /\ alive' \subseteq alive
         /\ \/ UNCHANGED <<alive, flags, age>>
            \/ /\ alive' = alive \ {x} /\ flags'[x] = {} /\ age'[x] = "freed"
               /\ result[x] # NoRequest /\ leaks[x] = 0
               /\ x \notin Range(sendq) /\ x \notin Range(expiredq)
               /\ \A s \in Thread : Uses(s) /\ cur[s] = x => s = t
<1>1. /\ x \in alive /\ x \in Request /\ ref_cnt[x] \in Nat /\ ref_cnt[x] >= 1
      /\ ref_cnt[x] = 1 =>
              /\ result[x] # NoRequest /\ leaks[x] = 0
              /\ x \notin Range(sendq) /\ x \notin Range(expiredq)
              /\ \A s \in Thread : Uses(s) /\ cur[s] = x => s = t
  BY HeldIsCounted
<1>2. /\ ref_cnt' \in [Request -> Nat] /\ ref_cnt'[x] = ref_cnt[x] - 1
      /\ \A y \in Request : y # x => ref_cnt'[y] = ref_cnt[y]
  BY <1>1 DEF IInv, TypeOK, Put
<1>3. CASE ref_cnt[x] = 1
  <2>1. /\ alive' = alive \ {x} /\ flags' = [flags EXCEPT ![x] = {}]
        /\ age' = [age EXCEPT ![x] = "freed"]
    BY <1>3 DEF Put
  <2> QED
    BY <1>1, <1>2, <1>3, <2>1 DEF IInv, TypeOK
<1>4. CASE ref_cnt[x] # 1
  <2>1. UNCHANGED <<alive, flags, age>>
    BY <1>4 DEF Put
  <2> QED
    BY <1>1, <1>2, <2>1 DEF IInv, TypeOK
<1> QED
  BY <1>3, <1>4

\* The tree after a put
LEMMA PutLives ==
  ASSUME IInv, NEW t \in Thread, Holds(t), Put(cur[t]), UNCHANGED <<user, result, leaks>>
  PROVE  Lives'
<1>1. PICK x : x = cur[t]
  OBVIOUS
<1>2. /\ x \in Request /\ alive' \subseteq alive
      /\ \A y \in Request : y # x =>
           flags'[y] = flags[y] /\ age'[y] = age[y] /\ (y \in alive' <=> y \in alive)
      /\ \/ UNCHANGED <<alive, flags, age>>
         \/ alive' = alive \ {x} /\ flags'[x] = {} /\ age'[x] = "freed"
  BY <1>1, PutFacts
<1> QED
  BY <1>2 DEF IInv, Lives

\* The flags that remain
LEMMA PutFlags ==
  ASSUME IInv, NEW t \in Thread, Holds(t), Put(cur[t]), NEW y \in Request
  PROVE  /\ flags'[y] \subseteq flags[y]
         /\ y \in alive' => flags'[y] = flags[y] /\ y \in alive
         /\ y # cur[t] => flags'[y] = flags[y]
<1>1. PICK x : x = cur[t]
  OBVIOUS
<1> QED
  BY <1>1, PutFacts

\* The last put of an application thread
LEMMA AppPutKeeps ==
  ASSUME ~CancelInit, IInv, NEW t \in App, LastPut(t)
  PROVE  IInv'
<1> USE ClientAssumption
<1>1. PICK x : x = cur[t]
  OBVIOUS
<1>2. /\ pc[t] = "put" /\ Put(x) /\ t \in Thread /\ t # Client
      /\ pc' = [pc EXCEPT ![t] = "idle"] /\ cur' = [cur EXCEPT ![t] = NoRequest]
      /\ UNCHANGED <<expiredq, reply, user, result, replies, leaks, sendq, sendVars, queue>>
  BY <1>1, Threads DEF LastPut, Return, Goto
<1>3. Holds(t)
  BY <1>2 DEF Holds, Uses
<1>4. /\ x \in alive /\ x \in Request
      /\ ref_cnt' \in [Request -> Nat] /\ flags' \in [Request -> SUBSET Flag]
      /\ age' \in [Request -> {"unused", "new", "late", "freed"}]
      /\ ref_cnt[x] \in Nat /\ ref_cnt'[x] = ref_cnt[x] - 1
      /\ \A y \in Request : y # x =>
           /\ ref_cnt'[y] = ref_cnt[y] /\ flags'[y] = flags[y]
           /\ y \in alive' <=> y \in alive
      /\ alive' \subseteq alive
      /\ \/ UNCHANGED <<alive, flags, age>>
         \/ /\ alive' = alive \ {x} /\ flags'[x] = {}
            /\ result[x] # NoRequest
            /\ x \notin Range(sendq) /\ x \notin Range(expiredq)
            /\ \A s \in Thread : Uses(s) /\ cur[s] = x => s = t
  BY <1>1, <1>2, <1>3, PutFacts
<1>5. /\ pc'[t] = "idle" /\ \A s \in Thread : s # t => pc'[s] = pc[s] /\ cur'[s] = cur[s]
      /\ pc'[Client] = pc[Client] /\ cur'[Client] = cur[Client]
  BY <1>2, Threads DEF IInv, TypeOK
<1>6. \A y \in Request : flags'[y] \subseteq flags[y]
  BY <1>1, <1>2, <1>3, PutFlags
<1>7. Uses(Client) => cur[Client] \in Request /\ flags'[cur[Client]] = flags[cur[Client]]
  <2>1. Uses(Client) => cur[Client] \in Request
    BY Threads DEF IInv, Places, TypeOK
  <2> QED
    BY <1>2, <1>4, <2>1, Threads
<1>8. TypeOK'
  <2>1. cur' \in [Thread -> Request \cup {NoRequest}] /\ pc' \in [Thread -> Label]
    BY <1>2 DEF IInv, TypeOK, Label
  <2> QED
    BY <1>2, <1>4, <2>1 DEF IInv, TypeOK, sendVars
<1>9. Lives'
  BY <1>1, <1>2, <1>3, PutLives
<1>10. Places'
  <2>1. \A s \in Thread : Uses(s)' => s # t /\ Uses(s) /\ cur'[s] = cur[s]
    BY <1>5 DEF Uses
  <2>2. \A s \in App : Opening(s)' => /\ s # t /\ Opening(s) /\ Uses(s)
                                      /\ cur'[s] = cur[s] /\ cur[s] \in Request
    BY <1>5, Threads DEF Opening, Uses, IInv, Places, TypeOK
  <2>3. \A s \in Thread : Uses(s)' => cur'[s] \in alive'
    BY <1>4, <2>1 DEF IInv, Places
  <2>4. \A s \in App : Opening(s)' => flags'[cur[s]] = flags[cur[s]]
    BY <1>4, <2>2, Threads
  <2> QED
    BY <1>2, <1>5, <2>2, <2>3, <2>4, Threads DEF IInv, Places, sendVars
<1>11. Queues'
  <2>1. \A y \in Range(sendq) \cup Range(expiredq) : y \in Request /\ y \in alive'
    BY <1>4 DEF IInv, Queues, TypeOK
  <2> QED
    BY <1>2, <1>5, <1>6, <1>7, <2>1 DEF IInv, Queues, Uses
<1>12. Ending'
  <2>1. \A y \in alive' : y \in alive /\ y \in Request /\ flags'[y] = flags[y]
    BY <1>4 DEF IInv, TypeOK
  <2>2. \A y \in Request : "send_failed" \in flags'[y] => "cancel" \in flags'[y]
    BY <1>4, <1>6 DEF IInv, Ending
  <2>3. \A y \in Request : "completing" \in flags'[y] => "completing" \in flags[y]
    BY <1>6
  <2> QED
    BY <1>2, <1>5, <1>7, <2>1, <2>2, <2>3 DEF IInv, Ending, Uses
<1>13. Counts'
  <2>1. \A z \in alive' : Shares(z)' = Shares(z)
    BY <1>2, <1>5, SharesStay
  <2>2. ASSUME NEW z \in alive'
        PROVE  ref_cnt'[z] - Shares(z)' =
                 ref_cnt[z] - Shares(z) + One(pc'[t] = "put" /\ cur'[t] = z)
                   - One(pc[t] = "put" /\ cur[t] = z)
    <3>1. z \in Request /\ Shares(z) \in Nat /\ ref_cnt[z] \in Nat
      BY <1>4, SharesNat DEF IInv, TypeOK
    <3>2. /\ One(pc[t] = "put" /\ cur[t] = z) = IF z = x THEN 1 ELSE 0
          /\ One(pc'[t] = "put" /\ cur'[t] = z) = 0
      BY <1>1, <1>2, <1>5 DEF One
    <3>3. ref_cnt'[z] = IF z = x THEN ref_cnt[z] - 1 ELSE ref_cnt[z]
      BY <1>4, <3>1
    <3> QED
      BY <2>1, <3>1, <3>2, <3>3
  <2> QED
    BY <1>4, <1>5, <1>8, <2>2, AppCounts, Threads
<1>14. OwnReply'
  BY <1>2 DEF IInv, OwnReply
<1>15. QueueIsWatched'
  <2>1. \A s \in App : pc[s] = "notify" => pc'[s] = "notify"
    BY <1>2, <1>5, Threads
  <2> QED
    BY <1>2, <1>5, <1>7, <2>1 DEF IInv, QueueIsWatched, sendVars, Uses
<1> QED
  BY <1>8, <1>9, <1>10, <1>11, <1>12, <1>13, <1>14, <1>15 DEF IInv

-----------------------------------------------------------------------------
(* The client thread *)

\* The object that the client thread uses, and those it does not
LEMMA ClientObject ==
  ASSUME IInv, Uses(Client), NEW x, x = cur[Client]
  PROVE  /\ x \in alive /\ x \in Request /\ x \notin Range(expiredq)
         /\ \A y \in alive \cup Range(sendq) \cup Range(expiredq) : y \in Request
         /\ \A s \in App : Opening(s) =>
              /\ cur[s] \in Request
              /\ "initializing" \notin flags[x] => cur[s] # x
BY Threads DEF IInv, Places, Queues, TypeOK, Opening, Uses

\* The critical section of raft_client_sub_app_cancel_pending_req()
LEMMA CancelPendingReqKeeps ==
  ASSUME ~CancelInit, IInv, CancelPendingReq(Client)
  PROVE  IInv'
<1> USE ClientAssumption
<1>1. PICK x : x = cur[Client]
  OBVIOUS
<1>2. /\ pc[Client] = "cancel"
      /\ UNCHANGED <<alive, user, ref_cnt, result, age, replies, leaks, sendq,
                     expiredq, sendVars, cur, queue, reply>>
  BY DEF CancelPendingReq, qVars
<1>3. /\ x \in alive /\ x \in Request /\ x \notin Range(expiredq)
      /\ \A y \in alive \cup Range(sendq) \cup Range(expiredq) : y \in Request
      /\ "cancel" \notin flags[x] /\ "initializing" \notin flags[x]
      /\ "send_failed" \notin flags[x]
      /\ \A s \in App : Opening(s) => cur[s] \in Request /\ cur[s] # x
      /\ \A y \in Request : "completing" \notin flags[y]
  <2>1. "cancel" \notin flags[x] /\ "initializing" \notin flags[x]
    BY <1>1, <1>2 DEF IInv, Ending
  <2>2. Uses(Client)
    BY <1>2 DEF Uses
  <2> QED
    BY <1>1, <1>2, <2>1, <2>2, ClientObject DEF IInv, Ending
<1>4. /\ \A s \in App : pc'[s] = pc[s] /\ cur'[s] = cur[s]
      /\ \A y \in Request : y # x => flags'[y] = flags[y]
      /\ pc' \in [Thread -> Label] /\ flags' \in [Request -> SUBSET Flag]
      /\ \/ /\ pc'[Client] = "done" /\ flags'[x] = flags[x] \cup {"cancel"}
            /\ "ready" \notin flags[x]
         \/ pc'[Client] = "put" /\ flags' = flags
  <2>1. CASE flags[x] \cap {"completing", "ready"} = {}
    <3>1. flags' = [flags EXCEPT ![x] = @ \cup {"cancel"}]
          /\ pc' = [pc EXCEPT ![Client] = "done"]
      BY <1>1, <2>1 DEF CancelPendingReq, Goto
    <3> QED
      BY <1>2, <1>3, <2>1, <3>1, Threads DEF IInv, TypeOK, Label, Flag
  <2>2. CASE flags[x] \cap {"completing", "ready"} # {}
    <3>1. flags' = flags /\ pc' = [pc EXCEPT ![Client] = "put"]
      BY <1>1, <2>2 DEF CancelPendingReq, Goto
    <3> QED
      BY <1>2, <3>1, Threads DEF IInv, TypeOK, Label
  <2> QED
    BY <2>1, <2>2
<1>5. TypeOK'
  BY <1>2, <1>4 DEF IInv, TypeOK, sendVars
<1>6. Lives'
  BY <1>2, <1>3, <1>4 DEF IInv, Lives
<1>7. Places'
  BY <1>1, <1>2, <1>3, <1>4, Threads DEF IInv, Places, Uses, Opening, sendVars
<1>8. Queues'
  BY <1>1, <1>2, <1>3, <1>4 DEF IInv, Queues, Uses
<1>9. Ending'
  <2>1. pc'[Client] = "done" => result[x] = NoRequest
    BY <1>3, <1>4 DEF IInv, Ending
  <2>2. \A y \in Request : flags[y] \subseteq flags'[y] /\ "completing" \notin flags'[y]
    BY <1>3, <1>4
  <2> QED
    BY <1>1, <1>2, <1>3, <1>4, <2>1, <2>2 DEF IInv, Ending
<1>10. Counts'
  <2>1. \A y \in alive : (Open(y)' <=> Open(y)) /\ (ClientHolds(y)' <=> ClientHolds(y))
    BY <1>2, <1>4 DEF Open, ClientHolds, Holds, Uses
  <2>2. \A y \in alive : Shares(y)' = Shares(y) /\ ref_cnt'[y] = ref_cnt[y]
    BY <1>2, <2>1 DEF Shares, One
  <2>3. \A y : AppHolders(y)' = AppHolders(y)
    BY <1>4, HoldersStay
  <2> QED
    BY <1>2, <2>2, <2>3 DEF IInv, Counts
<1>11. OwnReply'
  BY <1>2 DEF IInv, OwnReply
<1>12. QueueIsWatched'
  BY <1>2, <1>4 DEF IInv, QueueIsWatched, sendVars
<1> QED
  BY <1>5, <1>6, <1>7, <1>8, <1>9, <1>10, <1>11, <1>12 DEF IInv

\* The critical section of raft_client_sub_app_done()
LEMMA DoneKeeps ==
  ASSUME ~CancelInit, IInv, Done(Client)
  PROVE  IInv'
<1> USE ClientAssumption
<1>1. PICK x : x = cur[Client]
  OBVIOUS
<1>2. /\ pc[Client] = "done" /\ result' = [result EXCEPT ![x] = DoneResult(Client)]
      /\ flags' = [flags EXCEPT ![x] =
           IF "cancel" \in @ THEN @ ELSE (@ \ {"completing"}) \cup {"ready"}]
      /\ pc' = [pc EXCEPT ![Client] = "done_put"]
      /\ UNCHANGED <<alive, user, ref_cnt, age, replies, leaks, sendq, expiredq,
                     sendVars, cur, queue, reply>>
  BY <1>1 DEF Done, Goto, qVars
<1>3. /\ x \in alive /\ x \in Request /\ x \notin Range(expiredq)
      /\ \A y \in alive \cup Range(sendq) \cup Range(expiredq) : y \in Request
      /\ "ready" \notin flags[x] /\ "initializing" \notin flags[x]
      /\ "cancel" \in flags[x] <=> "completing" \notin flags[x]
      /\ result[x] = NoRequest
      /\ \A s \in App : Opening(s) => cur[s] \in Request /\ cur[s] # x
      /\ \A y \in Request : "completing" \in flags[y] => y = x /\ reply = x
  <2>1. /\ "ready" \notin flags[x] /\ "initializing" \notin flags[x]
        /\ "cancel" \in flags[x] <=> "completing" \notin flags[x]
        /\ result[x] = NoRequest
    BY <1>1, <1>2 DEF IInv, Ending
  <2>2. Uses(Client)
    BY <1>2 DEF Uses
  <2> QED
    BY <1>1, <1>2, <2>1, <2>2, ClientObject DEF IInv, Ending
<1>4. /\ DoneResult(Client) \in {x, ETIMEDOUT, ECANCELED, ECOMM}
      /\ DoneResult(Client) # NoRequest
      /\ DoneResult(Client) > 0 => DoneResult(Client) = x
  <2>1. CASE "completing" \in flags[x]
    <3>1. "send_failed" \notin flags[cur[Client]]
      BY <1>1, <1>3, <2>1 DEF IInv, Ending
    <3>2. DoneResult(Client) = reply
      BY <1>1, <2>1, <3>1 DEF DoneResult
    <3> QED
      BY <1>3, <2>1, <3>2 DEF Request, NoRequest
  <2>2. CASE "completing" \notin flags[x]
    <3>1. DoneResult(Client) \in {ETIMEDOUT, ECOMM}
      BY <1>1, <2>2 DEF DoneResult
    <3> QED
      BY <3>1 DEF ETIMEDOUT, ECOMM, NoRequest
  <2> QED
    BY <2>1, <2>2
<1>5. /\ \A s \in App : pc'[s] = pc[s] /\ cur'[s] = cur[s]
      /\ \A y \in Request : y # x => flags'[y] = flags[y] /\ result'[y] = result[y]
      /\ result'[x] = DoneResult(Client)
      /\ pc'[Client] = "done_put" /\ pc' \in [Thread -> Label]
      /\ flags'[x] = IF "cancel" \in flags[x] THEN flags[x]
                     ELSE (flags[x] \ {"completing"}) \cup {"ready"}
  BY <1>2, <1>3, Threads DEF IInv, TypeOK, Label
<1>6. TypeOK'
  <2>1. flags' \in [Request -> SUBSET Flag]
    BY <1>2, <1>3, <1>5 DEF IInv, TypeOK, Flag
  <2>2. result' \in [Request -> Request \cup {NoRequest, ETIMEDOUT, ECANCELED, ECOMM,
                                          EMSGSIZE}]
    BY <1>2, <1>3, <1>4 DEF IInv, TypeOK
  <2> QED
    BY <1>2, <1>5, <2>1, <2>2 DEF IInv, TypeOK, sendVars
<1>7. Lives'
  BY <1>2, <1>3, <1>5 DEF IInv, Lives
<1>8. Places'
  BY <1>1, <1>2, <1>3, <1>5, Threads DEF IInv, Places, Uses, Opening, sendVars
<1>9. "send_failed" \in flags'[x] <=> "send_failed" \in flags[x]
  BY <1>5
<1>10. Queues'
  <2>1. "initializing" \notin flags'[x]
    BY <1>3, <1>5
  <2> QED
    BY <1>1, <1>2, <1>3, <1>5, <1>9, <2>1 DEF IInv, Queues, Uses
<1>11. Ending'
  <2>1. "completing" \notin flags'[x] /\ flags'[x] \cap {"ready", "cancel"} # {}
    BY <1>3, <1>5
  <2>2. \A y \in Request : "completing" \notin flags'[y]
    BY <1>3, <1>5, <2>1
  <2>3. "send_failed" \in flags'[x] => "cancel" \in flags'[x]
    BY <1>3, <1>5, <1>9 DEF IInv, Ending
  <2> QED
    BY <1>1, <1>2, <1>3, <1>4, <1>5, <2>1, <2>2, <2>3 DEF IInv, Ending
<1>12. Counts'
  <2>1. \A y \in alive : (Open(y)' <=> Open(y)) /\ (ClientHolds(y)' <=> ClientHolds(y))
    BY <1>1, <1>2, <1>3, <1>4, <1>5 DEF Open, ClientHolds, Holds, Uses
  <2>2. \A y \in alive : Shares(y)' = Shares(y) /\ ref_cnt'[y] = ref_cnt[y]
    BY <1>2, <2>1 DEF Shares, One
  <2>3. \A y : AppHolders(y)' = AppHolders(y)
    BY <1>5, HoldersStay
  <2> QED
    BY <1>2, <2>2, <2>3 DEF IInv, Counts
<1>13. OwnReply'
  BY <1>3, <1>4, <1>5 DEF IInv, OwnReply
<1>14. QueueIsWatched'
  BY <1>1, <1>2, <1>5, <1>9 DEF IInv, QueueIsWatched, sendVars
<1> QED
  BY <1>6, <1>7, <1>8, <1>10, <1>11, <1>12, <1>13, <1>14 DEF IInv

\* raft_client_sub_app_done() puts the reference of the constructor, which is
\* never the last one.
LEMMA DonePutKeeps ==
  ASSUME ~CancelInit, IInv, DonePut(Client)
  PROVE  IInv'
<1> USE ClientAssumption
<1>1. PICK x : x = cur[Client]
  OBVIOUS
<1>2. /\ pc[Client] = "done_put" /\ Put(x)
      /\ UNCHANGED <<user, result, replies, sendq, expiredq, sendVars, queue, reply>>
  BY <1>1 DEF DonePut, qVars
<1>3. /\ x \in alive /\ x \in Request /\ x \notin Range(expiredq)
      /\ \A y \in alive \cup Range(sendq) \cup Range(expiredq) : y \in Request
      /\ result[x] # NoRequest
      /\ \A y \in Request : "completing" \notin flags[y]
  <2>1. Uses(Client)
    BY <1>2 DEF Uses
  <2> QED
    BY <1>1, <1>2, <2>1, ClientObject DEF IInv, Ending
<1>4. ref_cnt[x] \in Nat /\ ref_cnt[x] >= 2
  <2>1. Open(x) /\ ClientHolds(x)
    BY <1>1, <1>2 DEF Open, ClientHolds, Holds, Uses
  <2>2. ref_cnt[x] = Shares(x) + Cardinality(AppHolders(x))
    BY <1>3 DEF IInv, Counts
  <2>3. ref_cnt[x] \in Nat /\ leaks[x] \in Nat /\ Cardinality(AppHolders(x)) \in Nat
    BY <1>3, HoldersFinite DEF IInv, TypeOK
  <2>4. Shares(x) \in Nat /\ Shares(x) >= 2
    BY <2>1, <2>3 DEF Shares, One
  <2> QED
    BY <2>2, <2>3, <2>4
<1>5. /\ UNCHANGED <<alive, flags, age>> /\ ref_cnt' \in [Request -> Nat]
      /\ \A y \in Request : ref_cnt'[y] = IF y = x THEN ref_cnt[x] - 1 ELSE ref_cnt[y]
  <2>1. UNCHANGED <<alive, flags, age>>
    BY <1>2, <1>4 DEF Put
  <2>2. ref_cnt' = [ref_cnt EXCEPT ![x] = @ - 1] /\ ref_cnt[x] - 1 \in Nat
    BY <1>2, <1>4 DEF Put
  <2> QED
    BY <1>3, <2>1, <2>2 DEF IInv, TypeOK
<1>6. /\ \A s \in App : pc'[s] = pc[s] /\ cur'[s] = cur[s]
      /\ pc' \in [Thread -> Label] /\ cur' \in [Thread -> Request \cup {NoRequest}]
      /\ leaks' \in [Request -> Nat]
      /\ \/ /\ "send_failed" \in flags[x] /\ pc'[Client] = "send"
            /\ \A y \in Request : leaks'[y] = IF y = x THEN leaks[y] + 1 ELSE leaks[y]
         \/ /\ "send_failed" \notin flags[x] /\ pc'[Client] = "put"
            /\ UNCHANGED <<leaks, cur>>
  <2>1. CASE "send_failed" \in flags[x]
    <3>1. /\ leaks' = [leaks EXCEPT ![x] = @ + 1] /\ pc' = [pc EXCEPT ![Client] = "send"]
          /\ cur' = [cur EXCEPT ![Client] = NoRequest]
      BY <1>1, <2>1 DEF DonePut, Goto
    <3>2. leaks' \in [Request -> Nat]
          /\ \A y \in Request : leaks'[y] = IF y = x THEN leaks[y] + 1 ELSE leaks[y]
      BY <1>3, <3>1 DEF IInv, TypeOK
    <3> QED
      BY <2>1, <3>1, <3>2, Threads DEF IInv, TypeOK, Label
  <2>2. CASE "send_failed" \notin flags[x]
    <3>1. pc' = [pc EXCEPT ![Client] = "put"] /\ UNCHANGED <<leaks, cur>>
      BY <1>1, <2>2 DEF DonePut, Goto
    <3> QED
      BY <2>2, <3>1, Threads DEF IInv, TypeOK, Label
  <2> QED
    BY <2>1, <2>2
<1>7. TypeOK'
  BY <1>2, <1>5, <1>6 DEF IInv, TypeOK, sendVars
<1>8. Lives'
  BY <1>2, <1>3, <1>5, <1>6 DEF IInv, Lives
<1>9. Places'
  BY <1>1, <1>2, <1>3, <1>5, <1>6, Threads DEF IInv, Places, Uses, Opening, sendVars
<1>10. Queues'
  BY <1>1, <1>2, <1>3, <1>5, <1>6 DEF IInv, Queues, Uses
<1>11. Ending'
  BY <1>1, <1>2, <1>3, <1>5, <1>6 DEF IInv, Ending
<1>12. Counts'
  <2>1. ASSUME NEW y \in alive
        PROVE  ref_cnt'[y] - Shares(y)' = ref_cnt[y] - Shares(y)
    <3>1. y \in Request /\ Shares(y) \in Nat /\ ref_cnt[y] \in Nat /\ leaks[y] \in Nat
      BY SharesNat DEF IInv, TypeOK
    <3>2. CASE y # x
      <4>1. (Open(y)' <=> Open(y)) /\ (ClientHolds(y)' <=> ClientHolds(y))
        BY <1>1, <1>2, <1>6, <3>2 DEF Open, ClientHolds, Holds, Uses
      <4>2. leaks'[y] = leaks[y] /\ ref_cnt'[y] = ref_cnt[y]
        BY <1>5, <1>6, <3>1, <3>2
      <4>3. Shares(y)' = Shares(y)
        BY <1>2, <4>1, <4>2 DEF Shares, One
      <4> QED
        BY <4>2, <4>3
    <3>3. CASE y = x
      <4>1. Open(y) /\ ClientHolds(y) /\ ~Open(y)'
        BY <1>1, <1>2, <1>3, <1>6, <3>3 DEF Open, ClientHolds, Holds, Uses
      <4>2. /\ ClientHolds(y)' => leaks'[y] = leaks[y]
            /\ ~ClientHolds(y)' => leaks'[y] = leaks[y] + 1
        BY <1>1, <1>6, <3>3 DEF ClientHolds, Holds, Uses, IInv, TypeOK
      <4>3. Shares(y) = Shares(y)' + 1 /\ Shares(y)' \in Nat
        BY <1>2, <3>1, <4>1, <4>2 DEF Shares, One
      <4>4. ref_cnt'[y] = ref_cnt[y] - 1
        BY <1>5, <3>1, <3>3
      <4> QED
        BY <3>1, <4>3, <4>4
    <3> QED
      BY <3>2, <3>3
  <2> QED
    BY <1>5, <1>6, <1>7, <2>1, ClientCounts
<1>13. OwnReply'
  BY <1>2 DEF IInv, OwnReply
<1>14. QueueIsWatched'
  BY <1>1, <1>2, <1>6 DEF IInv, QueueIsWatched, sendVars
<1> QED
  BY <1>7, <1>8, <1>9, <1>10, <1>11, <1>12, <1>13, <1>14 DEF IInv

\* raft_client_reply_try_complete() looks the user of message n up.
LEMMA ReplyLookupKeeps ==
  ASSUME ~CancelInit, IInv, NEW n \in Request, ReplyLookup(n)
  PROVE  IInv'
<1> USE ClientAssumption
<1>1. PICK x \in alive :
        ref_cnt' = [ref_cnt EXCEPT ![x] = @ + 1] /\ cur' = [cur EXCEPT ![Client] = x]
  BY DEF ReplyLookup, Find, Get
<1>2. /\ pc[Client] = "epoll" /\ replies[n] > 0
      /\ replies' = [replies EXCEPT ![n] = @ - 1] /\ reply' = n
      /\ pc' = [pc EXCEPT ![Client] = "reply"]
      /\ UNCHANGED <<alive, user, flags, result, age, leaks, sendq, expiredq, sendVars, queue>>
  BY DEF ReplyLookup, Goto, qVars
<1>3. /\ x \in Request /\ expiredq = <<>> /\ Range(expiredq) = {}
      /\ \A y \in Request : "completing" \notin flags[y]
  <2>1. x \in Request /\ expiredq = <<>> /\ expiredq \in Seq(Request)
    BY <1>1, <1>2 DEF IInv, TypeOK, Queues
  <2>2. Range(expiredq) = {}
    BY <2>1, RangeIs
  <2> QED
    BY <1>2, <2>1, <2>2 DEF IInv, Ending
<1>4. /\ \A s \in App : pc'[s] = pc[s] /\ cur'[s] = cur[s]
      /\ pc'[Client] = "reply" /\ cur'[Client] = x
      /\ \A y \in Request : /\ ref_cnt[y] \in Nat
                            /\ ref_cnt'[y] = IF y = x THEN ref_cnt[y] + 1 ELSE ref_cnt[y]
  BY <1>1, <1>2, <1>3, Threads DEF IInv, TypeOK
<1>5. TypeOK'
  <2>1. ref_cnt' \in [Request -> Nat]
    BY <1>1, <1>3 DEF IInv, TypeOK
  <2>2. cur' \in [Thread -> Request \cup {NoRequest}]
    BY <1>1, <1>3 DEF IInv, TypeOK
  <2>3. replies' \in [Request -> 0 .. MaxReplies]
    BY <1>2, BoundAssumption DEF IInv, TypeOK
  <2>4. pc' \in [Thread -> Label]
    BY <1>2 DEF IInv, TypeOK, Label
  <2> QED
    BY <1>2, <2>1, <2>2, <2>3, <2>4 DEF IInv, TypeOK, sendVars
<1>6. Lives'
  BY <1>2 DEF IInv, Lives
<1>7. Places'
  BY <1>1, <1>2, <1>4, Threads DEF IInv, Places, Uses, Opening, sendVars
<1>8. Queues'
  BY <1>2, <1>3, <1>4 DEF IInv, Queues, Uses
<1>9. Ending'
  BY <1>2, <1>3, <1>4 DEF IInv, Ending
<1>10. Counts'
  <2>1. ASSUME NEW y \in alive
        PROVE  ref_cnt'[y] - Shares(y)' = ref_cnt[y] - Shares(y)
    <3>1. y \in Request /\ Shares(y) \in Nat /\ ref_cnt[y] \in Nat /\ leaks[y] \in Nat
      BY SharesNat DEF IInv, TypeOK
    <3>2. (Open(y)' <=> Open(y)) /\ (ClientHolds(y)' <=> y = x) /\ ~ClientHolds(y)
      BY <1>2, <1>4 DEF Open, ClientHolds, Holds, Uses
    <3>3. Shares(y)' = IF y = x THEN Shares(y) + 1 ELSE Shares(y)
      BY <1>2, <3>1, <3>2 DEF Shares, One
    <3> QED
      BY <1>4, <3>1, <3>3
  <2> QED
    BY <1>2, <1>4, <1>5, <2>1, ClientCounts
<1>11. OwnReply'
  BY <1>2 DEF IInv, OwnReply
<1>12. QueueIsWatched'
  BY <1>2, <1>4 DEF IInv, QueueIsWatched, sendVars
<1> QED
  BY <1>5, <1>6, <1>7, <1>8, <1>9, <1>10, <1>11, <1>12 DEF IInv

\* raft_client_reply_try_complete() takes the reply, or drops it.
LEMMA ReplyTryCompleteKeeps ==
  ASSUME ~CancelInit, IInv, ReplyTryComplete
  PROVE  IInv'
<1> USE ClientAssumption
<1>1. PICK x : x = cur[Client]
  OBVIOUS
<1>2. /\ pc[Client] = "reply"
      /\ UNCHANGED <<alive, user, ref_cnt, result, age, replies, leaks, sendq,
                     expiredq, sendVars, cur, queue, reply>>
  BY DEF ReplyTryComplete, qVars
<1>3. /\ x \in alive /\ x \in Request /\ x \notin Range(expiredq)
      /\ \A y \in alive \cup Range(sendq) \cup Range(expiredq) : y \in Request
      /\ \A s \in App : Opening(s) => cur[s] \in Request
      /\ \A y \in Request : "completing" \notin flags[y]
      /\ expiredq = <<>>
  <2>1. Uses(Client)
    BY <1>2 DEF Uses
  <2> QED
    BY <1>1, <1>2, <2>1, ClientObject DEF IInv, Ending, Queues
<1>4. /\ \A s \in App : pc'[s] = pc[s] /\ cur'[s] = cur[s]
      /\ \A y \in Request : y # x => flags'[y] = flags[y]
      /\ pc' \in [Thread -> Label] /\ flags' \in [Request -> SUBSET Flag]
      /\ \/ /\ pc'[Client] = "done" /\ flags'[x] = flags[x] \cup {"completing"}
            /\ "ready" \notin flags[x] /\ "cancel" \notin flags[x]
            /\ "initializing" \notin flags[x] /\ reply = x
         \/ pc'[Client] = "put" /\ flags' = flags
  <2>1. CASE ReplyMatches(x) /\ flags[x] \cap {"ready", "cancel"} = {}
    <3>1. flags' = [flags EXCEPT ![x] = @ \cup {"completing"}]
          /\ pc' = [pc EXCEPT ![Client] = "done"]
      BY <1>1, <2>1 DEF ReplyTryComplete, Goto
    <3> QED
      BY <1>2, <1>3, <2>1, <3>1, Threads DEF IInv, TypeOK, Label, Flag, ReplyMatches
  <2>2. CASE ~(ReplyMatches(x) /\ flags[x] \cap {"ready", "cancel"} = {})
    <3>1. flags' = flags /\ pc' = [pc EXCEPT ![Client] = "put"]
      BY <1>1, <2>2 DEF ReplyTryComplete, Goto
    <3> QED
      BY <1>2, <3>1, Threads DEF IInv, TypeOK, Label
  <2> QED
    BY <2>1, <2>2
<1>5. TypeOK'
  BY <1>2, <1>4 DEF IInv, TypeOK, sendVars
<1>6. Lives'
  BY <1>2, <1>3, <1>4 DEF IInv, Lives
<1>7. \A f \in Flag \ {"completing"}, y \in Request : f \in flags'[y] <=> f \in flags[y]
  BY <1>4
<1>8. Places'
  BY <1>1, <1>2, <1>3, <1>4, <1>7, Threads DEF IInv, Places, Uses, Opening, Flag, sendVars
<1>9. Queues'
  BY <1>1, <1>2, <1>3, <1>4, <1>7 DEF IInv, Queues, Uses, Flag
<1>10. Ending'
  <2>1. pc'[Client] = "done" => result[x] = NoRequest
    BY <1>3, <1>4 DEF IInv, Ending
  <2> QED
    BY <1>1, <1>2, <1>3, <1>4, <1>7, <2>1 DEF IInv, Ending, Flag
<1>11. Counts'
  <2>1. \A y \in alive : (Open(y)' <=> Open(y)) /\ (ClientHolds(y)' <=> ClientHolds(y))
    BY <1>2, <1>4 DEF Open, ClientHolds, Holds, Uses
  <2>2. \A y \in alive : Shares(y)' = Shares(y) /\ ref_cnt'[y] = ref_cnt[y]
    BY <1>2, <2>1 DEF Shares, One
  <2>3. \A y : AppHolders(y)' = AppHolders(y)
    BY <1>4, HoldersStay
  <2> QED
    BY <1>2, <2>2, <2>3 DEF IInv, Counts
<1>12. OwnReply'
  BY <1>2 DEF IInv, OwnReply
<1>13. QueueIsWatched'
  BY <1>2, <1>4 DEF IInv, QueueIsWatched, sendVars
<1> QED
  BY <1>5, <1>6, <1>8, <1>9, <1>10, <1>11, <1>12, <1>13 DEF IInv

\* The sender takes the head of the queue, with the queue's reference.
LEMMA DequeueKeeps ==
  ASSUME ~CancelInit, IInv, Dequeue
  PROVE  IInv'
<1> USE ClientAssumption
<1>1. PICK x : x = Head(sendq)
  OBVIOUS
<1>2. /\ pc[Client] = "send" /\ sendq # <<>> /\ cur' = [cur EXCEPT ![Client] = x]
      /\ pc' = [pc EXCEPT ![Client] =
                  IF flags[x] \cap {"cancel", "ready", "completing"} = {}
                  THEN "launch" ELSE "dequeue_put"]
      /\ sendq' = Tail(sendq)
      /\ UNCHANGED <<objVars, expiredq, sendVars, queue, reply>>
  BY <1>1 DEF Dequeue, Goto
<1>3. /\ sendq' \in Seq(Request) /\ Once(sendq') /\ x \in Range(sendq)
      /\ Range(sendq') = Range(sendq) \ {x}
  BY <1>1, <1>2, TailOnce DEF IInv, TypeOK, Queues
<1>4. /\ x \in alive /\ x \in Request /\ "initializing" \notin flags[x]
      /\ expiredq = <<>> /\ Range(expiredq) = {}
      /\ \A y \in Request : "completing" \notin flags[y]
  <2>1. /\ x \in alive /\ x \in Request /\ "initializing" \notin flags[x]
        /\ expiredq = <<>> /\ expiredq \in Seq(Request)
    BY <1>2, <1>3 DEF IInv, TypeOK, Queues
  <2>2. Range(expiredq) = {}
    BY <2>1, RangeIs
  <2> QED
    BY <1>2, <2>1, <2>2 DEF IInv, Ending
<1>5. /\ \A s \in App : pc'[s] = pc[s] /\ cur'[s] = cur[s]
      /\ cur'[Client] = x
      /\ \/ pc'[Client] = "launch" /\ "cancel" \notin flags[x] /\ "ready" \notin flags[x]
         \/ pc'[Client] = "dequeue_put"
      /\ pc' \in [Thread -> Label] /\ cur' \in [Thread -> Request \cup {NoRequest}]
  BY <1>2, <1>4, Threads DEF IInv, TypeOK, Label
<1>6. TypeOK'
  BY <1>2, <1>3, <1>5 DEF IInv, TypeOK, objVars, sendVars
<1>7. Lives'
  BY <1>2 DEF IInv, Lives, objVars
<1>8. Places'
  <2>1. remaining_sends' > 0
    BY <1>2 DEF Dequeue, sendVars
  <2> QED
    BY <1>2, <1>4, <1>5, <2>1, Threads DEF IInv, Places, Uses, Opening, objVars
<1>9. Queues'
  BY <1>2, <1>3, <1>4, <1>5 DEF IInv, Queues, Uses, objVars
<1>10. Ending'
  BY <1>2, <1>4, <1>5 DEF IInv, Ending, objVars
<1>11. Counts'
  <2>1. ASSUME NEW y \in alive
        PROVE  ref_cnt'[y] - Shares(y)' = ref_cnt[y] - Shares(y)
    <3>1. y \in Request /\ Shares(y) \in Nat /\ ref_cnt[y] \in Nat /\ leaks[y] \in Nat
      BY SharesNat DEF IInv, TypeOK
    <3>2. (Open(y)' <=> Open(y)) /\ (ClientHolds(y)' <=> y = x) /\ ~ClientHolds(y)
      BY <1>2, <1>5 DEF Open, ClientHolds, Holds, Uses, objVars
    <3>3. Shares(y)' = Shares(y)
      BY <1>2, <1>3, <3>1, <3>2 DEF Shares, One, objVars
    <3> QED
      BY <1>2, <3>1, <3>3 DEF objVars
  <2> QED
    BY <1>2, <1>5, <1>6, <2>1, ClientCounts DEF objVars
<1>12. OwnReply'
  BY <1>2 DEF IInv, OwnReply, objVars
<1>13. QueueIsWatched'
  BY <1>5 DEF QueueIsWatched
<1> QED
  BY <1>6, <1>7, <1>8, <1>9, <1>10, <1>11, <1>12, <1>13 DEF IInv

\* raft_client_rpc_launch() sends, or is told EAGAIN.
LEMMA LaunchKeeps ==
  ASSUME ~CancelInit, IInv, NEW again \in BOOLEAN, Launch(again)
  PROVE  IInv'
<1> USE ClientAssumption
<1>1. PICK x : x = cur[Client]
  OBVIOUS
<1>2. /\ pc[Client] = "launch" /\ pc' = [pc EXCEPT ![Client] = "dequeue_put"]
      /\ UNCHANGED <<alive, user, ref_cnt, result, age, leaks, sendq, expiredq,
                     notified, throttled, resend, cur, queue, reply>>
  BY DEF Launch, Goto, qVars
<1>3. /\ x \in alive /\ x \in Request /\ x \notin Range(expiredq)
      /\ \A y \in alive \cup Range(sendq) \cup Range(expiredq) : y \in Request
      /\ \A s \in App : Opening(s) => cur[s] \in Request
      /\ \A y \in Request : "completing" \notin flags[y]
      /\ expiredq = <<>>
  <2>1. Uses(Client)
    BY <1>2 DEF Uses
  <2> QED
    BY <1>1, <1>2, <2>1, ClientObject DEF IInv, Ending, Queues
<1>4. /\ \A s \in App : pc'[s] = pc[s] /\ cur'[s] = cur[s]
      /\ pc'[Client] = "dequeue_put" /\ pc' \in [Thread -> Label]
  BY <1>2, Threads DEF IInv, TypeOK, Label
<1>5. /\ flags' \in [Request -> SUBSET Flag] /\ replies' \in [Request -> 0 .. MaxReplies]
      /\ \A y \in Request : y # x => flags'[y] = flags[y]
      /\ \A f \in Flag \ {"sent"}, y \in Request : f \in flags'[y] <=> f \in flags[y]
      /\ remaining_sends' \in 0 .. SenderMax
  <2>1. CASE again
    BY <2>1 DEF Launch, IInv, TypeOK
  <2>2. CASE ~again
    <3>1. /\ flags' = [flags EXCEPT ![x] = @ \cup {"sent"}]
          /\ replies' = [replies EXCEPT ![x] = IF @ < MaxReplies THEN @ + 1 ELSE @]
          /\ remaining_sends' = remaining_sends - 1
      BY <1>1, <2>2 DEF Launch
    <3>2. replies' \in [Request -> 0 .. MaxReplies]
      BY <1>3, <3>1, BoundAssumption DEF IInv, TypeOK
    <3>3. flags' \in [Request -> SUBSET Flag]
      BY <1>3, <3>1 DEF IInv, TypeOK, Flag
    <3>4. /\ \A y \in Request : y # x => flags'[y] = flags[y]
          /\ flags'[x] = flags[x] \cup {"sent"}
      BY <1>3, <3>1 DEF IInv, TypeOK
    <3>5. remaining_sends' \in 0 .. SenderMax
      BY <1>2, <3>1, LimitAssumption DEF IInv, TypeOK, Places
    <3> QED
      BY <3>2, <3>3, <3>4, <3>5
  <2> QED
    BY <2>1, <2>2
<1>6. TypeOK'
  BY <1>2, <1>4, <1>5 DEF IInv, TypeOK
<1>7. Lives'
  BY <1>2, <1>3, <1>5 DEF IInv, Lives
<1>8. Places'
  BY <1>1, <1>2, <1>3, <1>4, <1>5, Threads DEF IInv, Places, Uses, Opening, Flag
<1>9. Queues'
  BY <1>1, <1>2, <1>3, <1>4, <1>5 DEF IInv, Queues, Uses, Flag
<1>10. Ending'
  BY <1>1, <1>2, <1>3, <1>4, <1>5 DEF IInv, Ending, Flag
<1>11. Counts'
  <2>1. \A y \in alive : (Open(y)' <=> Open(y)) /\ (ClientHolds(y)' <=> ClientHolds(y))
    BY <1>2, <1>4 DEF Open, ClientHolds, Holds, Uses
  <2>2. \A y \in alive : Shares(y)' = Shares(y) /\ ref_cnt'[y] = ref_cnt[y]
    BY <1>2, <2>1 DEF Shares, One
  <2>3. \A y : AppHolders(y)' = AppHolders(y)
    BY <1>4, HoldersStay
  <2> QED
    BY <1>2, <2>2, <2>3 DEF IInv, Counts
<1>12. OwnReply'
  BY <1>2 DEF IInv, OwnReply
<1>13. QueueIsWatched'
  BY <1>4 DEF QueueIsWatched
<1> QED
  BY <1>6, <1>7, <1>8, <1>9, <1>10, <1>11, <1>12, <1>13 DEF IInv

\* raft_client_rpc_launch() fails.
LEMMA LaunchFailsKeeps ==
  ASSUME ~CancelInit, IInv, LaunchFails
  PROVE  IInv'
<1> USE ClientAssumption
<1>1. PICK x : x = cur[Client]
  OBVIOUS
<1>2. /\ pc[Client] = "launch" /\ pc' = [pc EXCEPT ![Client] = "done"]
      /\ flags' = [flags EXCEPT ![x] = @ \cup {"cancel", "send_failed"}]
      /\ remaining_sends' \in {remaining_sends, 0}
      /\ UNCHANGED <<alive, user, ref_cnt, result, age, replies, leaks, sendq,
                     expiredq, notified, throttled, resend, cur, queue, reply>>
  BY <1>1 DEF LaunchFails, Goto, qVars
<1>3. /\ x \in alive /\ x \in Request
      /\ \A y \in alive \cup Range(sendq) \cup Range(expiredq) : y \in Request
      /\ \A s \in App : Opening(s) => cur[s] \in Request
      /\ \A y \in Request : "completing" \notin flags[y]
      /\ expiredq = <<>> /\ x \notin Range(expiredq)
      /\ result[x] = NoRequest /\ "ready" \notin flags[x]
      /\ "initializing" \notin flags[x]
  <2>1. Uses(Client)
    BY <1>2 DEF Uses
  <2>2. /\ x \in alive /\ "ready" \notin flags[x] /\ "cancel" \notin flags[x]
        /\ "initializing" \notin flags[x]
    BY <1>1, <1>2, <2>1, ClientObject DEF IInv, Ending
  <2> QED
    BY <1>1, <1>2, <2>1, <2>2, ClientObject DEF IInv, Ending, Queues
<1>4. /\ \A s \in App : pc'[s] = pc[s] /\ cur'[s] = cur[s]
      /\ pc'[Client] = "done" /\ pc' \in [Thread -> Label]
      /\ \A y \in Request : y # x => flags'[y] = flags[y]
      /\ flags'[x] = flags[x] \cup {"cancel", "send_failed"}
      /\ flags' \in [Request -> SUBSET Flag]
  <2>1. flags' \in [Request -> SUBSET Flag]
    BY <1>2, <1>3 DEF IInv, TypeOK, Flag
  <2> QED
    BY <1>2, <1>3, <2>1, Threads DEF IInv, TypeOK, Label
<1>5. \A f \in Flag \ {"cancel", "send_failed"}, y \in Request :
        f \in flags'[y] <=> f \in flags[y]
  BY <1>4
<1>6. TypeOK'
  <2>1. remaining_sends' \in 0 .. SenderMax
    BY <1>2, LimitAssumption DEF IInv, TypeOK
  <2> QED
    BY <1>2, <1>4, <2>1 DEF IInv, TypeOK
<1>7. Lives'
  BY <1>2, <1>3, <1>4 DEF IInv, Lives
<1>8. Places'
  BY <1>1, <1>2, <1>3, <1>4, <1>5, Threads DEF IInv, Places, Uses, Opening, Flag
<1>9. Queues'
  BY <1>1, <1>2, <1>3, <1>4, <1>5 DEF IInv, Queues, Uses, Flag
<1>10. Ending'
  BY <1>1, <1>2, <1>3, <1>4, <1>5 DEF IInv, Ending, Flag
<1>11. Counts'
  <2>1. \A y \in alive : (Open(y)' <=> Open(y)) /\ (ClientHolds(y)' <=> ClientHolds(y))
    BY <1>2, <1>4 DEF Open, ClientHolds, Holds, Uses
  <2>2. \A y \in alive : Shares(y)' = Shares(y) /\ ref_cnt'[y] = ref_cnt[y]
    BY <1>2, <2>1 DEF Shares, One
  <2>3. \A y : AppHolders(y)' = AppHolders(y)
    BY <1>4, HoldersStay
  <2> QED
    BY <1>2, <2>2, <2>3 DEF IInv, Counts
<1>12. OwnReply'
  BY <1>2 DEF IInv, OwnReply
<1>13. QueueIsWatched'
  BY <1>1, <1>2, <1>4 DEF QueueIsWatched
<1> QED
  BY <1>6, <1>7, <1>8, <1>9, <1>10, <1>11, <1>12, <1>13 DEF IInv

\* The send queue's reference is put.
LEMMA DequeuePutKeeps ==
  ASSUME ~CancelInit, IInv, DequeuePut
  PROVE  IInv'
<1> USE ClientAssumption
<1>1. PICK x : x = cur[Client]
  OBVIOUS
<1>2. /\ pc[Client] = "dequeue_put" /\ Put(x)
      /\ pc' = [pc EXCEPT ![Client] = "send"]
      /\ cur' = [cur EXCEPT ![Client] = NoRequest]
      /\ UNCHANGED <<user, result, replies, leaks, sendq, expiredq, sendVars, queue, reply>>
  BY <1>1 DEF DequeuePut, Goto, qVars
<1>3. Holds(Client) /\ Uses(Client)
  BY <1>2 DEF Holds, Uses
<1>4. /\ x \in alive /\ x \in Request
      /\ ref_cnt' \in [Request -> Nat] /\ flags' \in [Request -> SUBSET Flag]
      /\ age' \in [Request -> {"unused", "new", "late", "freed"}]
      /\ ref_cnt[x] \in Nat /\ ref_cnt'[x] = ref_cnt[x] - 1
      /\ \A y \in Request : y # x =>
           /\ ref_cnt'[y] = ref_cnt[y] /\ flags'[y] = flags[y]
           /\ y \in alive' <=> y \in alive
      /\ alive' \subseteq alive
      /\ \/ UNCHANGED <<alive, flags, age>>
         \/ /\ alive' = alive \ {x} /\ flags'[x] = {}
            /\ result[x] # NoRequest
            /\ x \notin Range(sendq) /\ x \notin Range(expiredq)
            /\ \A s \in Thread : Uses(s) /\ cur[s] = x => s = Client
  BY <1>1, <1>2, <1>3, PutFacts, Threads
<1>5. /\ \A s \in App : pc'[s] = pc[s] /\ cur'[s] = cur[s]
      /\ pc'[Client] = "send"
  BY <1>2, Threads DEF IInv, TypeOK
<1>6. \A y \in Request : flags'[y] \subseteq flags[y]
  BY <1>1, <1>2, <1>3, PutFlags, Threads
<1>7. \A y \in Request : "completing" \notin flags[y]
  BY <1>2 DEF IInv, Ending
<1>8. TypeOK'
  <2>1. cur' \in [Thread -> Request \cup {NoRequest}] /\ pc' \in [Thread -> Label]
    BY <1>2 DEF IInv, TypeOK, Label
  <2> QED
    BY <1>2, <1>4, <2>1 DEF IInv, TypeOK, sendVars
<1>9. Lives'
  BY <1>1, <1>2, <1>3, PutLives, Threads
<1>10. Places'
  <2>1. \A s \in Thread : Uses(s)' => s # Client /\ s \in App /\ Uses(s) /\ cur'[s] = cur[s]
    BY <1>5, Threads DEF Uses
  <2>2. \A s \in App : Opening(s)' => /\ Opening(s) /\ Uses(s)
                                      /\ cur'[s] = cur[s] /\ cur[s] \in Request
    BY <1>5, Threads DEF Opening, Uses, IInv, Places, TypeOK
  <2>3. \A s \in Thread : Uses(s)' => cur'[s] \in alive'
    BY <1>4, <2>1 DEF IInv, Places
  <2>4. \A s \in App : Opening(s)' => flags'[cur[s]] = flags[cur[s]]
    BY <1>4, <2>2, Threads
  <2> QED
    BY <1>2, <1>5, <2>2, <2>3, <2>4, Threads DEF IInv, Places
<1>11. Queues'
  <2>1. \A y \in Range(sendq) \cup Range(expiredq) : y \in Request /\ y \in alive'
    BY <1>4 DEF IInv, Queues, TypeOK
  <2> QED
    BY <1>2, <1>5, <1>6, <2>1 DEF IInv, Queues, Uses
<1>12. Ending'
  <2>1. \A y \in alive' : y \in alive /\ y \in Request /\ flags'[y] = flags[y]
    BY <1>4 DEF IInv, TypeOK
  <2>2. \A y \in Request : "send_failed" \in flags'[y] => "cancel" \in flags'[y]
    BY <1>4, <1>6 DEF IInv, Ending
  <2>3. \A y \in Request : "completing" \notin flags'[y]
    BY <1>6, <1>7
  <2> QED
    BY <1>2, <1>5, <2>1, <2>2, <2>3 DEF IInv, Ending
<1>13. Counts'
  <2>1. ASSUME NEW z \in alive'
        PROVE  ref_cnt'[z] - Shares(z)' = ref_cnt[z] - Shares(z)
    <3>1. z \in Request /\ Shares(z) \in Nat /\ ref_cnt[z] \in Nat /\ leaks[z] \in Nat
      BY <1>4, SharesNat DEF IInv, TypeOK
    <3>2. (Open(z)' <=> Open(z)) /\ (ClientHolds(z) <=> z = x) /\ ~ClientHolds(z)'
      BY <1>1, <1>2, <1>3, <1>5 DEF Open, ClientHolds, Holds, Uses
    <3>3. Shares(z) = (IF z = x THEN Shares(z)' + 1 ELSE Shares(z)') /\ Shares(z)' \in Nat
      BY <1>2, <3>1, <3>2 DEF Shares, One
    <3>4. ref_cnt'[z] = IF z = x THEN ref_cnt[z] - 1 ELSE ref_cnt[z]
      BY <1>4, <3>1
    <3> QED
      BY <3>1, <3>3, <3>4
  <2> QED
    BY <1>4, <1>5, <1>8, <2>1, ClientCounts
<1>14. OwnReply'
  BY <1>2 DEF IInv, OwnReply
<1>15. QueueIsWatched'
  BY <1>5 DEF QueueIsWatched
<1> QED
  BY <1>8, <1>9, <1>10, <1>11, <1>12, <1>13, <1>14, <1>15 DEF IInv

\* What NextExpired() does with a queue of objects that are all different
LEMMA NextExpiredFacts ==
  ASSUME TypeOK, NEW q \in Seq(Request), Once(q), NextExpired(q)
  PROVE  /\ pc' \in [Thread -> Label] /\ cur' \in [Thread -> Request \cup {NoRequest}]
         /\ \A s \in App : pc'[s] = pc[s] /\ cur'[s] = cur[s]
         /\ expiredq' \in Seq(Request) /\ Once(expiredq')
         /\ \/ /\ pc'[Client] = "epoll" /\ expiredq' = <<>> /\ Range(expiredq') = {}
               /\ Range(q) = {}
            \/ /\ pc'[Client] = "cancel" /\ cur'[Client] \in Range(q)
               /\ Range(expiredq') = Range(q) \ {cur'[Client]}
<1>1. CASE q = <<>>
  <2>1. /\ expiredq' = q /\ pc' = [pc EXCEPT ![Client] = "epoll"]
        /\ cur' = [cur EXCEPT ![Client] = NoRequest]
    BY <1>1 DEF NextExpired, Goto
  <2>2. Range(q) = {}
    BY <1>1, RangeIs
  <2> QED
    BY <1>1, <2>1, <2>2, Threads DEF TypeOK, Label
<1>2. CASE q # <<>>
  <2>1. /\ expiredq' = Tail(q) /\ pc' = [pc EXCEPT ![Client] = "cancel"]
        /\ cur' = [cur EXCEPT ![Client] = Head(q)]
    BY <1>2 DEF NextExpired, Goto
  <2>2. /\ Tail(q) \in Seq(Request) /\ Once(Tail(q)) /\ Head(q) \in Range(q)
        /\ Range(Tail(q)) = Range(q) \ {Head(q)}
    BY <1>2, TailOnce
  <2>3. Head(q) \in Request
    BY <2>2, RangeIs
  <2>4. cur' \in [Thread -> Request \cup {NoRequest}] /\ cur'[Client] = Head(q)
    BY <2>1, <2>3, Threads DEF TypeOK
  <2> QED
    BY <2>1, <2>2, <2>4, Threads DEF TypeOK, Label
<1> QED
  BY <1>1, <1>2

\* The last put of the client thread; it goes on with the next expired object.
LEMMA ClientPutKeeps ==
  ASSUME ~CancelInit, IInv, LastPut(Client)
  PROVE  IInv'
<1> USE ClientAssumption
<1>1. PICK x : x = cur[Client]
  OBVIOUS
<1>2. /\ pc[Client] = "put" /\ Put(x) /\ NextExpired(expiredq) /\ reply' = NoRequest
      /\ UNCHANGED <<user, result, replies, leaks, sendq, sendVars, queue>>
  BY <1>1 DEF LastPut
<1>3. Holds(Client) /\ Uses(Client)
  BY <1>2 DEF Holds, Uses
<1>4. /\ x \in alive /\ x \in Request
      /\ ref_cnt' \in [Request -> Nat] /\ flags' \in [Request -> SUBSET Flag]
      /\ age' \in [Request -> {"unused", "new", "late", "freed"}]
      /\ ref_cnt[x] \in Nat /\ ref_cnt'[x] = ref_cnt[x] - 1
      /\ \A y \in Request : y # x =>
           /\ ref_cnt'[y] = ref_cnt[y] /\ flags'[y] = flags[y]
           /\ y \in alive' <=> y \in alive
      /\ alive' \subseteq alive
      /\ \/ UNCHANGED <<alive, flags, age>>
         \/ /\ alive' = alive \ {x} /\ flags'[x] = {}
            /\ result[x] # NoRequest
            /\ x \notin Range(sendq) /\ x \notin Range(expiredq)
            /\ \A s \in Thread : Uses(s) /\ cur[s] = x => s = Client
  BY <1>1, <1>2, <1>3, PutFacts, Threads
<1>5. /\ pc' \in [Thread -> Label] /\ cur' \in [Thread -> Request \cup {NoRequest}]
      /\ \A s \in App : pc'[s] = pc[s] /\ cur'[s] = cur[s]
      /\ expiredq' \in Seq(Request) /\ Once(expiredq')
      /\ \/ /\ pc'[Client] = "epoll" /\ expiredq' = <<>> /\ Range(expiredq') = {}
            /\ Range(expiredq) = {}
         \/ /\ pc'[Client] = "cancel" /\ cur'[Client] \in Range(expiredq)
            /\ Range(expiredq') = Range(expiredq) \ {cur'[Client]}
  BY <1>2, NextExpiredFacts DEF IInv, TypeOK, Queues
<1>6. \A y \in Request : flags'[y] \subseteq flags[y]
  BY <1>1, <1>2, <1>3, PutFlags, Threads
<1>7. /\ \A y \in Request : "completing" \notin flags[y]
      /\ \A y \in Range(sendq) \cup Range(expiredq) : y \in Request /\ y \in alive'
      /\ x \notin Range(expiredq)
      /\ \A y \in Range(expiredq) : flags[y] \cap {"cancel", "initializing"} = {}
  BY <1>1, <1>2, <1>3, <1>4 DEF IInv, Ending, Queues, TypeOK
<1>8. TypeOK'
  BY <1>2, <1>4, <1>5 DEF IInv, TypeOK, sendVars
<1>9. Lives'
  BY <1>1, <1>2, <1>3, PutLives, Threads
<1>10. Places'
  <2>1. \A s \in App : Uses(s)' => Uses(s) /\ cur'[s] = cur[s] /\ s # Client
    BY <1>5, Threads DEF Uses
  <2>2. \A s \in App : Opening(s)' => /\ Opening(s) /\ Uses(s)
                                      /\ cur'[s] = cur[s] /\ cur[s] \in Request
    BY <1>5, Threads DEF Opening, Uses, IInv, Places, TypeOK
  <2>3. \A s \in Thread : Uses(s)' => cur'[s] \in alive'
    <3>1. \A s \in App : Uses(s)' => cur'[s] \in alive'
      BY <1>4, <2>1, Threads DEF IInv, Places
    <3>2. Uses(Client)' => cur'[Client] \in alive'
      BY <1>5, <1>7 DEF Uses
    <3> QED
      BY <3>1, <3>2, Threads
  <2>4. \A s \in App : Opening(s)' => flags'[cur[s]] = flags[cur[s]]
    BY <1>4, <2>2, Threads
  <2> QED
    BY <1>2, <1>5, <2>2, <2>3, <2>4, Threads DEF IInv, Places
<1>11. Queues'
  BY <1>2, <1>5, <1>6, <1>7 DEF IInv, Queues, Uses
<1>12. Ending'
  <2>1. \A y \in alive' : y \in alive /\ y \in Request /\ flags'[y] = flags[y]
    BY <1>4 DEF IInv, TypeOK
  <2>2. \A y \in Request : "send_failed" \in flags'[y] => "cancel" \in flags'[y]
    BY <1>4, <1>6 DEF IInv, Ending
  <2>3. \A y \in Request : "completing" \notin flags'[y]
    BY <1>6, <1>7
  <2>4. pc'[Client] = "cancel" => flags'[cur'[Client]] \cap {"cancel", "initializing"} = {}
    BY <1>5, <1>6, <1>7
  <2> QED
    BY <1>2, <1>5, <2>1, <2>2, <2>3, <2>4 DEF IInv, Ending
<1>13. Counts'
  <2>1. ASSUME NEW z \in alive'
        PROVE  ref_cnt'[z] - Shares(z)' = ref_cnt[z] - Shares(z)
    <3>1. z \in Request /\ Shares(z) \in Nat /\ ref_cnt[z] \in Nat /\ leaks[z] \in Nat
      BY <1>4, SharesNat DEF IInv, TypeOK
    <3>2. (Open(z)' <=> Open(z)) /\ (ClientHolds(z) <=> z = x)
      BY <1>1, <1>2, <1>3, <1>5 DEF Open, ClientHolds
    <3>3. /\ z \in Range(expiredq) => z # x /\ (z \in Range(expiredq') <=> ~ClientHolds(z)')
          /\ z \notin Range(expiredq) => z \notin Range(expiredq') /\ ~ClientHolds(z)'
      BY <1>5, <1>7 DEF ClientHolds, Holds, Uses
    <3>4. Shares(z) = (IF z = x THEN Shares(z)' + 1 ELSE Shares(z)') /\ Shares(z)' \in Nat
      BY <1>2, <1>7, <3>1, <3>2, <3>3 DEF Shares, One
    <3>5. ref_cnt'[z] = IF z = x THEN ref_cnt[z] - 1 ELSE ref_cnt[z]
      BY <1>4, <3>1
    <3> QED
      BY <3>1, <3>4, <3>5
  <2> QED
    BY <1>4, <1>5, <1>8, <2>1, ClientCounts
<1>14. OwnReply'
  BY <1>2 DEF IInv, OwnReply
<1>15. QueueIsWatched'
  BY <1>2, <1>5 DEF IInv, QueueIsWatched, sendVars
<1> QED
  BY <1>8, <1>9, <1>10, <1>11, <1>12, <1>13, <1>14, <1>15 DEF IInv

\* raft_client_check_pending_requests() takes a reference to every object that
\* it puts on either queue.
LEMMA CheckPendingRequestsKeeps ==
  ASSUME ~CancelInit, IInv, NEW again \in SUBSET (Pending \ Expired),
         CheckPendingRequests(again)
  PROVE  IInv'
<1> USE ClientAssumption
<1>1. PICK E : E = Expired
  OBVIOUS
<1>2. PICK q : q = Reverse(InTreeOrder(E))
  OBVIOUS
<1>3. PICK r : r = InTreeOrder(again)
  OBVIOUS
<1>4. PICK A : A = again
  OBVIOUS
<1>5. /\ pc[Client] = "epoll" /\ NextExpired(q) /\ sendq' = sendq \o r
      /\ ref_cnt' = [x \in Request |->
                   IF x \in E THEN ref_cnt[x] + 1 ELSE SendQueueAdd(A)[x]]
      /\ flags' = [x \in Request |->
                 IF x \in A THEN flags[x] \ {"delay"} ELSE flags[x]]
      /\ notified' = (notified \/ A # {})
      /\ UNCHANGED <<alive, user, result, age, replies, leaks, remaining_sends,
                     throttled, resend, queue, reply>>
  BY <1>1, <1>2, <1>3, <1>4 DEF CheckPendingRequests
<1>6. /\ E \subseteq alive /\ A \subseteq alive /\ E \cap A = {}
      /\ \A x \in E \cup A : /\ x \in Request
                             /\ "cancel" \notin flags[x] /\ "initializing" \notin flags[x]
                             /\ x \notin Range(sendq)
      /\ \A x \in alive : x \in Request
      /\ expiredq = <<>> /\ \A y \in Request : "completing" \notin flags[y]
  BY <1>1, <1>4, <1>5 DEF Expired, Pending, IInv, TypeOK, Queues, Ending
<1>7. /\ q \in Seq(Request) /\ Once(q) /\ Range(q) = E
      /\ r \in Seq(Request) /\ Once(r) /\ Range(r) = A
  <2>1. \A x \in alive : user[x] \in Nat
    BY LimitAssumption DEF IInv, TypeOK
  <2>2. \A x, y \in alive : user[x] = user[y] => x = y
    BY DEF IInv, Lives
  <2>3. /\ InTreeOrder(E) \in Seq(Request) /\ Once(InTreeOrder(E))
        /\ Range(InTreeOrder(E)) = E
    BY <1>6, <2>1, <2>2, TreeOrder
  <2>4. /\ InTreeOrder(A) \in Seq(Request) /\ Once(InTreeOrder(A))
        /\ Range(InTreeOrder(A)) = A
    BY <1>6, <2>1, <2>2, TreeOrder
  <2> QED
    BY <1>2, <1>3, <1>4, <2>3, <2>4, ReverseOnce
<1>8. /\ sendq' \in Seq(Request) /\ Once(sendq')
      /\ Range(sendq') = Range(sendq) \cup A
  <2>1. Range(sendq) \cap Range(r) = {}
    BY <1>6, <1>7
  <2> QED
    BY <1>5, <1>7, <2>1, ConcatOnce DEF IInv, TypeOK, Queues
<1>9. /\ pc' \in [Thread -> Label] /\ cur' \in [Thread -> Request \cup {NoRequest}]
      /\ \A s \in App : pc'[s] = pc[s] /\ cur'[s] = cur[s]
      /\ expiredq' \in Seq(Request) /\ Once(expiredq')
      /\ \/ /\ pc'[Client] = "epoll" /\ expiredq' = <<>> /\ Range(expiredq') = {}
            /\ E = {}
         \/ /\ pc'[Client] = "cancel" /\ cur'[Client] \in E
            /\ Range(expiredq') = E \ {cur'[Client]}
  BY <1>5, <1>7, NextExpiredFacts DEF IInv
<1>10. /\ flags' \in [Request -> SUBSET Flag] /\ ref_cnt' \in [Request -> Nat]
       /\ \A y \in Request : /\ flags'[y] \subseteq flags[y]
                             /\ y \notin A => flags'[y] = flags[y]
       /\ \A f \in Flag \ {"delay"}, y \in Request : f \in flags'[y] <=> f \in flags[y]
       /\ \A y \in Request :
            ref_cnt'[y] = IF y \in E \cup A THEN ref_cnt[y] + 1 ELSE ref_cnt[y]
  <2>1. \A y \in Request :
          /\ flags'[y] = IF y \in A THEN flags[y] \ {"delay"} ELSE flags[y]
          /\ ref_cnt'[y] = IF y \in E \cup A THEN ref_cnt[y] + 1 ELSE ref_cnt[y]
    BY <1>5 DEF SendQueueAdd
  <2>2. flags' \in [Request -> SUBSET Flag]
    BY <1>5 DEF IInv, TypeOK
  <2>3. ref_cnt' \in [Request -> Nat]
    BY <1>5, <2>1 DEF IInv, TypeOK
  <2> QED
    BY <2>1, <2>2, <2>3
<1>11. TypeOK'
  BY <1>5, <1>8, <1>9, <1>10 DEF IInv, TypeOK
<1>12. Lives'
  BY <1>5, <1>6, <1>10 DEF IInv, Lives
<1>13. Places'
  <2>1. \A s \in App : Opening(s) => cur[s] \in Request /\ cur[s] \in alive
    BY Threads DEF IInv, Places, Uses, Opening, TypeOK
  <2>2. \A s \in App : pc'[s] = pc[s] /\ cur'[s] = cur[s] /\ s # Client /\ s \in Thread
    BY <1>9, Threads
  <2>3. \A s \in Thread : Uses(s)' => cur'[s] \in alive'
    <3>1. \A s \in App : Uses(s)' => cur'[s] \in alive'
      BY <1>5, <2>2 DEF IInv, Places, Uses
    <3>2. Uses(Client)' => cur'[Client] \in alive'
      BY <1>5, <1>6, <1>9 DEF Uses
    <3> QED
      BY <3>1, <3>2, Threads
  <2>4. \A s \in App : Opening(s)' <=> Opening(s)
    BY <2>2 DEF Opening
  <2>5. \A s \in App : Opening(s) => /\ "initializing" \in flags[cur[s]]
                                    /\ result[cur[s]] = NoRequest
    BY DEF IInv, Places
  <2>6. "initializing" \in Flag \ {"delay"}
    BY DEF Flag
  <2>7. \A s \in App : Opening(s)' => /\ "initializing" \in flags'[cur'[s]]
                                     /\ result'[cur'[s]] = NoRequest
    BY <1>5, <1>10, <2>1, <2>2, <2>4, <2>5, <2>6
  <2>8. \A s \in App :
          pc'[s] \in {"idle", "add", "init", "enqueue", "notify", "wait", "put"}
    BY <2>2 DEF IInv, Places
  <2>9. \A s, t \in App : Opening(s)' /\ Opening(t)' /\ cur'[s] = cur'[t] => s = t
    BY <2>2, <2>4 DEF IInv, Places
  <2>10. pc'[Client] \in {"epoll", "cancel"}
    BY <1>9
  <2> QED
    BY <2>3, <2>7, <2>8, <2>9, <2>10 DEF Places
<1>14. Queues'
  <2>1. \A x \in Range(sendq') : "initializing" \notin flags'[x] /\ x \in alive'
    BY <1>5, <1>6, <1>8, <1>10 DEF IInv, Queues
  <2>2. \A x \in E : flags'[x] \cap {"cancel", "initializing"} = {} /\ x \in alive'
    BY <1>5, <1>6, <1>10
  <2> QED
    BY <1>8, <1>9, <2>1, <2>2 DEF Queues, Uses
<1>15. Ending'
  <2>1. pc'[Client] = "cancel" => flags'[cur'[Client]] \cap {"cancel", "initializing"} = {}
    <3>1. \A x \in E : flags'[x] \cap {"cancel", "initializing"} = {}
      BY <1>6, <1>10
    <3> QED
      BY <1>9, <3>1
  <2>2. \A y \in Request : "completing" \notin flags'[y]
    BY <1>6, <1>10
  <2>3. {"send_failed", "ready", "cancel", "initializing"} \subseteq Flag \ {"delay"}
    BY DEF Flag
  <2>4. \A y \in Request : "send_failed" \in flags'[y] => "cancel" \in flags'[y]
    BY <1>10, <2>3 DEF IInv, Ending
  <2>5. \A y \in alive' : result'[y] # NoRequest =>
          flags'[y] \cap {"ready", "cancel", "initializing"} # {}
    BY <1>5, <1>6, <1>10, <2>3 DEF IInv, Ending
  <2>6. pc'[Client] \in {"epoll", "cancel"}
    BY <1>9
  <2> QED
    BY <2>1, <2>2, <2>4, <2>5, <2>6 DEF Ending
<1>16. Counts'
  <2>1. ASSUME NEW z \in alive
        PROVE  ref_cnt'[z] - Shares(z)' = ref_cnt[z] - Shares(z)
    <3>1. z \in Request /\ Shares(z) \in Nat /\ ref_cnt[z] \in Nat /\ leaks[z] \in Nat
      BY SharesNat DEF IInv, TypeOK
    <3>2. (Open(z)' <=> Open(z)) /\ ~ClientHolds(z) /\ z \notin Range(expiredq)
      <4>1. Range(expiredq) = {}
        BY <1>6, RangeIs DEF IInv, TypeOK
      <4> QED
        BY <1>5, <1>9, <4>1 DEF Open, ClientHolds, Holds, Uses
    <3>3. /\ z \in E => (z \in Range(expiredq') <=> ~ClientHolds(z)')
          /\ z \notin E => z \notin Range(expiredq') /\ ~ClientHolds(z)'
      BY <1>9 DEF ClientHolds, Holds, Uses
    <3>4. z \in Range(sendq') <=> z \in Range(sendq) \/ z \in A
      BY <1>8
    <3>5. Shares(z)' = IF z \in E \cup A THEN Shares(z) + 1 ELSE Shares(z)
      BY <1>5, <1>6, <3>1, <3>2, <3>3, <3>4 DEF Shares, One
    <3>6. ref_cnt'[z] = IF z \in E \cup A THEN ref_cnt[z] + 1 ELSE ref_cnt[z]
      BY <1>10, <3>1
    <3> QED
      BY <3>1, <3>5, <3>6
  <2> QED
    BY <1>5, <1>9, <1>11, <2>1, ClientCounts
<1>17. OwnReply'
  BY <1>5 DEF IInv, OwnReply
<1>18. QueueIsWatched'
  <2>1. CASE A # {}
    BY <1>5, <2>1 DEF QueueIsWatched
  <2>2. CASE A = {}
    <3>1. Range(sendq') = Range(sendq)
      BY <1>8, <2>2
    <3>2. sendq' # <<>> => sendq # <<>>
      BY <1>8, <3>1, RangeIs DEF IInv, TypeOK
    <3> QED
      BY <1>5, <1>9, <3>2 DEF IInv, QueueIsWatched
  <2> QED
    BY <2>1, <2>2
<1> QED
  BY <1>11, <1>12, <1>13, <1>14, <1>15, <1>16, <1>17, <1>18 DEF IInv

\* raft_client_evp_cb(), and the call at the end of a round
LEMMA SenderKeeps ==
  ASSUME ~CancelInit, IInv, NEW n \in 0 .. SenderMax, Sender(n)
  PROVE  IInv'
<1> USE ClientAssumption
<1>1. /\ pc[Client] = "epoll" /\ RpcSender(n)
      /\ UNCHANGED <<objVars, qVars, cur, queue, reply>>
      /\ notified' \in BOOLEAN /\ resend' \in BOOLEAN
  BY DEF Sender, EvpCb, ThreadResend, IInv, TypeOK
<1>2. /\ \A s \in App : pc'[s] = pc[s] /\ s # Client
      /\ pc' \in [Thread -> Label] /\ remaining_sends' \in 0 .. SenderMax
      /\ throttled' \in BOOLEAN
      /\ pc'[Client] = "send" \/ (pc'[Client] = "epoll" /\ throttled')
  <2>1. CASE n = 0
    BY <1>1, <2>1, Threads DEF RpcSender, IInv, TypeOK
  <2>2. CASE n # 0
    BY <1>1, <2>2, Threads DEF RpcSender, Goto, IInv, TypeOK, Label
  <2> QED
    BY <2>1, <2>2
<1>3. TypeOK'
  BY <1>1, <1>2 DEF IInv, TypeOK, objVars, qVars
<1>4. Lives'
  BY <1>1 DEF IInv, Lives, objVars
<1>5. Places'
  BY <1>1, <1>2, Threads DEF IInv, Places, Uses, Opening, objVars
<1>6. Queues'
  BY <1>1, <1>2 DEF IInv, Queues, Uses, objVars, qVars
<1>7. Ending'
  BY <1>1, <1>2 DEF IInv, Ending, objVars
<1>8. Counts'
  <2>1. \A y \in alive : (Open(y)' <=> Open(y)) /\ (ClientHolds(y)' <=> ClientHolds(y))
    BY <1>1, <1>2 DEF Open, ClientHolds, Holds, Uses, objVars
  <2>2. \A y \in alive : Shares(y)' = Shares(y) /\ ref_cnt'[y] = ref_cnt[y]
    BY <1>1, <2>1 DEF Shares, One, objVars, qVars
  <2>3. \A y : AppHolders(y)' = AppHolders(y)
    BY <1>1, <1>2, HoldersStay
  <2> QED
    BY <1>1, <2>2, <2>3 DEF IInv, Counts, objVars
<1>9. OwnReply'
  BY <1>1 DEF IInv, OwnReply, objVars
<1>10. QueueIsWatched'
  BY <1>2 DEF QueueIsWatched
<1> QED
  BY <1>3, <1>4, <1>5, <1>6, <1>7, <1>8, <1>9, <1>10 DEF IInv

\* raft_client_rpc_sender() after its loop
LEMMA SenderExitKeeps ==
  ASSUME ~CancelInit, IInv, SenderExit
  PROVE  IInv'
<1> USE ClientAssumption
<1>1. /\ pc[Client] = "send" /\ pc' = [pc EXCEPT ![Client] = "epoll"]
      /\ throttled' = (throttled \/ sendq # <<>>)
      /\ notified' = (notified \/ sendq # <<>>) /\ remaining_sends' = 0
      /\ UNCHANGED <<objVars, qVars, resend, cur, queue, reply>>
  BY DEF SenderExit, Goto
<1>2. /\ \A s \in App : pc'[s] = pc[s] /\ s # Client
      /\ pc' \in [Thread -> Label] /\ pc'[Client] = "epoll"
  BY <1>1, Threads DEF IInv, TypeOK, Label
<1>3. TypeOK'
  BY <1>1, <1>2, LimitAssumption DEF IInv, TypeOK, objVars, qVars
<1>4. Lives'
  BY <1>1 DEF IInv, Lives, objVars
<1>5. Places'
  BY <1>1, <1>2, Threads DEF IInv, Places, Uses, Opening, objVars
<1>6. Queues'
  BY <1>1, <1>2 DEF IInv, Queues, Uses, objVars, qVars
<1>7. Ending'
  BY <1>1, <1>2 DEF IInv, Ending, objVars
<1>8. Counts'
  <2>1. \A y \in alive : (Open(y)' <=> Open(y)) /\ (ClientHolds(y)' <=> ClientHolds(y))
    BY <1>1, <1>2 DEF Open, ClientHolds, Holds, Uses, objVars
  <2>2. \A y \in alive : Shares(y)' = Shares(y) /\ ref_cnt'[y] = ref_cnt[y]
    BY <1>1, <2>1 DEF Shares, One, objVars, qVars
  <2>3. \A y : AppHolders(y)' = AppHolders(y)
    BY <1>1, <1>2, HoldersStay
  <2> QED
    BY <1>1, <2>2, <2>3 DEF IInv, Counts, objVars
<1>9. OwnReply'
  BY <1>1 DEF IInv, OwnReply, objVars
<1>10. QueueIsWatched'
  BY <1>1 DEF QueueIsWatched, qVars
<1> QED
  BY <1>3, <1>4, <1>5, <1>6, <1>7, <1>8, <1>9, <1>10 DEF IInv

-----------------------------------------------------------------------------
(* The rest, and the invariant *)

\* Steps that leave requests, queues and threads alone
LEMMA FrameKeeps ==
  ASSUME IInv, TypeOK', QueueIsWatched',
         UNCHANGED <<alive, user, ref_cnt, flags, result, leaks, qVars, pc, cur,
                     remaining_sends, reply>>,
         \A x \in Request :
           /\ age'[x] \in {"new", "late"} <=> age[x] \in {"new", "late"}
           /\ age'[x] = "unused" <=> age[x] = "unused"
  PROVE  IInv'
<1>1. Lives'
  BY DEF IInv, Lives
<1>2. Places'
  BY DEF IInv, Places, Uses, Opening
<1>3. Queues' /\ Ending' /\ OwnReply'
  BY DEF IInv, Queues, Ending, Uses, OwnReply, qVars
<1>4. \A y \in alive : Shares(y)' = Shares(y) /\ AppHolders(y)' = AppHolders(y)
  BY SharesStay DEF AppHolders, qVars
<1>5. Counts'
  BY <1>4 DEF IInv, Counts
<1> QED
  BY <1>1, <1>2, <1>3, <1>5 DEF IInv

\* The timeout of a request, the beginning of a throttled round, and stuttering
LEMMA QuietKeeps ==
  ASSUME IInv, (\E x \in Request : Timeout(x)) \/ ThreadLoop \/ UNCHANGED vars
  PROVE  IInv'
<1>1. ASSUME NEW x \in Request, Timeout(x)
      PROVE  IInv'
  <2>1. TypeOK'
    BY <1>1 DEF IInv, TypeOK, Timeout, qVars, sendVars
  <2>2. QueueIsWatched'
    BY <1>1 DEF IInv, QueueIsWatched, Timeout, qVars, sendVars
  <2>3. \A y \in Request :
           /\ age'[y] \in {"new", "late"} <=> age[y] \in {"new", "late"}
           /\ age'[y] = "unused" <=> age[y] = "unused"
    BY <1>1 DEF IInv, TypeOK, Timeout
  <2> QED
    BY <1>1, <2>1, <2>2, <2>3, FrameKeeps DEF Timeout, sendVars
<1>2. CASE ThreadLoop
  <2>1. TypeOK'
    BY <1>2 DEF IInv, TypeOK, ThreadLoop, objVars, qVars
  <2>2. QueueIsWatched'
    BY <1>2 DEF QueueIsWatched, ThreadLoop
  <2> QED
    BY <1>2, <2>1, <2>2, FrameKeeps DEF ThreadLoop, objVars
<1>3. CASE UNCHANGED vars
  <2>1. TypeOK'
    BY <1>3 DEF IInv, TypeOK, vars, objVars, qVars, sendVars
  <2>2. QueueIsWatched'
    BY <1>3 DEF IInv, QueueIsWatched, vars, objVars, qVars, sendVars
  <2> QED
    BY <1>3, <2>1, <2>2, FrameKeeps DEF vars, objVars, sendVars
<1> QED
  BY <1>1, <1>2, <1>3

\* Every step of an application thread keeps the invariant: none of them ends a
\* request, since nobody cancels one that is being initialized.
LEMMA AppKeeps ==
  ASSUME ~CancelInit, IInv, NEW t \in App,
         Submit(t) \/ AppStep(t) \/ \E u \in UserId : Cancel(t, u)
  PROVE  IInv'
<1>1. ~CancelPendingReq(t) /\ ~Done(t) /\ ~DonePut(t)
  BY DEF IInv, Places, CancelPendingReq, Done, DonePut
<1> QED
  BY <1>1, SubmitKeeps, SubAppAddKeeps, SubAppAlreadyKeeps, HandleInitKeeps,
     HandleInitFailsKeeps, EnqueueKeeps, NotifyKeeps, WakeKeeps, CancelKeeps,
     AppPutKeeps DEF AppStep

\* So does every step of the client thread.
LEMMA ClientKeeps ==
  ASSUME ~CancelInit, IInv,
         ClientStep \/ Timer \/ (\E n \in Request : ReplyLookup(n))
           \/ \E n \in 0 .. SenderMax : Sender(n)
  PROVE  IInv'
<1>1. CASE ClientStep
  BY <1>1, ReplyTryCompleteKeeps, SenderExitKeeps, DequeueKeeps, LaunchKeeps,
     LaunchFailsKeeps, DequeuePutKeeps, CancelPendingReqKeeps, DoneKeeps,
     DonePutKeeps, ClientPutKeeps DEF ClientStep
<1>2. CASE Timer
  <2>1. PICK viable \in BOOLEAN, late \in SUBSET Request :
          CheckPendingRequests(Requeue(viable, late))
    BY <1>2 DEF Timer
  <2>2. Requeue(viable, late) \in SUBSET (Pending \ Expired)
    BY DEF Requeue
  <2> QED
    BY <2>1, <2>2, CheckPendingRequestsKeeps
<1> QED
  BY <1>1, <1>2, ReplyLookupKeeps, SenderKeeps

\* The library starts without requests.
LEMMA InitHolds ==
  ASSUME Init
  PROVE  IInv
<1> USE ClientAssumption
<1>1. TypeOK
  <2>1. \E u : u \in UserId
    BY LimitAssumption
  <2>2. user \in [Request -> UserId]
    BY <2>1 DEF Init
  <2>3. /\ pc \in [Thread -> Label] /\ cur \in [Thread -> Request \cup {NoRequest}]
        /\ queue \in [App -> BOOLEAN]
    BY DEF Init, Label
  <2>4. /\ ref_cnt \in [Request -> Nat] /\ leaks \in [Request -> Nat]
        /\ replies \in [Request -> 0 .. MaxReplies]
    BY BoundAssumption DEF Init
  <2>5. /\ flags \in [Request -> SUBSET Flag]
        /\ result \in [Request -> Request \cup {NoRequest, ETIMEDOUT, ECANCELED,
                                              ECOMM, EMSGSIZE}]
        /\ age \in [Request -> {"unused", "new", "late", "freed"}]
    BY DEF Init
  <2>6. /\ alive \subseteq Request /\ sendq \in Seq(Request) /\ expiredq \in Seq(Request)
        /\ reply \in Request \cup {NoRequest}
    BY DEF Init
  <2>7. remaining_sends \in 0 .. SenderMax
    BY LimitAssumption DEF Init
  <2>8. {notified, throttled, resend} \subseteq BOOLEAN
    BY DEF Init
  <2> QED
    BY <2>2, <2>3, <2>4, <2>5, <2>6, <2>7, <2>8 DEF TypeOK
<1>2. Range(sendq) = {} /\ Range(expiredq) = {} /\ Once(sendq) /\ Once(expiredq)
  <2>1. sendq = <<>> /\ expiredq = <<>> /\ sendq \in Seq(Request) /\ expiredq \in Seq(Request)
    BY <1>1 DEF Init, TypeOK
  <2>2. Range(sendq) = {} /\ Range(expiredq) = {}
    BY <2>1, RangeIs
  <2> QED
    BY <2>1, <2>2 DEF Once
<1>3. /\ alive = {} /\ pc[Client] = "epoll" /\ \A t \in App : pc[t] = "idle"
      /\ \A t \in Thread : ~Uses(t)
  BY Threads DEF Init, Uses
<1>4. Lives
  BY DEF Init, Lives
<1>5. Places
  BY <1>3 DEF Places, Opening
<1>6. Queues
  BY <1>2, <1>3, Threads DEF Queues, Init
<1>7. Ending
  BY <1>3 DEF Ending, Init
<1>8. Counts
  BY <1>3 DEF Counts
<1>9. OwnReply
  BY DEF Init, OwnReply, NoRequest
<1>10. QueueIsWatched
  BY DEF Init, QueueIsWatched
<1> QED
  BY <1>1, <1>4, <1>5, <1>6, <1>7, <1>8, <1>9, <1>10 DEF IInv

\* The invariant holds in every state, if nobody cancels a request that is
\* being initialized.
THEOREM Invariance == ~CancelInit => (Spec => []IInv)
<1> SUFFICES ASSUME ~CancelInit PROVE Spec => []IInv
  OBVIOUS
<1>1. Init => IInv
  BY InitHolds
<1>2. IInv /\ [Next]_vars => IInv'
  BY AppKeeps, ClientKeeps, QuietKeeps DEF Next
<1> QED
  BY <1>1, <1>2, PTL DEF Spec

-----------------------------------------------------------------------------
(* The properties *)

\* Every variable keeps its type: no reference count falls below zero, and the
\* sender never sends more than its share.
THEOREM TypeCorrect == ~CancelInit => (Spec => []TypeOK)
<1>1. IInv => TypeOK
  BY DEF IInv
<1> QED
  BY <1>1, Invariance, PTL

\* The threads that hold a reference are the client thread and AppHolders.
LEMMA HoldersAre ==
  ASSUME IInv, NEW x
  PROVE  Cardinality({t \in Thread : Holds(t) /\ cur[t] = x}) =
           One(ClientHolds(x)) + Cardinality(AppHolders(x))
<1>1. PICK S : S = {t \in Thread : Holds(t) /\ cur[t] = x}
  OBVIOUS
<1>2. PICK H : H = AppHolders(x)
  OBVIOUS
<1>3. IsFiniteSet(H) /\ Cardinality(H) \in Nat
  BY <1>2, HoldersFinite
<1>4. \A t \in App : Holds(t) <=> pc[t] = "put"
  BY DEF IInv, Places, Holds, Uses
<1>5. S = IF ClientHolds(x) THEN H \cup {Client} ELSE H
  BY <1>1, <1>2, <1>4, Threads DEF AppHolders, ClientHolds
<1>6. Client \notin H
  BY <1>2, ClientAssumption DEF AppHolders
<1>7. Cardinality(H \cup {Client}) = Cardinality(H) + 1
  BY <1>3, <1>6, FS_AddElement
<1>8. Cardinality(S) = One(ClientHolds(x)) + Cardinality(H)
  <2>1. CASE ClientHolds(x)
    <3>1. S = H \cup {Client} /\ One(ClientHolds(x)) = 1
      BY <1>5, <2>1 DEF One
    <3> QED
      BY <1>3, <1>7, <3>1
  <2>2. CASE ~ClientHolds(x)
    <3>1. S = H /\ One(ClientHolds(x)) = 0
      BY <1>5, <2>2 DEF One
    <3> QED
      BY <1>3, <3>1
  <2> QED
    BY <2>1, <2>2
<1> QED
  BY <1>1, <1>2, <1>8

\* rte_ref_cnt counts the references that somebody will put and those that have
\* leaked, and no others: no object is destroyed under a thread or a queue that
\* uses it, and none stays for a reference that nobody has.
THEOREM ReferencesAccounted == ~CancelInit => (Spec => []RefsAccounted)
<1>1. IInv => RefsAccounted
  <2> SUFFICES ASSUME IInv PROVE RefsAccounted
    OBVIOUS
  <2>1. ASSUME NEW x \in alive
        PROVE  ref_cnt[x] = leaks[x]
         + (IF Constructed(x) THEN 1 ELSE 0)
         + Cardinality({i \in DOMAIN sendq : sendq[i] = x})
         + Cardinality({i \in DOMAIN expiredq : expiredq[i] = x})
         + Cardinality({t \in Thread : Holds(t) /\ cur[t] = x})
    <3>1. Constructed(x) <=> Open(x)
      BY Threads DEF IInv, Places, Constructed, Open
    <3>2. /\ Cardinality({i \in DOMAIN sendq : sendq[i] = x}) = One(x \in Range(sendq))
          /\ Cardinality({i \in DOMAIN expiredq : expiredq[i] = x}) =
               One(x \in Range(expiredq))
      BY CountOnce DEF IInv, TypeOK, Queues, One
    <3>3. Cardinality({t \in Thread : Holds(t) /\ cur[t] = x}) =
            One(ClientHolds(x)) + Cardinality(AppHolders(x))
      BY HoldersAre
    <3>4. ref_cnt[x] = leaks[x] + One(Open(x)) + One(x \in Range(sendq))
            + One(x \in Range(expiredq)) + One(ClientHolds(x)) + Cardinality(AppHolders(x))
      BY DEF IInv, Counts, Shares
    <3>5. leaks[x] \in Nat /\ Cardinality(AppHolders(x)) \in Nat
      BY HoldersFinite DEF IInv, TypeOK
    <3> QED
      BY <3>1, <3>2, <3>3, <3>4, <3>5 DEF One
  <2>2. \A t \in Thread : Uses(t) => cur[t] \in alive
    BY DEF IInv, Places
  <2>3. Range(sendq) \cup Range(expiredq) \subseteq alive
    BY DEF IInv, Queues
  <2> QED
    BY <2>1, <2>2, <2>3 DEF RefsAccounted
<1> QED
  BY <1>1, Invariance, PTL

\* The assertions of raft_client_sub_app_done() hold, and a reply never meets a
\* request that another reply is completing: a request ends once.
THEOREM RequestsEndOnce == ~CancelInit => (Spec => []EndsOnce)
<1>1. IInv => EndsOnce
  <2> SUFFICES ASSUME IInv, NEW t \in Thread
               PROVE  /\ pc[t] = "done" => DoneAsserts(cur[t])
                      /\ pc[t] = "reply" => "completing" \notin flags[cur[t]]
    BY DEF EndsOnce
  <2>1. pc[t] \in {"done", "reply"} => t = Client
    BY Threads DEF IInv, Places
  <2>2. pc[Client] = "done" => DoneAsserts(cur[Client])
    BY DEF IInv, Ending, DoneAsserts
  <2>3. pc[Client] = "reply" => "completing" \notin flags[cur[Client]]
    BY Threads DEF IInv, Ending, Places, Uses, TypeOK
  <2> QED
    BY <2>1, <2>2, <2>3
<1> QED
  BY <1>1, Invariance, PTL

\* The data that raft_client_reply_try_complete() hands to an application is
\* the answer to its own request.
THEOREM RepliesAreOwn == ~CancelInit => (Spec => []OwnReply)
<1>1. IInv => OwnReply
  BY DEF IInv
<1> QED
  BY <1>1, Invariance, PTL

\* The sender runs or will be woken whenever rci_sendq is not empty.
THEOREM QueueWatched == ~CancelInit => (Spec => []QueueIsWatched)
<1>1. IInv => QueueIsWatched
  BY DEF IInv
<1> QED
  BY <1>1, Invariance, PTL
====
