-------------------------- MODULE RaftServer_proofs --------------------------
(***************************************************************************)
(* What raft_server_get_majority_entry_idx() returns, type correctness,    *)
(* and the safety of elections, for every cluster, payload set and bound.  *)
(***************************************************************************)
EXTENDS RaftServer, FiniteSetTheorems, WellFoundedInduction, TLAPS

-----------------------------------------------------------------------------
(* The index that a majority of the servers has reached *)

\* A nonempty set of naturals has a smallest element.
LEMMA LeastNatural ==
  ASSUME NEW T \in SUBSET Nat, T # {}
  PROVE  \E x \in T : \A y \in T : x <= y
<1> DEFINE R == {ss \in Nat \X Nat : ss[1] < ss[2]}
<1>1. IsWellFoundedOn(R, Nat)
  <2>1. R = OpToRel(<, Nat)
    BY Zenon DEF OpToRel
  <2> QED
    BY <2>1, NatLessThanWellFounded, Zenon
<1>2. \A x, y \in Nat : <<y, x>> \in R <=> y < x
  OBVIOUS
<1> HIDE DEF R
<1>3. PICK x \in T : \A y \in T : ~(<<y, x>> \in R)
  BY <1>1, WFMin
<1>4. \A y \in T : x <= y
  <2> SUFFICES ASSUME NEW y \in T PROVE x <= y
    OBVIOUS
  <2>1. x \in Nat /\ y \in Nat
    OBVIOUS
  <2>2. ~(y < x)
    BY <1>2, <1>3, <2>1
  <2> QED
    BY <2>1, <2>2
<1> QED
  BY <1>4

\* An integer function takes a largest value on a nonempty finite set.
LEMMA LargestValue ==
  ASSUME NEW J, IsFiniteSet(J), J # {}, NEW f, \A j \in J : f[j] \in Int
  PROVE  \E j \in J : \A k \in J : f[k] <= f[j]
<1> DEFINE below(j) == {k \in J : f[k] <= f[j]}
           rest(j) == Cardinality(J) - Cardinality(below(j))
           T == {rest(j) : j \in J}
<1>1. \A j \in J : /\ IsFiniteSet(below(j)) /\ Cardinality(below(j)) \in Nat
                   /\ Cardinality(below(j)) <= Cardinality(J)
  <2> SUFFICES ASSUME NEW j \in J
               PROVE  /\ IsFiniteSet(below(j)) /\ Cardinality(below(j)) \in Nat
                      /\ Cardinality(below(j)) <= Cardinality(J)
    OBVIOUS
  <2>1. below(j) \in SUBSET J
    OBVIOUS
  <2> HIDE DEF below
  <2> QED
    BY <2>1, FS_Subset, FS_CardinalityType
<1>2. Cardinality(J) \in Nat
  BY FS_CardinalityType
<1>3. T \in SUBSET Nat /\ T # {}
  <2> HIDE DEF below
  <2> QED
    BY <1>1, <1>2
<1>4. PICK x \in T : \A y \in T : x <= y
  <2> HIDE DEF T
  <2> QED
    BY <1>3, LeastNatural
<1>5. PICK j \in J : x = rest(j)
  OBVIOUS
<1>6. \A k \in J : f[k] <= f[j]
  <2> SUFFICES ASSUME NEW k \in J, ~(f[k] <= f[j])
               PROVE  FALSE
    OBVIOUS
  <2>1. below(j) \in SUBSET below(k)
    OBVIOUS
  <2>2. k \in below(k) /\ k \notin below(j)
    OBVIOUS
  <2>3. rest(j) <= rest(k)
    <3>1. rest(k) \in T
      OBVIOUS
    <3> HIDE DEF rest, T
    <3> QED
      BY <1>4, <1>5, <3>1
  <2> HIDE DEF below
  <2>4. Cardinality(below(j)) < Cardinality(below(k))
    BY <1>1, <2>1, <2>2, FS_Subset
  <2> QED
    BY <1>1, <1>2, <2>3, <2>4
<1> QED
  BY <1>6

\* The servers that have reached v are those not below it.
LEMMA CountAtLeast ==
  ASSUME NEW value \in [Server -> Int], NEW v \in Int
  PROVE  Cardinality({j \in Server : value[j] >= v})
           = Cardinality(Server) - Cardinality({j \in Server : value[j] < v})
<1> DEFINE low == {j \in Server : value[j] < v}
<1>1. {j \in Server : value[j] >= v} = Server \ low
  OBVIOUS
<1>2. Server \cap low = low
  OBVIOUS
<1> HIDE DEF low
<1>3. Cardinality(Server \ low) = Cardinality(Server) - Cardinality(low)
  BY <1>2, FS_Difference, ServerAssumption
<1> QED
  BY <1>1, <1>3 DEF low

\* Sorting the servers by their index, the one at position n - n/2 - 1 has at
\* most that many servers before it.
LEMMA MajorityPosition ==
  ASSUME NEW value \in [Server -> Int], Server # {}, NEW pos \in Nat,
         pos < Cardinality(Server)
  PROVE  \E j \in Server :
           /\ Cardinality({k \in Server : value[k] < value[j]}) <= pos
           /\ Cardinality({k \in Server : value[k] <= value[j]}) > pos
<1> DEFINE upTo(j) == {k \in Server : value[k] <= value[j]}
           A == {j \in Server : Cardinality(upTo(j)) > pos}
<1>1. IsFiniteSet(Server)
  BY ServerAssumption
<1>2. A # {}
  <2>1. PICK j \in Server : \A k \in Server : value[k] <= value[j]
    BY <1>1, LargestValue
  <2>2. upTo(j) = Server
    BY <2>1
  <2> QED
    BY <2>2
<1>3. A \in SUBSET Server /\ IsFiniteSet(A)
  <2>1. A \in SUBSET Server
    OBVIOUS
  <2> HIDE DEF A
  <2> QED
    BY <1>1, <2>1, FS_Subset
<1>4. PICK j \in A : \A k \in A : value[j] <= value[k]
  <2> DEFINE neg == [k \in Server |-> -value[k]]
  <2>1. \A k \in A : neg[k] \in Int
    BY <1>3
  <2>2. PICK j \in A : \A k \in A : neg[k] <= neg[j]
    <3> HIDE DEF neg, A
    <3> QED
      BY <1>2, <1>3, <2>1, LargestValue
  <2>3. \A k \in A : value[j] <= value[k]
    <3> SUFFICES ASSUME NEW k \in A PROVE value[j] <= value[k]
      OBVIOUS
    <3>1. neg[k] = -value[k] /\ neg[j] = -value[j]
      BY <1>3
    <3>2. value[k] \in Int /\ value[j] \in Int
      BY <1>3
    <3> HIDE DEF neg, A
    <3> QED
      BY <2>2, <3>1, <3>2
  <2> QED
    BY <2>3
<1>5. j \in Server /\ Cardinality(upTo(j)) > pos
  BY <1>4
<1> DEFINE B == {k \in Server : value[k] < value[j]}
<1>6. Cardinality(B) <= pos
  <2>1. B \in SUBSET Server /\ IsFiniteSet(B)
    <3>1. B \in SUBSET Server
      OBVIOUS
    <3> HIDE DEF B
    <3> QED
      BY <1>1, <3>1, FS_Subset
  <2>2. CASE B = {}
    BY <2>2, FS_EmptySet
  <2>3. CASE B # {}
    <3>1. \A k \in B : value[k] \in Int
      OBVIOUS
    <3>2. PICK k \in B : \A l \in B : value[l] <= value[k]
      <4> HIDE DEF B
      <4> QED
        BY <2>1, <2>3, <3>1, LargestValue
    <3>3. upTo(k) = B
      <4>1. \A l \in Server : value[l] <= value[k] => value[l] < value[j]
        BY <1>5, <3>2
      <4> QED
        BY <3>2, <4>1
    <3>4. k \notin A
      BY <1>4, <1>5, <3>2
    <3>5. k \in Server /\ ~(Cardinality(B) > pos)
      BY <3>2, <3>3, <3>4
    <3>6. Cardinality(B) \in Nat
      <4> HIDE DEF B
      <4> QED
        BY <2>1, FS_CardinalityType
    <3> QED
      BY <3>5, <3>6
  <2> QED
    BY <2>2, <2>3
<1> QED
  BY <1>5, <1>6

\* raft_server_get_majority_entry_idx() is the element at that position.
LEMMA MajorityPlace ==
  ASSUME NEW value \in [Server -> Int], Server # {}
  PROVE  LET pos == Cardinality(Server) - (Cardinality(Server) \div 2) - 1
             w   == MajorityEntryIdx(value)
         IN  /\ pos \in Nat /\ w \in Int
             /\ \E j \in Server : w = value[j]
             /\ Cardinality({j \in Server : value[j] < w}) <= pos
             /\ Cardinality({j \in Server : value[j] <= w}) > pos
<1> DEFINE n == Cardinality(Server)
           pos == n - (n \div 2) - 1
           P(v) == /\ Cardinality({j \in Server : value[j] < v}) <= pos
                   /\ Cardinality({j \in Server : value[j] <= v}) > pos
           S == {value[j] : j \in Server}
           w == MajorityEntryIdx(value)
<1>1. n \in Nat \ {0}
  BY ServerAssumption, FS_CardinalityType, FS_EmptySet
<1>2. pos \in Nat /\ pos < n
  <2> HIDE DEF n
  <2> QED
    BY <1>1
<1>3. PICK j \in Server : P(value[j])
  <2> HIDE DEF pos
  <2> QED
    BY <1>2, MajorityPosition
<1>4. w = CHOOSE v \in S : P(v)
  BY DEF MajorityEntryIdx
<1>5. w \in S /\ P(w)
  <2>1. \E v \in S : P(v)
    BY <1>3
  <2> HIDE DEF P, S, w
  <2> QED
    BY <1>4, <2>1
<1>6. w \in Int
  BY <1>5
<1> QED
  BY <1>2, <1>5, <1>6

\* raft_server_get_majority_entry_idx() returns one of the servers' indices,
\* and a majority of the servers has reached it: the array position
\* n - n/2 - 1 is right for even and for odd clusters.
THEOREM MajorityReached ==
  ASSUME NEW value \in [Server -> Int], Server # {}
  PROVE  /\ MajorityEntryIdx(value) \in Int
         /\ \E j \in Server : MajorityEntryIdx(value) = value[j]
         /\ IsMajority({j \in Server : value[j] >= MajorityEntryIdx(value)})
<1> DEFINE n == Cardinality(Server)
           pos == n - (n \div 2) - 1
           w == MajorityEntryIdx(value)
           low == {k \in Server : value[k] < w}
<1>1. n \in Nat /\ low \in SUBSET Server
  BY ServerAssumption, FS_CardinalityType
<1>2. /\ w \in Int /\ \E j \in Server : w = value[j]
      /\ Cardinality(low) <= pos
  BY MajorityPlace
<1>3. Cardinality({k \in Server : value[k] >= w}) = n - Cardinality(low)
  <2> HIDE DEF w
  <2> QED
    BY <1>2, CountAtLeast
<1>4. Cardinality(low) \in Nat
  <2> HIDE DEF low
  <2> QED
    BY <1>1, ServerAssumption, FS_Subset, FS_CardinalityType
<1>5. n - Cardinality(low) >= (n \div 2) + 1
  <2> HIDE DEF n, low
  <2> QED
    BY <1>1, <1>2, <1>4
<1> QED
  BY <1>2, <1>3, <1>5 DEF IsMajority

\* When no server's index goes back, neither does the majority's.
LEMMA MajorityGrows ==
  ASSUME NEW value \in [Server -> Int], NEW new \in [Server -> Int], Server # {},
         \A j \in Server : value[j] <= new[j]
  PROVE  MajorityEntryIdx(value) <= MajorityEntryIdx(new)
<1> DEFINE pos == Cardinality(Server) - (Cardinality(Server) \div 2) - 1
           v == MajorityEntryIdx(value)
           w == MajorityEntryIdx(new)
           low == {j \in Server : value[j] < v}
           upTo == {j \in Server : new[j] <= w}
<1>1. pos \in Nat /\ v \in Int /\ Cardinality(low) <= pos
  BY MajorityPlace
<1>2. w \in Int /\ Cardinality(upTo) > pos
  BY MajorityPlace
<1> SUFFICES ASSUME w < v PROVE FALSE
  BY <1>1, <1>2
<1>3. upTo \in SUBSET low /\ low \in SUBSET Server
  <2> HIDE DEF v, w
  <2> QED
    BY <1>1, <1>2
<1> HIDE DEF low, upTo
<1>4. IsFiniteSet(low)
  BY <1>3, ServerAssumption, FS_Subset
<1>5. /\ Cardinality(low) \in Nat /\ Cardinality(upTo) \in Nat
      /\ Cardinality(upTo) <= Cardinality(low)
  BY <1>3, <1>4, FS_Subset, FS_CardinalityType
<1> HIDE DEF pos
<1> QED
  BY <1>1, <1>2, <1>5

-----------------------------------------------------------------------------
(* Lemmas on entries and messages *)

\* Reading an index yields an entry of the log or the null entry.
LEMMA EntryAtType ==
  ASSUME NEW L \in Seq(Entry), NEW idx \in Int
  PROVE  /\ EntryAt(L, idx) \in Entry \cup {NullEntry}
         /\ EntryAt(L, idx).term \in Nat
         /\ idx \in 0 .. LastIdx(L) => EntryAt(L, idx) \in Entry
<1>1. idx \in 0 .. LastIdx(L) => L[idx + 1] \in Entry
  BY DEF LastIdx
<1>2. idx \in 0 .. LastIdx(L) => EntryAt(L, idx) \in Entry
  BY <1>1 DEF EntryAt
<1>3. idx \notin 0 .. LastIdx(L) => EntryAt(L, idx) = NullEntry
  BY DEF EntryAt
<1>4. \A e \in Entry : e.term \in Nat
  BY DEF Entry
<1>5. NullEntry.term \in Nat
  BY DEF NullEntry
<1> QED
  BY <1>2, <1>3, <1>4, <1>5

\* The type field of a message tells which kind of record it is.
LEMMA MessageKinds ==
  ASSUME NEW m \in Message
  PROVE  /\ m.type \in {"PRE_VOTE_REQUEST", "VOTE_REQUEST"} => m \in VoteRequest
         /\ m.type \in {"PRE_VOTE_REPLY", "VOTE_REPLY"} => m \in VoteReply
         /\ m.type = "APPEND_ENTRIES_REQUEST" => m \in AppendRequest
         /\ m.type = "APPEND_ENTRIES_REPLY" => m \in AppendReply
         /\ m.type = "SYNC_IDX_UPDATE" => m \in SyncIdxUpdate
         /\ m.src \in Server /\ m.dst \in Server
BY DEF Message, VoteRequest, VoteReply, AppendRequest, AppendReply,
       SyncIdxUpdate

\* A step only adds messages of the handler it models.
LEMMA TransmitType ==
  ASSUME NEW gone, NEW out, msgs \subseteq Message, out \subseteq Message,
         Transmit(gone, out)
  PROVE  msgs' \subseteq Message
BY DEF Transmit

\* The vote requests of a candidacy are messages.
LEMMA VoteRequestsType ==
  ASSUME TypeOK, NEW i \in Server, NEW type \in {"PRE_VOTE_REQUEST", "VOTE_REQUEST"},
         NEW idx \in Int, NEW term \in Nat
  PROVE  VoteRequests(i, type, idx, term) \subseteq Message
<1> SUFFICES ASSUME NEW req \in VoteRequests(i, type, idx, term)
             PROVE  req \in VoteRequest
  BY DEF Message
<1>1. PICK j \in Peers(i) :
        req = [type |-> type, src |-> i, dst |-> j,
               proposed_term |-> rlh_term[i] + 1,
               last_log_term |-> term, last_log_index |-> idx]
  BY DEF VoteRequests
<1>2. j \in Server
  BY DEF Peers
<1>3. rlh_term[i] + 1 \in Nat
  BY DEF TypeOK, HeaderType
<1> QED
  BY <1>1, <1>2, <1>3 DEF VoteRequest

\* A vote reply is a message.
LEMMA VoteReplyType ==
  ASSUME TypeOK, NEW m \in VoteRequest, NEW granted \in BOOLEAN,
         NEW type \in {"PRE_VOTE_REPLY", "VOTE_REPLY"}
  PROVE  VoteReplyTo(m.dst, m, type, granted) \in Message
BY DEF TypeOK, HeaderType, StateType, VoteReplyTo, Message, VoteRequest, VoteReply

\* The variables outside the network keep their types when nothing but
\* messages changes.
LEMMA StutterType ==
  ASSUME TypeOK,
         UNCHANGED <<ri_state, fatal, hdrVars, ri_csn_leader, candVars, logVars,
                     ri_commit_idx, rls_initial_term_idx, rfiVars, boundVars>>,
         NetworkType'
  PROVE  TypeOK'
BY DEF TypeOK, StateType, HeaderType, CandidateType, LogType, LeaderType,
       BoundType, hdrVars, candVars, logVars, rfiVars, boundVars

\* Writing the log header keeps the types of the header and of the log.
LEMMA LogHeaderWriteType ==
  ASSUME HeaderType, LogType, NEW i \in Server,
         NEW candidate \in Server \cup {None}, NEW term \in Nat,
         LogHeaderWrite(i, candidate, term), UNCHANGED log
  PROVE  HeaderType' /\ LogType'
<1>1. HeaderType'
  BY DEF HeaderType, LogHeaderWrite
<1>2. Len(log[i]) \in Nat
  BY DEF LogType
<1>3. LogType'
  BY <1>2 DEF LogType, LogHeaderWrite
<1> QED
  BY <1>1, <1>3

\* The synced index and term of a server.
LEMMA SyncType ==
  ASSUME LogType, NEW i \in Server
  PROVE  /\ SyncIdx(i) \in Int /\ SyncIdx(i) + 1 \in Nat
         /\ SyncTerm(i) \in Nat
         /\ LastIdx(log[i]) \in Int
         /\ EntryAt(log[i], LastIdx(log[i])).term \in Nat
<1>1. log[i] \in Seq(Entry) /\ synced[i] \in Nat /\ Len(log[i]) \in Nat
  BY DEF LogType
<1>2. SyncIdx(i) \in Int /\ SyncIdx(i) + 1 \in Nat /\ LastIdx(log[i]) \in Int
  BY <1>1 DEF SyncIdx, LastIdx
<1> QED
  BY <1>1, <1>2, EntryAtType DEF SyncTerm

\* Writing an entry keeps the type of the log.
LEMMA WriteType ==
  ASSUME LogType, NEW i \in Server, NEW e \in Entry,
         log' = [log EXCEPT ![i] = Append(@, e)],
         synced' = [synced EXCEPT ![i] = SyncedAfterWrite(@, Len(log[i]))]
  PROVE  LogType'
<1>1. log[i] \in Seq(Entry) /\ synced[i] \in Nat /\ synced[i] <= Len(log[i])
  BY DEF LogType
<1>2. Append(log[i], e) \in Seq(Entry)
  BY <1>1
<1>3. Len(Append(log[i], e)) = Len(log[i]) + 1 /\ Len(log[i]) \in Nat
  BY <1>1
<1>4. /\ SyncedAfterWrite(synced[i], Len(log[i])) \in Nat
      /\ SyncedAfterWrite(synced[i], Len(log[i])) <= Len(log[i]) + 1
  BY <1>1, <1>3 DEF SyncedAfterWrite
<1> QED
  BY <1>1, <1>2, <1>3, <1>4 DEF LogType

-----------------------------------------------------------------------------
(* Elections keep the types *)

\* Starting a pre-vote candidacy keeps the types.
LEMMA PreVoteType ==
  ASSUME TypeOK, NEW i \in Server, BecomePreVote(i)
  PROVE  TypeOK'
<1>1. StateType' /\ HeaderType' /\ LogType' /\ LeaderType' /\ BoundType'
  BY SMTT(40) DEF TypeOK, StateType, HeaderType, LogType, LeaderType, BoundType,
         BecomePreVote, hdrVars, logVars, rfiVars
<1>2. CandidateType'
  BY DEF TypeOK, HeaderType, CandidateType, BecomePreVote, SelfVote
<1>3. NetworkType'
  <2>1. VoteRequests(i, "PRE_VOTE_REQUEST", SyncIdx(i), SyncTerm(i))
          \subseteq Message
    BY SyncType, VoteRequestsType DEF TypeOK
  <2> QED
    BY <2>1, TransmitType DEF TypeOK, NetworkType, BecomePreVote
<1> QED
  BY <1>1, <1>2, <1>3 DEF TypeOK

\* The handler of vote requests keeps the types.
LEMMA VoteRequestType ==
  ASSUME TypeOK, NEW m \in msgs,
         ProcessPreVoteRequest(m) \/ GrantVote(m) \/ RefuseVote(m)
  PROVE  TypeOK'
<1> DEFINE i == m.dst
<1>1. m \in Message /\ i \in Server /\ m.src \in Server
  BY MessageKinds DEF TypeOK, NetworkType
<1>2. m \in VoteRequest /\ m.proposed_term \in Nat
  <2>1. m.type \in {"PRE_VOTE_REQUEST", "VOTE_REQUEST"}
    BY DEF ProcessPreVoteRequest, GrantVote, RefuseVote
  <2>2. m \in VoteRequest
    BY <1>1, <2>1, MessageKinds
  <2> QED
    BY <2>2 DEF VoteRequest
<1>3. \A granted \in BOOLEAN : \A type \in {"PRE_VOTE_REPLY", "VOTE_REPLY"} :
        {VoteReplyTo(i, m, type, granted)} \subseteq Message
  BY <1>2, VoteReplyType
<1>4. VoteDecide(i, m) \in BOOLEAN /\ PreVoteDecide(i, m) \in BOOLEAN
  BY DEF VoteDecide, PreVoteDecide
<1>5. NetworkType'
  <2>1. \E granted \in BOOLEAN : \E type \in {"PRE_VOTE_REPLY", "VOTE_REPLY"} :
          Transmit({m}, {VoteReplyTo(i, m, type, granted)})
    BY <1>4 DEF ProcessPreVoteRequest, GrantVote, RefuseVote
  <2>2. PICK granted \in BOOLEAN, type \in {"PRE_VOTE_REPLY", "VOTE_REPLY"} :
          Transmit({m}, {VoteReplyTo(i, m, type, granted)})
    BY <2>1
  <2> QED
    BY <1>3, <2>2, TransmitType DEF TypeOK, NetworkType
<1>6. StateType'
  BY <1>1 DEF TypeOK, StateType, ProcessPreVoteRequest, GrantVote, RefuseVote
<1>7. HeaderType' /\ LogType'
  <2>1. CASE GrantVote(m)
    BY <1>1, <1>2, <2>1, LogHeaderWriteType DEF TypeOK, GrantVote
  <2>2. CASE ProcessPreVoteRequest(m) \/ RefuseVote(m)
    <3>1. Len(log[i]) \in Nat
      BY <1>1 DEF TypeOK, LogType
    <3>2. /\ synced' = [synced EXCEPT ![i] = Len(log[i])]
          /\ UNCHANGED log /\ UNCHANGED <<rlh_term, rlh_voted_for>>
      BY <2>2 DEF ProcessPreVoteRequest, RefuseVote, hdrVars
    <3> QED
      BY <1>1, <3>1, <3>2 DEF TypeOK, HeaderType, LogType
  <2> QED
    BY <2>1, <2>2
<1>8. CandidateType' /\ LeaderType' /\ BoundType'
  BY DEF TypeOK, CandidateType, LeaderType, BoundType, ProcessPreVoteRequest,
         GrantVote, RefuseVote, candVars, rfiVars, boundVars
<1> QED
  BY <1>5, <1>6, <1>7, <1>8 DEF TypeOK

\* The handler of vote replies keeps the types.
LEMMA VoteReplyStepType ==
  ASSUME TypeOK, NEW m \in msgs,
         \/ IgnoreVoteReply(m) \/ RegisterVote(m) \/ VoteReplyDeposes(m)
         \/ BecomeCandidate(m) \/ BecomeLeader(m)
  PROVE  TypeOK'
<1> DEFINE i == m.dst
<1>1. m \in Message /\ i \in Server /\ m.src \in Server
  BY MessageKinds DEF TypeOK, NetworkType
<1>2. m \in VoteReply /\ m.term \in Nat /\ m.current_leader \in Server \cup {None}
  <2>1. m.type \in {"PRE_VOTE_REPLY", "VOTE_REPLY"}
    BY DEF IgnoreVoteReply, RegisterVote, VoteReplyDeposes, BecomeCandidate,
           BecomeLeader
  <2>2. m \in VoteReply
    BY <1>1, <2>1, MessageKinds
  <2> QED
    BY <2>2 DEF VoteReply
<1>3. Results(m) \in [Server -> {"unknown", "yes", "no"}]
  BY <1>1 DEF TypeOK, CandidateType, Results
<1>4. msgs \ {m} \subseteq Message
  BY DEF TypeOK, NetworkType
<1>5. CASE IgnoreVoteReply(m)
  BY <1>4, <1>5, StutterType DEF NetworkType, IgnoreVoteReply
<1>6. CASE RegisterVote(m)
  <2>1. CandidateType'
    BY <1>1, <1>3, <1>6 DEF TypeOK, CandidateType, RegisterVote
  <2>2. NetworkType'
    BY <1>4, <1>6 DEF NetworkType, RegisterVote
  <2> QED
    BY <1>6, <2>1, <2>2
       DEF TypeOK, StateType, HeaderType, LogType, LeaderType, BoundType,
           RegisterVote, hdrVars, logVars, rfiVars, boundVars
<1>7. CASE VoteReplyDeposes(m)
  <2>1. CandidateType'
    BY <1>1, <1>3, <1>7 DEF TypeOK, CandidateType, VoteReplyDeposes
  <2>2. NetworkType'
    BY <1>4, <1>7 DEF NetworkType, VoteReplyDeposes
  <2>3. HeaderType' /\ LogType'
    BY <1>1, <1>2, <1>7, LogHeaderWriteType DEF TypeOK, VoteReplyDeposes
  <2>4. StateType'
    BY <1>1, <1>2, <1>7 DEF TypeOK, StateType, VoteReplyDeposes
  <2> QED
    BY <1>7, <2>1, <2>2, <2>3, <2>4
       DEF TypeOK, LeaderType, BoundType, VoteReplyDeposes, rfiVars, boundVars
<1>8. CASE BecomeCandidate(m)
  <2>1. rlh_term[i] + 1 \in Nat
    BY <1>1 DEF TypeOK, HeaderType
  <2>2. CandidateType'
    BY <1>1, <1>8, <2>1 DEF TypeOK, CandidateType, BecomeCandidate, SelfVote
  <2>3. NetworkType'
    <3>1. VoteRequests(i, "VOTE_REQUEST", LastIdx(log[i]),
                       EntryAt(log[i], LastIdx(log[i])).term) \subseteq Message
      BY <1>1, SyncType, VoteRequestsType DEF TypeOK
    <3> QED
      BY <1>8, <3>1, TransmitType DEF TypeOK, NetworkType, BecomeCandidate
  <2>4. HeaderType' /\ LogType'
    BY <1>1, <1>8, <2>1, LogHeaderWriteType DEF TypeOK, BecomeCandidate
  <2>5. StateType'
    BY <1>1, <1>8 DEF TypeOK, StateType, BecomeCandidate
  <2> QED
    BY <1>8, <2>2, <2>3, <2>4, <2>5
       DEF TypeOK, LeaderType, BoundType, BecomeCandidate, rfiVars, boundVars
<1>9. CASE BecomeLeader(m)
  <2>1. CandidateType'
    BY <1>1, <1>3, <1>9 DEF TypeOK, CandidateType, BecomeLeader
  <2>2. NetworkType'
    BY <1>4, <1>9 DEF NetworkType, BecomeLeader
  <2>3. LogType'
    <3> DEFINE e == [term |-> rlh_term[i], data |-> Marker]
    <3>1. e \in Entry
      BY <1>1 DEF TypeOK, HeaderType, Entry
    <3> QED
      BY <1>1, <1>9, <3>1, WriteType DEF TypeOK, BecomeLeader
  <2>4. StateType'
    BY <1>1, <1>9 DEF TypeOK, StateType, BecomeLeader
  <2>5. LeaderType'
    <3>1. SyncIdx(i) \in Int /\ SyncIdx(i) + 1 \in Nat
      BY <1>1, SyncType DEF TypeOK
    <3>2. /\ [j \in Server |-> SyncIdx(i) + 1] \in [Server -> Nat]
          /\ [j \in Server |-> -1] \in [Server -> Int]
      BY <3>1
    <3> QED
      BY <1>1, <1>9, <3>1, <3>2 DEF TypeOK, LeaderType, BecomeLeader
  <2> QED
    BY <1>9, <2>1, <2>2, <2>3, <2>4, <2>5
       DEF TypeOK, HeaderType, BoundType, BecomeLeader, hdrVars, boundVars
<1> QED
  BY <1>5, <1>6, <1>7, <1>8, <1>9
-----------------------------------------------------------------------------
(* Log replication keeps the types *)

\* An AE request built from a leader's tables is a message; one with an entry
\* is built only for an index the log has.
LEMMA AppendRequestType ==
  ASSUME TypeOK, NEW i \in Server, NEW j \in Server, NEW hb \in BOOLEAN,
         ~hb => rfi_next_idx[i][j] <= LastIdx(log[i])
  PROVE  /\ RefreshedTerm(i, j) \in Int
         /\ AppendRequestTo(i, j, hb) \in Message
<1> DEFINE next == rfi_next_idx[i][j]
<1>1. /\ log[i] \in Seq(Entry) /\ LastIdx(log[i]) \in Int
      /\ next \in Nat /\ next - 1 \in Int
      /\ rfi_current_idx_term[i][j] \in Int /\ ri_commit_idx[i] \in Int
      /\ rlh_term[i] \in Nat
  <2>1. log[i] \in Seq(Entry) /\ LastIdx(log[i]) \in Int
    BY DEF TypeOK, LogType, LastIdx
  <2>2. /\ next \in Nat /\ rfi_current_idx_term[i][j] \in Int
        /\ ri_commit_idx[i] \in Int
    BY DEF TypeOK, LeaderType
  <2>3. rlh_term[i] \in Nat
    BY DEF TypeOK, HeaderType
  <2> QED
    BY <2>1, <2>2, <2>3
<1>2. EntryAt(log[i], next).term \in Nat
  BY <1>1, EntryAtType
<1>3. RefreshedTerm(i, j) \in Int
  BY <1>1, <1>2 DEF RefreshedTerm
<1>4. EntryAt(log[i], next - 1) \in Entry \cup {NullEntry}
  BY <1>1, EntryAtType
<1>5. CASE hb
  BY <1>1, <1>3, <1>4, <1>5 DEF AppendRequestTo, Message, AppendRequest
<1>6. CASE ~hb
  <2>1. next \in 0 .. LastIdx(log[i])
    BY <1>1, <1>6
  <2>2. EntryAt(log[i], next) \in Entry
    BY <1>1, <2>1, EntryAtType
  <2>3. EntryAt(log[i], next).data \in Value \cup {Marker}
    BY <2>2 DEF Entry
  <2>4. RefreshedTerm(i, j) \in Nat
    BY <1>2, <1>6 DEF RefreshedTerm
  <2> QED
    BY <1>1, <1>3, <1>4, <1>6, <2>3, <2>4
       DEF AppendRequestTo, Message, AppendRequest
<1> QED
  BY <1>3, <1>5, <1>6

\* The leader's sender of AE requests keeps the types.
LEMMA AppendSenderType ==
  ASSUME TypeOK, NEW i \in Server, Heartbeat(i) \/ RemoteSend(i)
  PROVE  TypeOK'
<1>1. PICK to \in SUBSET Peers(i), hb \in BOOLEAN :
        /\ AppendEntrySender(i, to, hb)
        /\ ~hb => \A j \in to : rfi_next_idx[i][j] <= LastIdx(log[i])
  <2>1. CASE Heartbeat(i)
    BY <2>1 DEF Heartbeat
  <2>2. CASE RemoteSend(i)
    BY <2>2 DEF RemoteSend
  <2> QED
    BY <2>1, <2>2
<1>2. \A j \in to : /\ RefreshedTerm(i, j) \in Int
                    /\ AppendRequestTo(i, j, hb) \in Message
  <2> SUFFICES ASSUME NEW j \in to
               PROVE  /\ RefreshedTerm(i, j) \in Int
                      /\ AppendRequestTo(i, j, hb) \in Message
    OBVIOUS
  <2>1. j \in Server
    BY DEF Peers
  <2> QED
    BY <1>1, <2>1, AppendRequestType
<1>3. {AppendRequestTo(i, j, hb) : j \in to} \subseteq Message
  BY <1>2
<1>4. NetworkType'
  BY <1>1, <1>3, TransmitType DEF TypeOK, NetworkType, AppendEntrySender
<1>5. rfi_current_idx_term' \in [Server -> [Server -> Int]]
  <2>1. rfi_current_idx_term[i] \in [Server -> Int]
    BY DEF TypeOK, LeaderType
  <2>2. [j \in Server |-> IF j \in to THEN RefreshedTerm(i, j)
                          ELSE rfi_current_idx_term[i][j]] \in [Server -> Int]
    BY <1>2, <2>1
  <2> QED
    BY <1>1, <2>2 DEF TypeOK, LeaderType, AppendEntrySender
<1> QED
  BY <1>1, <1>4, <1>5
     DEF TypeOK, StateType, HeaderType, CandidateType, LogType, LeaderType,
         BoundType, AppendEntrySender, hdrVars, candVars, logVars, boundVars

\* What the receiver's helpers return.
LEMMA PrepareType ==
  ASSUME TypeOK, NEW m \in AppendRequest, NEW i \in Server,
         FatalOf(i, m) = "none"
  PROVE  /\ PrunedLog(i, m) \in Seq(Entry)
         /\ Len(PrunedLog(i, m)) \in Nat
         /\ SyncedAfterPrepare(i, m) \in Nat
         /\ SyncedAfterPrepare(i, m) <= Len(PrunedLog(i, m))
         /\ Writes(i, m) => [term |-> m.log_term, data |-> m.data] \in Entry
<1>1. /\ log[i] \in Seq(Entry) /\ Len(log[i]) \in Nat
      /\ synced[i] \in Nat /\ synced[i] <= Len(log[i])
  BY DEF TypeOK, LogType
<1>2. m.prev_log_index \in Int
  BY DEF AppendRequest
<1>3. PrunedLog(i, m) \in Seq(Entry)
  <2>1. CASE Prunes(i, m)
    <3>1. m.prev_log_index + 1 <= Len(log[i])
      BY <1>1, <1>2, <2>1 DEF Prunes, Ahead, LastIdx
    <3>2. SubSeq(log[i], 1, m.prev_log_index + 1) \in Seq(Entry)
      BY <1>1, <1>2, <3>1
    <3> QED
      BY <2>1, <3>2 DEF PrunedLog
  <2>2. CASE ~Prunes(i, m)
    BY <1>1, <2>2 DEF PrunedLog
  <2> QED
    BY <2>1, <2>2
<1>4. Len(PrunedLog(i, m)) \in Nat
  BY <1>3
<1>5. ~Prunes(i, m) => PrunedLog(i, m) = log[i]
  BY DEF PrunedLog
<1>6. /\ SyncedAfterPrepare(i, m) \in Nat
      /\ SyncedAfterPrepare(i, m) <= Len(PrunedLog(i, m))
  BY <1>1, <1>4, <1>5 DEF SyncedAfterPrepare
<1>7. Writes(i, m) => [term |-> m.log_term, data |-> m.data] \in Entry
  BY DEF Writes, AppendRequest, Entry
<1> QED
  BY <1>3, <1>4, <1>6, <1>7

\* An AE reply is a message.
LEMMA AppendReplyType ==
  ASSUME NEW m \in AppendRequest, NEW i \in Server, NEW term \in Nat,
         NEW syncIdx \in Int, NEW stale \in BOOLEAN, NEW nonmatch \in BOOLEAN,
         NEW ok \in BOOLEAN
  PROVE  AppendReplyTo(i, m, term, syncIdx, stale, nonmatch, ok) \in Message
<1>1. /\ m.src \in Server /\ m.prev_log_index \in Int
      /\ m.heartbeat \in BOOLEAN /\ m.leader_term \in Nat
  BY DEF AppendRequest
<1> QED
  BY <1>1 DEF AppendReplyTo, Message, AppendReply

\* The handler of AE requests keeps the types.
LEMMA AppendRequestStepType ==
  ASSUME TypeOK, NEW m \in msgs,
         AppendStale(m) \/ AppendAccept(m) \/ AppendAbort(m)
  PROVE  TypeOK'
<1> DEFINE i == m.dst
<1>1. m \in Message /\ i \in Server /\ m.src \in Server
  BY MessageKinds DEF TypeOK, NetworkType
<1>2. m \in AppendRequest
  <2>1. m.type = "APPEND_ENTRIES_REQUEST"
    BY DEF AppendStale, AppendAccept, AppendAbort
  <2> QED
    BY <1>1, <2>1, MessageKinds
<1>3. /\ m.leader_term \in Nat /\ m.commit_index \in Int
      /\ m.prev_log_index \in Int
  BY <1>2 DEF AppendRequest
<1>4. /\ rlh_term[i] \in Nat /\ Len(log[i]) \in Nat /\ SyncIdx(i) \in Int
      /\ ri_commit_idx[i] \in Int
  <2>1. rlh_term[i] \in Nat
    BY <1>1 DEF TypeOK, HeaderType
  <2>2. Len(log[i]) \in Nat
    BY <1>1 DEF TypeOK, LogType
  <2>3. SyncIdx(i) \in Int
    BY <1>1, SyncType DEF TypeOK
  <2>4. ri_commit_idx[i] \in Int
    BY <1>1 DEF TypeOK, LeaderType
  <2> QED
    BY <2>1, <2>2, <2>3, <2>4
<1>5. CASE AppendStale(m)
  <2>1. AppendReplyTo(i, m, rlh_term[i], SyncIdx(i), TRUE, FALSE, FALSE)
          \in Message
    BY <1>1, <1>2, <1>4, AppendReplyType
  <2>2. NetworkType'
    BY <1>5, <2>1, TransmitType DEF TypeOK, NetworkType, AppendStale
  <2> QED
    BY <1>5, <2>2, StutterType DEF AppendStale
<1>6. CASE AppendAbort(m)
  <2>1. StateType'
    <3>1. FatalOf(i, m) \in {"none", "not_follower", "already_crc",
             "already_prev", "prune_committed", "prune_all", "entry_term"}
      BY DEF FatalOf
    <3> QED
      BY <1>1, <1>6, <3>1
         DEF TypeOK, StateType, AppendAbort, Abort, AdoptTerm
  <2>2. LogType'
    BY <1>1, <1>4, <1>6 DEF TypeOK, LogType, AppendAbort
  <2>3. NetworkType'
    BY <1>6 DEF TypeOK, NetworkType, AppendAbort
  <2>4. HeaderType'
    BY <1>1, <1>3, <1>6 DEF TypeOK, HeaderType, AppendAbort, AdoptTerm
  <2> QED
    BY <1>6, <2>1, <2>2, <2>3, <2>4
       DEF TypeOK, CandidateType, LeaderType, BoundType, AppendAbort, candVars,
           rfiVars, boundVars
<1>7. CASE AppendAccept(m)
  <2> DEFINE L == PrunedLog(i, m)
             L2 == IF Writes(i, m)
                   THEN Append(L, [term |-> m.log_term, data |-> m.data])
                   ELSE L
             s == SyncedAfterAppend(i, m)
  <2>1. /\ L \in Seq(Entry) /\ Len(L) \in Nat
        /\ SyncedAfterPrepare(i, m) \in Nat
        /\ SyncedAfterPrepare(i, m) <= Len(L)
        /\ Writes(i, m) => [term |-> m.log_term, data |-> m.data] \in Entry
    BY <1>1, <1>2, <1>7, PrepareType DEF AppendAccept
  <2>2. L2 \in Seq(Entry) /\ Len(L2) = Len(L) + IF Writes(i, m) THEN 1 ELSE 0
    BY <2>1
  <2>3. s \in Nat /\ s <= Len(L2)
    BY <2>1, <2>2 DEF SyncedAfterAppend, SyncedAfterWrite
  <2>4. LogType'
    <3>1. log' = [log EXCEPT ![i] = L2] /\ synced' = [synced EXCEPT ![i] = s]
      BY <1>7 DEF AppendAccept
    <3> HIDE DEF L2, s
    <3> QED
      BY <1>1, <2>2, <2>3, <3>1 DEF TypeOK, LogType
  <2>5. LeaderType'
    <3>1. CommitAfterAppend(i, m) \in Int
      BY <1>3, <1>4, <2>3 DEF CommitAfterAppend, AdvanceCommitIdx, Min2
    <3> QED
      BY <1>1, <1>7, <3>1 DEF TypeOK, LeaderType, AppendAccept, rfiVars
  <2>6. StateType'
    BY <1>1, <1>7
       DEF TypeOK, StateType, AppendAccept, AdoptTerm, StateAfterTermCheck
  <2>7. HeaderType'
    BY <1>1, <1>3, <1>7 DEF TypeOK, HeaderType, AppendAccept, AdoptTerm
  <2>8. NetworkType'
    <3> DEFINE nonmatch == PrepareRc(i, m) \in {"ERANGE", "EEXIST"}
               ok == PrepareRc(i, m) = "OK"
    <3>1. s - 1 \in Int
      BY <2>3
    <3>2. AppendReplyTo(i, m, m.leader_term, s - 1, FALSE, nonmatch, ok)
            \in Message
      <4>1. nonmatch \in BOOLEAN /\ ok \in BOOLEAN
        OBVIOUS
      <4> HIDE DEF nonmatch, ok, s
      <4> QED
        BY <1>1, <1>2, <1>3, <3>1, <4>1, AppendReplyType
    <3> QED
      <4>1. Transmit({m}, {AppendReplyTo(i, m, m.leader_term, s - 1, FALSE,
                                         nonmatch, ok)})
        BY <1>7 DEF AppendAccept
      <4> HIDE DEF nonmatch, ok, s
      <4> QED
        BY <3>2, <4>1, TransmitType DEF TypeOK, NetworkType
  <2> QED
    BY <1>7, <2>4, <2>5, <2>6, <2>7, <2>8
       DEF TypeOK, CandidateType, BoundType, AppendAccept, candVars, boundVars
<1> QED
  BY <1>5, <1>6, <1>7

\* The leader's tally is an index whatever the tables hold.
LEMMA TallyType ==
  ASSUME TypeOK, NEW i \in Server, NEW ackd \in [Server -> Int],
         NEW syncd \in [Server -> Int]
  PROVE  TallyCommit(i, ackd, syncd) \in Int
<1> DEFINE value == [j \in Server |-> IF j = i THEN SyncIdx(i)
                                      ELSE Min2(ackd[j], syncd[j])]
<1>1. SyncIdx(i) \in Int
  BY SyncType DEF TypeOK
<1>2. value \in [Server -> Int]
  BY <1>1 DEF Min2
<1>3. MajorityEntryIdx(value) \in Int
  <2> HIDE DEF value
  <2> QED
    BY <1>2, MajorityReached
<1>4. CommittedIdx(i, ackd, syncd) \in Int
  BY <1>3 DEF CommittedIdx
<1>5. ri_commit_idx[i] \in Int
  BY DEF TypeOK, LeaderType
<1> QED
  BY <1>4, <1>5 DEF TallyCommit, AdvanceCommitIdx

\* Counting a follower's acknowledgement keeps the leader's tables typed.
LEMMA UpdateSyncIdxType ==
  ASSUME TypeOK, NEW i \in Server, NEW j \in Server, NEW next \in Int,
         NEW sli \in Int, NEW term, TryUpdateFollowerSyncIdx(i, j, next, term, sli)
  PROVE  /\ rfi_ackd_idx' \in [Server -> [Server -> Int]]
         /\ rfi_synced_idx' \in [Server -> [Server -> Int]]
         /\ ri_commit_idx' \in [Server -> Int]
<1> DEFINE accept == term = SyncTerm(i) /\ rfi_synced_idx[i][j] <= next
           ackd == IF accept
                   THEN [rfi_ackd_idx[i] EXCEPT ![j] = Max2(@, next - 1)]
                   ELSE rfi_ackd_idx[i]
           syncd == IF accept
                    THEN [rfi_synced_idx[i] EXCEPT ![j] = Max2(@, sli)]
                    ELSE rfi_synced_idx[i]
           idx == IF ackd # rfi_ackd_idx[i] \/ syncd # rfi_synced_idx[i]
                  THEN TallyCommit(i, ackd, syncd) ELSE ri_commit_idx[i]
<1>1. /\ rfi_ackd_idx \in [Server -> [Server -> Int]]
      /\ rfi_synced_idx \in [Server -> [Server -> Int]]
      /\ ri_commit_idx \in [Server -> Int]
  BY DEF TypeOK, LeaderType
<1>2. ackd \in [Server -> Int] /\ syncd \in [Server -> Int]
  <2> HIDE DEF accept
  <2> QED
    BY <1>1 DEF Max2
<1>3. idx \in Int
  <2> HIDE DEF ackd, syncd
  <2> QED
    BY <1>1, <1>2, TallyType
<1>4. /\ rfi_ackd_idx' = [rfi_ackd_idx EXCEPT ![i] = ackd]
      /\ rfi_synced_idx' = [rfi_synced_idx EXCEPT ![i] = syncd]
      /\ ri_commit_idx' = [ri_commit_idx EXCEPT ![i] = idx]
  BY <1>1 DEF TryUpdateFollowerSyncIdx
<1> HIDE DEF ackd, syncd, idx
<1> QED
  BY <1>1, <1>2, <1>3, <1>4

\* The handlers of AE replies keep the types: next-idx stays a natural number.
LEMMA AppendReplyStepType ==
  ASSUME TypeOK, NEW m \in msgs,
         \/ IgnoreAppendReply(m) \/ AppendReplyDeposes(m)
         \/ AppendReplyMismatch(m) \/ AppendReplyOk(m)
  PROVE  TypeOK'
<1> DEFINE i == m.dst
           next == rfi_next_idx[i][m.src]
<1>1. m \in Message /\ i \in Server /\ m.src \in Server
  BY MessageKinds DEF TypeOK, NetworkType
<1>2. m \in AppendReply
  <2>1. m.type = "APPEND_ENTRIES_REPLY"
    BY DEF IgnoreAppendReply, AppendReplyDeposes, AppendReplyMismatch,
           AppendReplyOk
  <2> QED
    BY <1>1, <2>1, MessageKinds
<1>3. m.leader_term \in Nat /\ m.synced_log_index \in Int
  BY <1>2 DEF AppendReply
<1>4. msgs \ {m} \subseteq Message
  BY DEF TypeOK, NetworkType
<1>5. rfi_next_idx \in [Server -> [Server -> Nat]] /\ next \in Nat
  BY <1>1 DEF TypeOK, LeaderType
<1>6. CASE IgnoreAppendReply(m)
  BY <1>4, <1>6, StutterType DEF NetworkType, IgnoreAppendReply
<1>7. CASE AppendReplyDeposes(m)
  <2>1. StateType'
    BY <1>1, <1>7 DEF TypeOK, StateType, AppendReplyDeposes
  <2>2. HeaderType' /\ LogType'
    BY <1>1, <1>3, <1>7, LogHeaderWriteType DEF TypeOK, AppendReplyDeposes
  <2>3. NetworkType'
    BY <1>4, <1>7 DEF NetworkType, AppendReplyDeposes
  <2> QED
    BY <1>7, <2>1, <2>2, <2>3
       DEF TypeOK, CandidateType, LeaderType, BoundType, AppendReplyDeposes,
           candVars, rfiVars, boundVars
<1>8. CASE AppendReplyMismatch(m)
  <2> DEFINE new == IF next = 0 \/ m.newly_initialized THEN 0
                    ELSE IF m.synced_log_index >= 0 /\ m.synced_log_index < next
                         THEN m.synced_log_index ELSE next - 1
  <2>1. new \in Nat
    BY <1>3, <1>5
  <2>2. rfi_next_idx' = [rfi_next_idx EXCEPT ![i][m.src] = new]
    BY <1>8 DEF AppendReplyMismatch
  <2>3. rfi_next_idx' \in [Server -> [Server -> Nat]]
    <3> HIDE DEF new
    <3> QED
      BY <1>1, <1>5, <2>1, <2>2
  <2>4. LeaderType'
    BY <1>8, <2>3 DEF TypeOK, LeaderType, AppendReplyMismatch
  <2>5. NetworkType'
    BY <1>4, <1>8 DEF NetworkType, AppendReplyMismatch
  <2> QED
    BY <1>8, <2>4, <2>5
       DEF TypeOK, StateType, HeaderType, CandidateType, LogType, BoundType,
           AppendReplyMismatch, hdrVars, candVars, logVars, boundVars
<1>9. CASE AppendReplyOk(m)
  <2> DEFINE new == next + IF m.heartbeat THEN 0 ELSE 1
  <2>1. new \in Nat /\ new \in Int
    BY <1>5
  <2>2. /\ rfi_next_idx' = [rfi_next_idx EXCEPT ![i][m.src] = new]
        /\ TryUpdateFollowerSyncIdx(i, m.src, new, m.leader_term,
                                    m.synced_log_index)
    BY <1>9 DEF AppendReplyOk
  <2> HIDE DEF new
  <2>3. rfi_next_idx' \in [Server -> [Server -> Nat]]
    BY <1>1, <1>5, <2>1, <2>2
  <2>4. /\ rfi_ackd_idx' \in [Server -> [Server -> Int]]
        /\ rfi_synced_idx' \in [Server -> [Server -> Int]]
        /\ ri_commit_idx' \in [Server -> Int]
    BY <1>1, <1>3, <2>1, <2>2, UpdateSyncIdxType
  <2>5. LeaderType'
    BY <1>9, <2>3, <2>4 DEF TypeOK, LeaderType, AppendReplyOk
  <2>6. NetworkType'
    BY <1>4, <1>9 DEF NetworkType, AppendReplyOk
  <2> QED
    BY <1>9, <2>5, <2>6
       DEF TypeOK, StateType, HeaderType, CandidateType, LogType, BoundType,
           AppendReplyOk, hdrVars, candVars, logVars, boundVars
<1> QED
  BY <1>6, <1>7, <1>8, <1>9

\* The handler of sync-idx updates keeps the types.
LEMMA SyncStepType ==
  ASSUME TypeOK, NEW m \in msgs, SyncStep(m)
  PROVE  TypeOK'
<1> DEFINE i == m.dst
<1>1. m \in Message /\ i \in Server /\ m.src \in Server
  BY MessageKinds DEF TypeOK, NetworkType
<1>2. m \in SyncIdxUpdate
  <2>1. m.type = "SYNC_IDX_UPDATE"
    BY DEF SyncStep, ProcessSyncIdxUpdate, IgnoreSyncIdxUpdate
  <2> QED
    BY <1>1, <2>1, MessageKinds
<1>3. msgs \ {m} \subseteq Message
  BY DEF TypeOK, NetworkType
<1>4. CASE IgnoreSyncIdxUpdate(m)
  BY <1>3, <1>4, StutterType DEF NetworkType, IgnoreSyncIdxUpdate
<1>5. CASE ProcessSyncIdxUpdate(m)
  <2>1. m.synced_log_index \in Int /\ rfi_next_idx[i][m.src] \in Int
    <3>1. m.synced_log_index \in Int
      BY <1>2 DEF SyncIdxUpdate
    <3>2. rfi_next_idx[i][m.src] \in Nat
      BY <1>1 DEF TypeOK, LeaderType
    <3> QED
      BY <3>1, <3>2
  <2>2. TryUpdateFollowerSyncIdx(i, m.src, rfi_next_idx[i][m.src], m.term,
                                 m.synced_log_index)
    BY <1>5 DEF ProcessSyncIdxUpdate
  <2>3. /\ rfi_ackd_idx' \in [Server -> [Server -> Int]]
        /\ rfi_synced_idx' \in [Server -> [Server -> Int]]
        /\ ri_commit_idx' \in [Server -> Int]
    BY <1>1, <2>1, <2>2, UpdateSyncIdxType
  <2>4. LeaderType'
    BY <1>5, <2>3 DEF TypeOK, LeaderType, ProcessSyncIdxUpdate
  <2>5. NetworkType'
    BY <1>3, <1>5 DEF NetworkType, ProcessSyncIdxUpdate
  <2> QED
    BY <1>5, <2>4, <2>5
       DEF TypeOK, StateType, HeaderType, CandidateType, LogType, BoundType,
           ProcessSyncIdxUpdate, hdrVars, candVars, logVars, boundVars
<1> QED
  BY <1>4, <1>5 DEF SyncStep

\* Client writes, the sync thread and the event pipes keep the types.
LEMMA LocalStepType ==
  ASSUME TypeOK, NEW i \in Server, LocalStep(i)
  PROVE  TypeOK'
<1>1. CASE RemoteSend(i)
  BY <1>1, AppendSenderType
<1>2. CASE \E v \in Value : ClientWrite(i, v)
  <2>1. PICK v \in Value : ClientWrite(i, v)
    BY <1>2
  <2>2. LogType'
    <3> DEFINE e == [term |-> rlh_term[i], data |-> v]
    <3>1. e \in Entry
      BY DEF TypeOK, HeaderType, Entry
    <3> QED
      BY <2>1, <3>1, WriteType DEF TypeOK, ClientWrite
  <2> QED
    BY <2>1, <2>2
       DEF TypeOK, StateType, HeaderType, CandidateType, LeaderType,
           NetworkType, BoundType, ClientWrite, hdrVars, candVars, rfiVars,
           boundVars
<1>3. CASE SyncThread(i)
  <2>1. Len(log[i]) \in Nat
    BY DEF TypeOK, LogType
  <2>2. PICK n \in synced[i] + 1 .. Len(log[i]) :
          synced' = [synced EXCEPT ![i] = n]
    BY <1>3 DEF SyncThread
  <2>3. n \in Nat /\ n <= Len(log[i])
    BY <2>1, <2>2 DEF TypeOK, LogType
  <2>4. LogType'
    BY <1>3, <2>2, <2>3 DEF TypeOK, LogType, SyncThread
  <2> QED
    BY <1>3, <2>4
       DEF TypeOK, StateType, HeaderType, CandidateType, LeaderType,
           NetworkType, BoundType, SyncThread, hdrVars, candVars, rfiVars,
           boundVars
<1>4. CASE SendSyncIdx(i)
  <2> DEFINE u == [type |-> "SYNC_IDX_UPDATE", src |-> i,
                   dst |-> ri_csn_leader[i], term |-> SyncTerm(i),
                   synced_log_index |-> SyncIdx(i)]
  <2>1. ri_csn_leader[i] \in Server
    BY <1>4 DEF TypeOK, StateType, SendSyncIdx
  <2>2. SyncTerm(i) \in Nat /\ SyncIdx(i) \in Int
    BY SyncType DEF TypeOK
  <2>3. u \in Message
    BY <2>1, <2>2 DEF Message, SyncIdxUpdate
  <2>4. Transmit({}, {u})
    BY <1>4 DEF SendSyncIdx
  <2> HIDE DEF u
  <2>5. NetworkType'
    BY <2>3, <2>4, TransmitType DEF TypeOK, NetworkType
  <2> QED
    BY <1>4, <2>5, StutterType DEF SendSyncIdx
<1>5. CASE CommitIdxAdv(i)
  <2>1. TallyCommit(i, rfi_ackd_idx[i], rfi_synced_idx[i]) \in Int
    BY TallyType DEF TypeOK, LeaderType
  <2>2. LeaderType'
    BY <1>5, <2>1 DEF TypeOK, LeaderType, CommitIdxAdv, rfiVars
  <2> QED
    BY <1>5, <2>2
       DEF TypeOK, StateType, HeaderType, CandidateType, LogType, NetworkType,
           BoundType, CommitIdxAdv, hdrVars, candVars, logVars, boundVars
<1> QED
  BY <1>1, <1>2, <1>3, <1>4, <1>5 DEF LocalStep

\* A restart keeps a prefix of the log that is no shorter than what was synced.
LEMMA RestartType ==
  ASSUME TypeOK, NEW i \in Server, Restart(i)
  PROVE  TypeOK'
<1>1. PICK n \in synced[i] .. Len(log[i]) :
        /\ log' = [log EXCEPT ![i] = SubSeq(@, 1, n)]
        /\ synced' = [synced EXCEPT ![i] = n]
  BY DEF Restart
<1>2. log[i] \in Seq(Entry) /\ synced[i] \in Nat /\ Len(log[i]) \in Nat
  BY DEF TypeOK, LogType
<1>3. n \in Nat /\ n <= Len(log[i])
  BY <1>2
<1>4. SubSeq(log[i], 1, n) \in Seq(Entry) /\ Len(SubSeq(log[i], 1, n)) = n
  BY <1>2, <1>3
<1>5. LogType'
  BY <1>1, <1>3, <1>4 DEF TypeOK, LogType
<1>6. StateType' /\ HeaderType' /\ LeaderType' /\ NetworkType' /\ BoundType'
  BY SMTT(40) DEF TypeOK, StateType, HeaderType, LeaderType, NetworkType, BoundType,
         Restart, hdrVars, rfiVars
<1>7. CandidateType'
  BY DEF TypeOK, CandidateType, Restart
<1> QED
  BY <1>5, <1>6, <1>7 DEF TypeOK

-----------------------------------------------------------------------------

\* Every step keeps the types.
LEMMA NextType ==
  ASSUME TypeOK, [Next]_vars
  PROVE  TypeOK'
<1>1. ASSUME NEW i \in Server, TimerStep(i) PROVE TypeOK'
  BY <1>1, PreVoteType, AppendSenderType
     DEF TimerStep, ElectionTimeout, QuorumLoss
<1>2. ASSUME NEW i \in Server, LocalStep(i) \/ Restart(i) PROVE TypeOK'
  BY <1>2, LocalStepType, RestartType
<1>3. ASSUME NEW m \in msgs, VoteStep(m) PROVE TypeOK'
  BY <1>3, VoteRequestType, VoteReplyStepType DEF VoteStep
<1>4. ASSUME NEW m \in msgs, AppendStep(m) PROVE TypeOK'
  BY <1>4, AppendRequestStepType, AppendReplyStepType DEF AppendStep
<1>5. ASSUME NEW m \in msgs, SyncStep(m) PROVE TypeOK'
  BY <1>5, SyncStepType
<1>6. CASE UNCHANGED vars
  BY <1>6 DEF TypeOK, StateType, HeaderType, CandidateType, LogType,
              LeaderType, NetworkType, BoundType, vars, hdrVars, candVars,
              logVars, rfiVars, boundVars
<1> QED
  BY <1>1, <1>2, <1>3, <1>4, <1>5, <1>6 DEF Next

\* In every cluster, of any size and with any bounds, the server's variables
\* and messages keep their types and the SYNC header never passes the UNSYNC
\* one, the FATAL of raft_server_has_unsynced_entries().
THEOREM TypeCorrect == Spec => []TypeOK
<1>1. Init => TypeOK
  <2> SUFFICES ASSUME Init PROVE TypeOK
    OBVIOUS
  <2>1. StateType /\ HeaderType /\ CandidateType /\ NetworkType /\ BoundType
    BY DEF Init, StateType, HeaderType, CandidateType, NetworkType, BoundType
  <2>2. LogType /\ LeaderType
    BY DEF Init, LogType, LeaderType
  <2> QED
    BY <2>1, <2>2 DEF TypeOK
<1>2. TypeOK /\ [Next]_vars => TypeOK'
  BY NextType
<1> QED
  BY <1>1, <1>2, PTL DEF Spec

(***************************************************************************)
(* Elections are safe in every cluster if the network brings no vote reply *)
(* to a later candidacy.  A vote is followed from the voter's log header   *)
(* over the reply to the candidate's table: VotesWritten says that all     *)
(* traces of a vote agree.                                                 *)
(***************************************************************************)

\* Some trace of the vote of v for c in term t is left.
Backed(v, t, c) ==
  \/ \E m \in msgs : /\ m.type = "VOTE_REPLY" /\ m.voted_granted
                     /\ m.src = v /\ m.re = t /\ m.dst = c
  \/ /\ ri_state[c] \in {"candidate", "leader"}
     /\ rlh_term[c] = t /\ rcs_results[c][v] = "yes"
  \/ rlh_term[v] = t /\ rlh_voted_for[v] = c

\* Nobody votes for two candidates in a term.
OneVote ==
  \A v, c, d \in Server : \A t \in Nat : Backed(v, t, c) /\ Backed(v, t, d) => c = d

\* No vote is in a term that its voter has not reached.
NotAhead ==
  \A v, c \in Server : \A t \in Nat : Backed(v, t, c) => t <= rlh_term[v]

\* A leader has the votes of a majority in its table.
Led ==
  \A i \in Server :
    ri_state[i] = "leader" => IsMajority(YesVotes(rcs_results[i]))

\* The set of votes holds exactly the votes that left a trace.
LEMMA VotesAreBacked ==
  ASSUME TypeOK
  PROVE  /\ \A b \in Votes : \E v, c \in Server : \E t \in Nat :
              b = <<v, t, c>> /\ Backed(v, t, c)
         /\ \A v, c \in Server : \A t \in Nat :
              Backed(v, t, c) => <<v, t, c>> \in Votes
<1>1. \A m \in msgs : m.type = "VOTE_REPLY" =>
        m.src \in Server /\ m.dst \in Server /\ m.re \in Nat
  <2> SUFFICES ASSUME NEW m \in msgs, m.type = "VOTE_REPLY"
               PROVE  m.src \in Server /\ m.dst \in Server /\ m.re \in Nat
    OBVIOUS
  <2>1. m \in VoteReply
    BY MessageKinds DEF TypeOK, NetworkType
  <2> QED
    BY <2>1 DEF VoteReply
<1>2. /\ \A i \in Server : rlh_term[i] \in Nat
      /\ \A i \in Server : rlh_voted_for[i] \in Server \cup {None}
  BY DEF TypeOK, HeaderType
<1>3. ASSUME NEW b \in VotesSent
      PROVE  \E v, c \in Server : \E t \in Nat : b = <<v, t, c>> /\ Backed(v, t, c)
  <2>1. PICK m \in msgs : /\ m.type = "VOTE_REPLY" /\ m.voted_granted
                          /\ b = <<m.src, m.re, m.dst>>
    BY <1>3 DEF VotesSent
  <2>2. m.src \in Server /\ m.dst \in Server /\ m.re \in Nat
    BY <1>1, <2>1
  <2>3. Backed(m.src, m.re, m.dst)
    BY <2>1 DEF Backed
  <2> QED
    BY <2>1, <2>2, <2>3
<1>4. ASSUME NEW b \in VotesCounted
      PROVE  \E v, c \in Server : \E t \in Nat : b = <<v, t, c>> /\ Backed(v, t, c)
  <2>1. PICK c \in Server : /\ ri_state[c] \in {"candidate", "leader"}
                            /\ b \in {<<v, rlh_term[c], c>> :
                                        v \in YesVotes(rcs_results[c])}
    BY <1>4 DEF VotesCounted
  <2>2. PICK v \in YesVotes(rcs_results[c]) : b = <<v, rlh_term[c], c>>
    BY <2>1
  <2>3. v \in Server /\ rcs_results[c][v] = "yes"
    BY <2>2 DEF YesVotes
  <2>4. Backed(v, rlh_term[c], c)
    BY <2>1, <2>3 DEF Backed
  <2> QED
    BY <1>2, <2>2, <2>3, <2>4
<1>5. ASSUME NEW b \in VotesStored
      PROVE  \E v, c \in Server : \E t \in Nat : b = <<v, t, c>> /\ Backed(v, t, c)
  <2>1. PICK v \in Server : /\ rlh_voted_for[v] # None
                            /\ b = <<v, rlh_term[v], rlh_voted_for[v]>>
    BY <1>5 DEF VotesStored
  <2>2. rlh_voted_for[v] \in Server
    BY <1>2, <2>1
  <2>3. Backed(v, rlh_term[v], rlh_voted_for[v])
    BY DEF Backed
  <2> QED
    BY <1>2, <2>1, <2>2, <2>3
<1>6. ASSUME NEW v \in Server, NEW c \in Server, NEW t \in Nat, Backed(v, t, c)
      PROVE  <<v, t, c>> \in Votes
  <2>1. CASE \E m \in msgs : /\ m.type = "VOTE_REPLY" /\ m.voted_granted
                             /\ m.src = v /\ m.re = t /\ m.dst = c
    <3>1. <<v, t, c>> \in VotesSent
      BY <2>1 DEF VotesSent
    <3> QED
      BY <3>1 DEF Votes
  <2>2. CASE /\ ri_state[c] \in {"candidate", "leader"}
             /\ rlh_term[c] = t /\ rcs_results[c][v] = "yes"
    <3>1. v \in YesVotes(rcs_results[c])
      BY <2>2 DEF YesVotes
    <3>2. <<v, t, c>> \in VotesCounted
      BY <2>2, <3>1 DEF VotesCounted
    <3> QED
      BY <3>2 DEF Votes
  <2>3. CASE rlh_term[v] = t /\ rlh_voted_for[v] = c
    <3>1. <<v, t, c>> \in VotesStored
      BY <2>3, ServerAssumption DEF VotesStored
    <3> QED
      BY <3>1 DEF Votes
  <2> QED
    BY <1>6, <2>1, <2>2, <2>3 DEF Backed
<1> QED
  BY <1>3, <1>4, <1>5, <1>6 DEF Votes

\* VotesWritten says the same of the traces as of the set.
LEMMA WrittenVotes ==
  ASSUME TypeOK
  PROVE  VotesWritten <=> OneVote /\ NotAhead /\ Led
<1>1. ASSUME VotesWritten PROVE OneVote /\ NotAhead /\ Led
  <2>1. OneVote
    <3> SUFFICES ASSUME NEW v \in Server, NEW c \in Server, NEW d \in Server,
                        NEW t \in Nat, Backed(v, t, c), Backed(v, t, d)
                 PROVE  c = d
      BY DEF OneVote
    <3>1. <<v, t, c>> \in Votes /\ <<v, t, d>> \in Votes
      BY VotesAreBacked
    <3> QED
      BY <1>1, <3>1 DEF VotesWritten
  <2>2. NotAhead
    <3> SUFFICES ASSUME NEW v \in Server, NEW c \in Server, NEW t \in Nat,
                        Backed(v, t, c)
                 PROVE  t <= rlh_term[v]
      BY DEF NotAhead
    <3>1. <<v, t, c>> \in Votes
      BY VotesAreBacked
    <3> QED
      BY <1>1, <3>1 DEF VotesWritten
  <2> QED
    BY <1>1, <2>1, <2>2 DEF VotesWritten, Led
<1>2. ASSUME OneVote, NotAhead, Led PROVE VotesWritten
  <2>1. ASSUME NEW b \in Votes, NEW d \in Votes, b[1] = d[1], b[2] = d[2]
        PROVE  b[3] = d[3]
    <3>1. PICK v, c \in Server, t \in Nat : b = <<v, t, c>> /\ Backed(v, t, c)
      BY VotesAreBacked
    <3>2. PICK w, e \in Server, u \in Nat : d = <<w, u, e>> /\ Backed(w, u, e)
      BY VotesAreBacked
    <3>3. v = w /\ t = u
      BY <2>1, <3>1, <3>2
    <3>4. c = e
      BY <1>2, <3>1, <3>2, <3>3 DEF OneVote
    <3> QED
      BY <3>1, <3>2, <3>4
  <2>2. ASSUME NEW b \in Votes PROVE b[2] <= rlh_term[b[1]]
    <3>1. PICK v, c \in Server, t \in Nat : b = <<v, t, c>> /\ Backed(v, t, c)
      BY VotesAreBacked
    <3>2. t <= rlh_term[v]
      BY <1>2, <3>1 DEF NotAhead
    <3> QED
      BY <3>1, <3>2
  <2> QED
    BY <1>2, <2>1, <2>2 DEF VotesWritten, Led
<1> QED
  BY <1>1, <1>2

-----------------------------------------------------------------------------
(* Steps that add no vote *)

\* The term of a header grows, or the header stays as it is.
HeaderMoves ==
  \A v \in Server :
    \/ rlh_term[v] < rlh_term'[v]
    \/ rlh_term'[v] = rlh_term[v] /\ rlh_voted_for'[v] = rlh_voted_for[v]

\* No new trace of a vote appears, and no new leader.
Quiet ==
  /\ HeaderMoves
  /\ \A v \in Server : rlh_voted_for'[v] # None =>
       rlh_term'[v] = rlh_term[v] /\ rlh_voted_for'[v] = rlh_voted_for[v]
  /\ \A c \in Server : ri_state'[c] \in {"candidate", "leader"} =>
       /\ ri_state'[c] = ri_state[c]
       /\ rlh_term'[c] = rlh_term[c] /\ rcs_results'[c] = rcs_results[c]
  /\ \A m \in msgs' : m.type = "VOTE_REPLY" /\ m.voted_granted => m \in msgs

\* A quiet step leaves no new trace of a vote.
LEMMA QuietBacked ==
  ASSUME Quiet, NEW v \in Server, NEW c \in Server, NEW t \in Nat, Backed(v, t, c)'
  PROVE  Backed(v, t, c)
<1>1. ASSUME NEW m \in msgs', m.type = "VOTE_REPLY", m.voted_granted,
             m.src = v, m.re = t, m.dst = c
      PROVE  Backed(v, t, c)
  <2>1. m \in msgs
    BY <1>1 DEF Quiet
  <2> QED
    BY <1>1, <2>1 DEF Backed
<1>2. ASSUME ri_state'[c] \in {"candidate", "leader"}, rlh_term'[c] = t,
             rcs_results'[c][v] = "yes"
      PROVE  Backed(v, t, c)
  <2>1. /\ ri_state'[c] = ri_state[c]
        /\ rlh_term'[c] = rlh_term[c] /\ rcs_results'[c] = rcs_results[c]
    BY <1>2 DEF Quiet
  <2> QED
    BY <1>2, <2>1 DEF Backed
<1>3. ASSUME rlh_term'[v] = t, rlh_voted_for'[v] = c
      PROVE  Backed(v, t, c)
  BY <1>3, ServerAssumption DEF Quiet, Backed
<1> QED
  BY <1>1, <1>2, <1>3 DEF Backed

\* A quiet step keeps the invariant on votes.
LEMMA QuietKeepsVotes ==
  ASSUME TypeOK, TypeOK', OneVote, NotAhead, Led, Quiet
  PROVE  OneVote' /\ NotAhead' /\ Led'
<1>1. \A v, c \in Server : \A t \in Nat : Backed(v, t, c)' => Backed(v, t, c)
  BY QuietBacked
<1>2. \A v \in Server : /\ rlh_term[v] \in Nat /\ rlh_term'[v] \in Nat
                        /\ rlh_term[v] <= rlh_term'[v]
  BY DEF TypeOK, HeaderType, Quiet, HeaderMoves
<1>3. OneVote'
  BY <1>1 DEF OneVote
<1>4. NotAhead'
  <2> SUFFICES ASSUME NEW v \in Server, NEW c \in Server, NEW t \in Nat,
                      Backed(v, t, c)'
               PROVE  t <= rlh_term'[v]
    BY DEF NotAhead
  <2>1. t <= rlh_term[v]
    BY <1>1 DEF NotAhead
  <2> QED
    BY <1>2, <2>1
<1>5. Led'
  BY DEF Led, Quiet
<1> QED
  BY <1>3, <1>4, <1>5

\* What a step sends is all that it adds to the network.
LEMMA TransmitAdds ==
  ASSUME NEW gone, NEW out, Transmit(gone, out)
  PROVE  msgs' \subseteq msgs \cup out
BY DEF Transmit

\* Steps that change neither headers nor candidacies are quiet if they send no
\* granted vote.
LEMMA IdleIsQuiet ==
  ASSUME UNCHANGED <<ri_state, hdrVars, candVars>>,
         NEW out, msgs' \subseteq msgs \cup out,
         \A m \in out : ~(m.type = "VOTE_REPLY" /\ m.voted_granted)
  PROVE  Quiet
BY DEF Quiet, HeaderMoves, hdrVars, candVars

\* Timers, sends, client writes and the sync thread are quiet.
LEMMA LocalQuiet ==
  ASSUME TypeOK, NEW i \in Server, TimerStep(i) \/ LocalStep(i)
  PROVE  Quiet
<1>1. CASE BecomePreVote(i)
  <2> DEFINE out == VoteRequests(i, "PRE_VOTE_REQUEST", SyncIdx(i), SyncTerm(i))
  <2>1. msgs' \subseteq msgs \cup out
    BY <1>1, TransmitAdds DEF BecomePreVote
  <2>2. \A m \in out : m.type = "PRE_VOTE_REQUEST"
    BY DEF VoteRequests
  <2> HIDE DEF out
  <2>3. \A m \in msgs' : m.type = "VOTE_REPLY" => m \in msgs
    BY <2>1, <2>2
  <2>4. \A c \in Server : ri_state'[c] \in {"candidate", "leader"} =>
          ri_state'[c] = ri_state[c] /\ rcs_results'[c] = rcs_results[c]
    BY <1>1 DEF TypeOK, StateType, CandidateType, BecomePreVote
  <2>5. UNCHANGED <<rlh_term, rlh_voted_for>>
    BY <1>1 DEF BecomePreVote, hdrVars
  <2> QED
    BY <2>3, <2>4, <2>5 DEF Quiet, HeaderMoves
<1>2. CASE Heartbeat(i) \/ RemoteSend(i)
  <2>1. PICK to \in SUBSET Peers(i), hb \in BOOLEAN : AppendEntrySender(i, to, hb)
    BY <1>2 DEF Heartbeat, RemoteSend
  <2> DEFINE out == {AppendRequestTo(i, j, hb) : j \in to}
  <2>2. msgs' \subseteq msgs \cup out
    BY <2>1, TransmitAdds DEF AppendEntrySender
  <2>3. \A m \in out : m.type = "APPEND_ENTRIES_REQUEST"
    BY DEF AppendRequestTo
  <2> HIDE DEF out
  <2> QED
    BY <2>1, <2>2, <2>3, IdleIsQuiet DEF AppendEntrySender
<1>3. CASE SendSyncIdx(i)
  <2> DEFINE out == {[type |-> "SYNC_IDX_UPDATE", src |-> i,
                      dst |-> ri_csn_leader[i], term |-> SyncTerm(i),
                      synced_log_index |-> SyncIdx(i)]}
  <2>1. msgs' \subseteq msgs \cup out
    BY <1>3, TransmitAdds DEF SendSyncIdx
  <2>2. \A m \in out : m.type = "SYNC_IDX_UPDATE"
    OBVIOUS
  <2> HIDE DEF out
  <2> QED
    BY <1>3, <2>1, <2>2, IdleIsQuiet DEF SendSyncIdx
<1>4. CASE (\E v \in Value : ClientWrite(i, v)) \/ SyncThread(i) \/ CommitIdxAdv(i)
  BY <1>4 DEF ClientWrite, SyncThread, CommitIdxAdv, Quiet, HeaderMoves,
              hdrVars, candVars
<1> QED
  BY <1>1, <1>2, <1>3, <1>4
     DEF TimerStep, LocalStep, ElectionTimeout, QuorumLoss

\* A restart is quiet: the header survives, the candidacy does not.
LEMMA RestartQuiet ==
  ASSUME TypeOK, NEW i \in Server, Restart(i)
  PROVE  Quiet
<1>1. \A c \in Server : ri_state'[c] \in {"candidate", "leader"} =>
        ri_state'[c] = ri_state[c] /\ rcs_results'[c] = rcs_results[c]
  BY DEF TypeOK, StateType, CandidateType, Restart
<1> QED
  BY <1>1 DEF Restart, Quiet, HeaderMoves, hdrVars

\* A server that adopts a term as a follower, without a vote, is quiet.
LEMMA FollowQuiet ==
  ASSUME TypeOK, NEW i \in Server, NEW term \in Nat, rlh_term[i] < term,
         LogHeaderWrite(i, None, term),
         ri_state' = [ri_state EXCEPT ![i] = "follower"],
         \A c \in Server \ {i} : rcs_results'[c] = rcs_results[c],
         msgs' \subseteq msgs
  PROVE  Quiet
<1>1. HeaderMoves
  BY DEF TypeOK, HeaderType, LogHeaderWrite, HeaderMoves
<1>2. \A v \in Server : rlh_voted_for'[v] # None =>
        rlh_term'[v] = rlh_term[v] /\ rlh_voted_for'[v] = rlh_voted_for[v]
  BY DEF TypeOK, HeaderType, LogHeaderWrite
<1>3. \A c \in Server : ri_state'[c] \in {"candidate", "leader"} =>
        /\ ri_state'[c] = ri_state[c]
        /\ rlh_term'[c] = rlh_term[c] /\ rcs_results'[c] = rcs_results[c]
  BY DEF TypeOK, StateType, HeaderType, LogHeaderWrite
<1> QED
  BY <1>1, <1>2, <1>3 DEF Quiet

\* AE requests, AE replies and sync-idx updates are quiet: they may raise a
\* term, and then take the vote with it.
LEMMA AppendQuiet ==
  ASSUME TypeOK, NEW m \in msgs, AppendStep(m) \/ SyncStep(m)
  PROVE  Quiet
<1> DEFINE i == m.dst
<1>1. m \in Message /\ i \in Server /\ m.src \in Server
  BY MessageKinds DEF TypeOK, NetworkType
<1>2. CASE \/ IgnoreAppendReply(m) \/ AppendReplyMismatch(m) \/ AppendReplyOk(m)
           \/ SyncStep(m)
  BY <1>2 DEF IgnoreAppendReply, AppendReplyMismatch, AppendReplyOk, SyncStep,
              ProcessSyncIdxUpdate, IgnoreSyncIdxUpdate, Quiet, HeaderMoves,
              hdrVars, candVars
<1>3. CASE AppendReplyDeposes(m)
  <2>1. m.leader_term \in Nat /\ rlh_term[i] < m.leader_term
    <3>1. m \in AppendReply
      BY <1>1, <1>3, MessageKinds DEF AppendReplyDeposes
    <3>2. m.leader_term \in Nat
      BY <3>1 DEF AppendReply
    <3>3. rlh_term[i] \in Nat
      BY <1>1 DEF TypeOK, HeaderType
    <3> QED
      BY <1>3, <3>2, <3>3 DEF AppendReplyDeposes, AckDeposes
  <2> QED
    BY <1>1, <1>3, <2>1, FollowQuiet DEF AppendReplyDeposes, candVars
<1>4. CASE AppendStale(m)
  <2> DEFINE out == {AppendReplyTo(i, m, rlh_term[i], SyncIdx(i),
                                   TRUE, FALSE, FALSE)}
  <2>1. msgs' \subseteq msgs \cup out
    BY <1>4, TransmitAdds DEF AppendStale
  <2>2. \A r \in out : r.type = "APPEND_ENTRIES_REPLY"
    BY DEF AppendReplyTo
  <2> HIDE DEF out
  <2> QED
    BY <1>4, <2>1, <2>2, IdleIsQuiet DEF AppendStale
<1>5. CASE AppendAccept(m) \/ AppendAbort(m)
  <2>1. m \in AppendRequest /\ m.leader_term \in Nat
    <3>1. m \in AppendRequest
      BY <1>1, <1>5, MessageKinds DEF AppendAccept, AppendAbort
    <3> QED
      BY <3>1 DEF AppendRequest
  <2>2. rlh_term[i] \in Nat /\ rlh_term[i] <= m.leader_term
    <3>1. rlh_term[i] \in Nat
      BY <1>1 DEF TypeOK, HeaderType
    <3> QED
      BY <1>5, <2>1, <3>1 DEF AppendAccept, AppendAbort, Stale
  <2>3. AdoptTerm(i, m) /\ UNCHANGED <<rcs_term, rcs_results>>
    BY <1>5 DEF AppendAccept, AppendAbort, candVars
  <2>4. HeaderMoves
    BY <1>1, <2>1, <2>2, <2>3 DEF TypeOK, HeaderType, AdoptTerm, HeaderMoves
  <2>5. \A v \in Server : rlh_voted_for'[v] # None =>
          rlh_term'[v] = rlh_term[v] /\ rlh_voted_for'[v] = rlh_voted_for[v]
    BY <1>1, <2>1, <2>2, <2>3 DEF TypeOK, HeaderType, AdoptTerm
  <2>6. \A c \in Server : ri_state'[c] \in {"candidate", "leader"} =>
          ri_state'[c] = ri_state[c] /\ rlh_term'[c] = rlh_term[c]
    <3>1. \/ ri_state' = [ri_state EXCEPT ![i] = StateAfterTermCheck(i, m)]
          \/ ri_state' = [ri_state EXCEPT ![i] = "aborted"]
      BY <1>5 DEF AppendAccept, AppendAbort, Abort
    <3>2. rlh_term' = [rlh_term EXCEPT ![i] = m.leader_term]
      BY <2>3 DEF AdoptTerm
    <3> QED
      BY <1>1, <3>1, <3>2 DEF TypeOK, StateType, HeaderType, StateAfterTermCheck
  <2>7. \A r \in msgs' : r.type = "VOTE_REPLY" => r \in msgs
    <3>1. CASE AppendAbort(m)
      BY <3>1 DEF AppendAbort
    <3>2. CASE AppendAccept(m)
      <4> DEFINE rc == PrepareRc(i, m)
                 out == {AppendReplyTo(i, m, m.leader_term,
                           SyncedAfterAppend(i, m) - 1, FALSE,
                           rc \in {"ERANGE", "EEXIST"}, rc = "OK")}
      <4>1. msgs' \subseteq msgs \cup out
        BY <3>2, TransmitAdds DEF AppendAccept
      <4>2. \A r \in out : r.type = "APPEND_ENTRIES_REPLY"
        BY DEF AppendReplyTo
      <4> HIDE DEF out
      <4> QED
        BY <4>1, <4>2
    <3> QED
      BY <1>5, <3>1, <3>2
  <2> QED
    BY <2>3, <2>4, <2>5, <2>6, <2>7 DEF Quiet
<1> QED
  BY <1>2, <1>3, <1>4, <1>5 DEF AppendStep

-----------------------------------------------------------------------------
(* Steps that add or count a vote *)

\* The vote of i for cand is the only new trace that the step leaves.
AddsVote(i, term, cand) ==
  \A v, c \in Server : \A t \in Nat : Backed(v, t, c)' =>
    Backed(v, t, c) \/ (v = i /\ t = term /\ c = cand)

\* A single vote in a term that is new to its voter keeps the invariant.
LEMMA NewVote ==
  ASSUME TypeOK, OneVote, NotAhead, NEW i \in Server, NEW cand \in Server,
         NEW term \in Nat, rlh_term[i] < term,
         rlh_term' = [rlh_term EXCEPT ![i] = term],
         AddsVote(i, term, cand)
  PROVE  OneVote' /\ NotAhead'
<1> USE DEF AddsVote
<1>1. \A v \in Server : rlh_term[v] \in Nat
  BY DEF TypeOK, HeaderType
<1>2. \A v \in Server : rlh_term'[v] = IF v = i THEN term ELSE rlh_term[v]
  BY DEF TypeOK, HeaderType
<1>3. \A c \in Server : ~Backed(i, term, c)
  BY <1>1 DEF NotAhead
<1>4. OneVote'
  <2> SUFFICES ASSUME NEW v \in Server, NEW c \in Server, NEW d \in Server,
                      NEW t \in Nat, Backed(v, t, c)', Backed(v, t, d)'
               PROVE  c = d
    BY DEF OneVote
  <2>1. CASE v = i /\ t = term
    BY <1>3, <2>1
  <2>2. CASE ~(v = i /\ t = term)
    <3>1. Backed(v, t, c) /\ Backed(v, t, d)
      BY <2>2
    <3> QED
      BY <3>1 DEF OneVote
  <2> QED
    BY <2>1, <2>2
<1>5. NotAhead'
  <2> SUFFICES ASSUME NEW v \in Server, NEW c \in Server, NEW t \in Nat,
                      Backed(v, t, c)'
               PROVE  t <= rlh_term'[v]
    BY DEF NotAhead
  <2>1. CASE v = i /\ t = term
    BY <1>2, <2>1
  <2>2. CASE ~(v = i /\ t = term)
    <3>1. t <= rlh_term[v]
      BY <2>2 DEF NotAhead
    <3> QED
      BY <1>1, <1>2, <3>1
  <2> QED
    BY <2>1, <2>2
<1> QED
  BY <1>4, <1>5

\* A vote that is refused, or asked for beforehand, leaves no trace.
LEMMA RefusalQuiet ==
  ASSUME TypeOK, NEW m \in msgs, ProcessPreVoteRequest(m) \/ RefuseVote(m)
  PROVE  Quiet
<1> DEFINE i == m.dst
<1>1. PICK r : /\ msgs' \subseteq msgs \cup {r}
               /\ ~(r.type = "VOTE_REPLY" /\ r.voted_granted)
  <2>1. CASE ProcessPreVoteRequest(m)
    <3> DEFINE q == VoteReplyTo(i, m, "PRE_VOTE_REPLY", PreVoteDecide(i, m))
    <3>1. msgs' \subseteq msgs \cup {q}
      BY <2>1, TransmitAdds DEF ProcessPreVoteRequest
    <3>2. q.type = "PRE_VOTE_REPLY"
      BY DEF VoteReplyTo
    <3> HIDE DEF q
    <3> QED
      BY <3>1, <3>2
  <2>2. CASE RefuseVote(m)
    <3> DEFINE q == VoteReplyTo(i, m, "VOTE_REPLY", FALSE)
    <3>1. msgs' \subseteq msgs \cup {q}
      BY <2>2, TransmitAdds DEF RefuseVote
    <3>2. ~q.voted_granted
      BY DEF VoteReplyTo
    <3> HIDE DEF q
    <3> QED
      BY <3>1, <3>2
  <2> QED
    BY <2>1, <2>2
<1>2. UNCHANGED <<ri_state, hdrVars, candVars>>
  BY DEF ProcessPreVoteRequest, RefuseVote
<1> DEFINE out == {r}
<1>3. /\ msgs' \subseteq msgs \cup out
      /\ \A q \in out : ~(q.type = "VOTE_REPLY" /\ q.voted_granted)
  BY <1>1
<1> HIDE DEF out
<1> QED
  BY <1>2, <1>3, IdleIsQuiet

\* A granted vote is in a term the voter has not been in, and leaves no other
\* trace than of itself.
LEMMA GrantBacked ==
  ASSUME TypeOK, NEW m \in msgs, GrantVote(m)
  PROVE  /\ m.dst \in Server /\ m.src \in Server /\ m.proposed_term \in Nat
         /\ rlh_term[m.dst] < m.proposed_term
         /\ rlh_term' = [rlh_term EXCEPT ![m.dst] = m.proposed_term]
         /\ ri_state' = [ri_state EXCEPT ![m.dst] = "follower"]
         /\ AddsVote(m.dst, m.proposed_term, m.src)
<1> DEFINE i == m.dst
           term == m.proposed_term
<1>1. m \in Message /\ i \in Server /\ m.src \in Server
  BY MessageKinds DEF TypeOK, NetworkType
<1>2. term \in Nat
  <2>1. m \in VoteRequest
    BY <1>1, MessageKinds DEF GrantVote
  <2> QED
    BY <2>1 DEF VoteRequest
<1>3. rlh_term[i] \in Nat /\ rlh_term[i] < term
  <2>1. rlh_term[i] \in Nat
    BY <1>1 DEF TypeOK, HeaderType
  <2> QED
    BY <1>2, <2>1 DEF GrantVote, VoteDecide
<1>4. /\ rlh_term' = [rlh_term EXCEPT ![i] = term]
      /\ rlh_voted_for' = [rlh_voted_for EXCEPT ![i] = m.src]
      /\ ri_state' = [ri_state EXCEPT ![i] = "follower"]
      /\ UNCHANGED <<rcs_term, rcs_results>>
  BY DEF GrantVote, LogHeaderWrite, candVars
<1> DEFINE q == VoteReplyTo(i, m, "VOTE_REPLY", TRUE)
<1>5. msgs' \subseteq msgs \cup {q}
  BY TransmitAdds DEF GrantVote
<1>6. q.src = i /\ q.re = term /\ q.dst = m.src
  BY DEF VoteReplyTo
<1> HIDE DEF q
<1>7. ASSUME NEW v \in Server, NEW c \in Server, NEW t \in Nat, Backed(v, t, c)'
      PROVE  Backed(v, t, c) \/ (v = i /\ t = term /\ c = m.src)
  <2>1. ASSUME NEW r \in msgs', r.type = "VOTE_REPLY", r.voted_granted,
               r.src = v, r.re = t, r.dst = c
        PROVE  Backed(v, t, c) \/ (v = i /\ t = term /\ c = m.src)
    <3>1. CASE r \in msgs
      BY <2>1, <3>1 DEF Backed
    <3>2. CASE r = q
      BY <1>6, <2>1, <3>2
    <3> QED
      BY <1>5, <3>1, <3>2
  <2>2. ASSUME ri_state'[c] \in {"candidate", "leader"}, rlh_term'[c] = t,
               rcs_results'[c][v] = "yes"
        PROVE  Backed(v, t, c)
    <3>1. c # i /\ ri_state'[c] = ri_state[c]
      BY <1>1, <1>4, <2>2 DEF TypeOK, StateType
    <3>2. rlh_term'[c] = rlh_term[c]
      BY <1>1, <1>4, <3>1 DEF TypeOK, HeaderType
    <3> QED
      BY <1>4, <2>2, <3>1, <3>2 DEF Backed
  <2>3. ASSUME rlh_term'[v] = t, rlh_voted_for'[v] = c
        PROVE  Backed(v, t, c) \/ (v = i /\ t = term /\ c = m.src)
    <3>1. CASE v = i
      BY <1>1, <1>4, <2>3, <3>1 DEF TypeOK, HeaderType
    <3>2. CASE v # i
      BY <1>1, <1>4, <2>3, <3>2 DEF TypeOK, HeaderType, Backed
    <3> QED
      BY <3>1, <3>2
  <2> QED
    BY <1>7, <2>1, <2>2, <2>3 DEF Backed
<1> QED
  BY <1>1, <1>2, <1>3, <1>4, <1>7 DEF AddsVote

\* The handler of vote requests keeps the invariant.
LEMMA GrantVotes ==
  ASSUME TypeOK, OneVote, NotAhead, Led, NEW m \in msgs, GrantVote(m)
  PROVE  OneVote' /\ NotAhead' /\ Led'
<1> DEFINE i == m.dst
           term == m.proposed_term
           cand == m.src
<1>1. /\ i \in Server /\ cand \in Server /\ term \in Nat /\ rlh_term[i] < term
      /\ rlh_term' = [rlh_term EXCEPT ![i] = term]
      /\ AddsVote(i, term, cand)
  BY GrantBacked
<1>2. /\ ri_state' = [ri_state EXCEPT ![i] = "follower"]
      /\ UNCHANGED rcs_results
  BY DEF GrantVote, candVars
<1> HIDE DEF i, term, cand
<1>3. OneVote' /\ NotAhead'
  BY <1>1, NewVote
<1>4. Led'
  BY <1>1, <1>2 DEF TypeOK, StateType, Led
<1> QED
  BY <1>3, <1>4

\* Every handler of vote requests keeps it.
LEMMA VoteRequestVotes ==
  ASSUME TypeOK, TypeOK', OneVote, NotAhead, Led, NEW m \in msgs,
         ProcessPreVoteRequest(m) \/ GrantVote(m) \/ RefuseVote(m)
  PROVE  OneVote' /\ NotAhead' /\ Led'
BY RefusalQuiet, QuietKeepsVotes, GrantVotes

\* A candidate's vote for itself is in a new term, and is the only one in the
\* new table.
LEMMA CandidateBacked ==
  ASSUME TypeOK, NEW m \in msgs, BecomeCandidate(m)
  PROVE  /\ m.dst \in Server /\ rlh_term[m.dst] \in Nat
         /\ rlh_term' = [rlh_term EXCEPT ![m.dst] = rlh_term[m.dst] + 1]
         /\ ri_state' = [ri_state EXCEPT ![m.dst] = "candidate"]
         /\ rcs_results' = [rcs_results EXCEPT ![m.dst] = SelfVote(m.dst)]
         /\ AddsVote(m.dst, rlh_term[m.dst] + 1, m.dst)
<1> DEFINE i == m.dst
           term == rlh_term[i] + 1
           out == VoteRequests(i, "VOTE_REQUEST", LastIdx(log[i]),
                               EntryAt(log[i], LastIdx(log[i])).term)
<1>1. i \in Server
  BY MessageKinds DEF TypeOK, NetworkType
<1>2. rlh_term[i] \in Nat /\ term \in Nat /\ rlh_term[i] < term
  BY <1>1 DEF TypeOK, HeaderType
<1>3. /\ rlh_term' = [rlh_term EXCEPT ![i] = term]
      /\ rlh_voted_for' = [rlh_voted_for EXCEPT ![i] = i]
      /\ ri_state' = [ri_state EXCEPT ![i] = "candidate"]
      /\ rcs_results' = [rcs_results EXCEPT ![i] = SelfVote(i)]
  BY DEF BecomeCandidate, LogHeaderWrite
<1>4. msgs' \subseteq msgs \cup out
  BY TransmitAdds DEF BecomeCandidate
<1>5. \A r \in out : r.type = "VOTE_REQUEST"
  BY DEF VoteRequests
<1> HIDE DEF out, term
<1>6. ASSUME NEW v \in Server, NEW c \in Server, NEW t \in Nat, Backed(v, t, c)'
      PROVE  Backed(v, t, c) \/ (v = i /\ t = term /\ c = i)
  <2>1. ASSUME NEW r \in msgs', r.type = "VOTE_REPLY", r.voted_granted,
               r.src = v, r.re = t, r.dst = c
        PROVE  Backed(v, t, c)
    BY <1>4, <1>5, <2>1 DEF Backed
  <2>2. ASSUME ri_state'[c] \in {"candidate", "leader"}, rlh_term'[c] = t,
               rcs_results'[c][v] = "yes"
        PROVE  Backed(v, t, c) \/ (v = i /\ t = term /\ c = i)
    <3>1. CASE c = i
      <4>1. rcs_results'[c] = SelfVote(i) /\ rlh_term'[c] = term
        BY <1>1, <1>3, <3>1 DEF TypeOK, CandidateType, HeaderType
      <4>2. v = i
        BY <2>2, <4>1 DEF SelfVote
      <4> QED
        BY <2>2, <3>1, <4>1, <4>2
    <3>2. CASE c # i
      <4>1. ri_state'[c] = ri_state[c]
        BY <1>3, <3>2 DEF TypeOK, StateType
      <4>2. rlh_term'[c] = rlh_term[c]
        BY <1>3, <3>2 DEF TypeOK, HeaderType
      <4>3. rcs_results'[c] = rcs_results[c]
        BY <1>3, <3>2 DEF TypeOK, CandidateType
      <4> QED
        BY <2>2, <4>1, <4>2, <4>3 DEF Backed
    <3> QED
      BY <3>1, <3>2
  <2>3. ASSUME rlh_term'[v] = t, rlh_voted_for'[v] = c
        PROVE  Backed(v, t, c) \/ (v = i /\ t = term /\ c = i)
    <3>1. CASE v = i
      BY <1>1, <1>3, <2>3, <3>1 DEF TypeOK, HeaderType
    <3>2. CASE v # i
      BY <1>1, <1>3, <2>3, <3>2 DEF TypeOK, HeaderType, Backed
    <3> QED
      BY <3>1, <3>2
  <2> QED
    BY <1>6, <2>1, <2>2, <2>3 DEF Backed
<1> QED
  BY <1>1, <1>2, <1>3, <1>6 DEF term, AddsVote

\* Becoming a candidate keeps the invariant.
LEMMA BecomeCandidateVotes ==
  ASSUME TypeOK, OneVote, NotAhead, Led, NEW m \in msgs, BecomeCandidate(m)
  PROVE  OneVote' /\ NotAhead' /\ Led'
<1> DEFINE i == m.dst
           term == rlh_term[i] + 1
<1>1. /\ i \in Server /\ rlh_term[i] \in Nat
      /\ rlh_term' = [rlh_term EXCEPT ![i] = term]
      /\ ri_state' = [ri_state EXCEPT ![i] = "candidate"]
      /\ rcs_results' = [rcs_results EXCEPT ![i] = SelfVote(i)]
      /\ AddsVote(i, term, i)
  BY CandidateBacked
<1>2. term \in Nat /\ rlh_term[i] < term
  BY <1>1
<1> HIDE DEF i, term
<1>3. OneVote' /\ NotAhead'
  BY <1>1, <1>2, NewVote
<1>4. Led'
  <2>1. \A c \in Server : ri_state'[c] = "leader" =>
          ri_state[c] = "leader" /\ rcs_results'[c] = rcs_results[c]
    BY <1>1 DEF TypeOK, StateType, CandidateType
  <2> QED
    BY <2>1 DEF Led
<1> QED
  BY <1>3, <1>4

\* Counting a vote leaves no new trace if the reply answers this candidacy.
LEMMA CountBacked ==
  ASSUME TypeOK, CandidateViable, ~LateVotes,
         NEW m \in msgs, RegisterVote(m) \/ BecomeLeader(m)
  PROVE  /\ UNCHANGED <<rlh_term, rlh_voted_for>>
         /\ rcs_results' = [rcs_results EXCEPT ![m.dst] = Results(m)]
         /\ \A c \in Server \ {m.dst} : /\ ri_state'[c] = ri_state[c]
                                        /\ rcs_results'[c] = rcs_results[c]
         /\ ri_state'[m.dst] \in {"candidate", "leader"} =>
              m.type = "VOTE_REPLY" /\ ri_state[m.dst] = "candidate"
         /\ \A v, c \in Server : \A t \in Nat :
              Backed(v, t, c)' => Backed(v, t, c)
<1> DEFINE i == m.dst
<1>1. m \in Message /\ i \in Server /\ m.src \in Server
  BY MessageKinds DEF TypeOK, NetworkType
<1>2. /\ UNCHANGED <<rlh_term, rlh_voted_for>>
      /\ rcs_results' = [rcs_results EXCEPT ![i] = Results(m)]
      /\ msgs' = msgs \ {m}
      /\ Relevant(m)
  BY DEF RegisterVote, BecomeLeader, hdrVars
<1>3. \A c \in Server \ {i} : /\ ri_state'[c] = ri_state[c]
                              /\ rcs_results'[c] = rcs_results[c]
  <2>1. \A c \in Server \ {i} : rcs_results'[c] = rcs_results[c]
    BY <1>2 DEF TypeOK, CandidateType
  <2>2. \A c \in Server \ {i} : ri_state'[c] = ri_state[c]
    BY DEF TypeOK, StateType, RegisterVote, BecomeLeader
  <2> QED
    BY <2>1, <2>2
<1>4. ri_state'[i] \in {"candidate", "leader"} =>
        /\ m.type = "VOTE_REPLY" /\ ri_state[i] = "candidate"
        /\ m.re = rlh_term[i]
  <2>1. ri_state'[i] \in {"candidate", "leader"} =>
          m.type = "VOTE_REPLY" /\ ri_state[i] = "candidate"
    BY <1>1, <1>2 DEF TypeOK, StateType, RegisterVote, BecomeLeader, Relevant
  <2>2. m.re = rcs_term[i]
    BY <1>2 DEF Relevant
  <2> QED
    BY <1>1, <2>1, <2>2 DEF CandidateViable
<1>5. ASSUME NEW v \in Server, NEW c \in Server, NEW t \in Nat, Backed(v, t, c)'
      PROVE  Backed(v, t, c)
  <2>1. ASSUME NEW r \in msgs', r.type = "VOTE_REPLY", r.voted_granted,
               r.src = v, r.re = t, r.dst = c
        PROVE  Backed(v, t, c)
    BY <1>2, <2>1 DEF Backed
  <2>2. ASSUME ri_state'[c] \in {"candidate", "leader"}, rlh_term'[c] = t,
               rcs_results'[c][v] = "yes"
        PROVE  Backed(v, t, c)
    <3>1. CASE c # i
      BY <1>2, <1>3, <2>2, <3>1 DEF Backed
    <3>2. CASE c = i
      <4>1. rcs_results'[i] = Results(m)
        BY <1>1, <1>2 DEF TypeOK, CandidateType
      <4>2. rcs_results[i] \in [Server -> {"unknown", "yes", "no"}]
        BY <1>1 DEF TypeOK, CandidateType
      <4>3. CASE v = m.src
        <5>1. m.voted_granted
          BY <1>1, <2>2, <3>2, <4>1, <4>2, <4>3 DEF Results
        <5> QED
          BY <1>2, <1>4, <2>2, <3>2, <4>3, <5>1 DEF Backed
      <4>4. CASE v # m.src
        <5>1. rcs_results[i][v] = "yes"
          BY <1>1, <2>2, <3>2, <4>1, <4>2, <4>4 DEF Results
        <5> QED
          BY <1>2, <1>4, <2>2, <3>2, <5>1 DEF Backed
      <4> QED
        BY <4>3, <4>4
    <3> QED
      BY <3>1, <3>2
  <2>3. ASSUME rlh_term'[v] = t, rlh_voted_for'[v] = c
        PROVE  Backed(v, t, c)
    BY <1>2, <2>3 DEF Backed
  <2> QED
    BY <1>5, <2>1, <2>2, <2>3 DEF Backed
<1> QED
  BY <1>1, <1>2, <1>3, <1>4, <1>5

\* Counting a vote keeps the invariant.
LEMMA CountVotes ==
  ASSUME TypeOK, CandidateViable, OneVote, NotAhead, Led, ~LateVotes,
         NEW m \in msgs, RegisterVote(m) \/ BecomeLeader(m)
  PROVE  OneVote' /\ NotAhead' /\ Led'
<1> DEFINE i == m.dst
<1>1. i \in Server
  BY MessageKinds DEF TypeOK, NetworkType
<1>2. /\ UNCHANGED <<rlh_term, rlh_voted_for>>
      /\ rcs_results' = [rcs_results EXCEPT ![i] = Results(m)]
      /\ \A c \in Server \ {i} : /\ ri_state'[c] = ri_state[c]
                                 /\ rcs_results'[c] = rcs_results[c]
      /\ ri_state'[i] \in {"candidate", "leader"} =>
           m.type = "VOTE_REPLY" /\ ri_state[i] = "candidate"
      /\ \A v, c \in Server : \A t \in Nat : Backed(v, t, c)' => Backed(v, t, c)
  BY CountBacked
<1>3. OneVote' /\ NotAhead'
  BY <1>2 DEF OneVote, NotAhead
<1>4. Led'
  <2> SUFFICES ASSUME NEW c \in Server, ri_state'[c] = "leader"
               PROVE  IsMajority(YesVotes(rcs_results'[c]))
    BY DEF Led
  <2>1. CASE c # i
    BY <1>2, <2>1 DEF Led
  <2>2. CASE c = i
    <3>1. BecomeLeader(m)
      BY <1>1, <1>2, <2>2 DEF RegisterVote
    <3>2. Elected(m)
      BY <3>1 DEF BecomeLeader
    <3>3. rcs_results'[i] = Results(m)
      BY <1>1, <1>2 DEF TypeOK, CandidateType
    <3> QED
      BY <2>2, <3>2, <3>3 DEF Elected
  <2> QED
    BY <2>1, <2>2
<1> QED
  BY <1>3, <1>4

\* The other vote replies are quiet.
LEMMA VoteReplyQuiet ==
  ASSUME TypeOK, NEW m \in msgs, IgnoreVoteReply(m) \/ VoteReplyDeposes(m)
  PROVE  Quiet
<1> DEFINE i == m.dst
<1>1. CASE IgnoreVoteReply(m)
  BY <1>1 DEF IgnoreVoteReply, Quiet, HeaderMoves, hdrVars, candVars
<1>2. CASE VoteReplyDeposes(m)
  <2>1. m \in Message /\ i \in Server
    BY MessageKinds DEF TypeOK, NetworkType
  <2>2. m.term \in Nat
    <3>1. m \in VoteReply
      BY <1>2, <2>1, MessageKinds DEF VoteReplyDeposes
    <3> QED
      BY <3>1 DEF VoteReply
  <2>3. rlh_term[i] \in Nat /\ rlh_term[i] < m.term
    <3>1. rlh_term[i] \in Nat
      BY <2>1 DEF TypeOK, HeaderType
    <3> QED
      BY <1>2, <2>2, <3>1 DEF VoteReplyDeposes, Deposes
  <2>4. \A c \in Server \ {i} : rcs_results'[c] = rcs_results[c]
    BY <1>2 DEF TypeOK, CandidateType, VoteReplyDeposes
  <2> QED
    BY <1>2, <2>1, <2>2, <2>3, <2>4, FollowQuiet DEF VoteReplyDeposes
<1> QED
  BY <1>1, <1>2

-----------------------------------------------------------------------------
(* Candidacies *)

\* A step after which every candidacy is one from before, with its term, and a
\* candidate has still nothing unsynced, keeps candidacies viable.
LEMMA ViableKept ==
  ASSUME CandidateViable,
         \A c \in Server : ri_state'[c] \in {"prevote", "candidate"} =>
           /\ ri_state'[c] = ri_state[c]
           /\ rlh_term'[c] = rlh_term[c] /\ rcs_term'[c] = rcs_term[c]
           /\ log'[c] = log[c]
           /\ ri_state[c] = "prevote" \/ synced'[c] = synced[c]
                \/ synced'[c] = Len(log[c])
  PROVE  CandidateViable'
BY DEF CandidateViable

\* Timers, sends, client writes and the sync thread keep candidacies viable.
LEMMA LocalViable ==
  ASSUME TypeOK, CandidateViable, NEW i \in Server,
         TimerStep(i) \/ LocalStep(i) \/ Restart(i)
  PROVE  CandidateViable'
<1>1. CASE BecomePreVote(i)
  <2>1. /\ rcs_term'[i] = rlh_term[i] + 1 /\ ri_state'[i] = "prevote"
        /\ \A c \in Server \ {i} : /\ rcs_term'[c] = rcs_term[c]
                                   /\ ri_state'[c] = ri_state[c]
        /\ UNCHANGED <<rlh_term, log, synced>>
    BY <1>1 DEF TypeOK, CandidateType, StateType, BecomePreVote, hdrVars, logVars
  <2> QED
    BY <2>1 DEF CandidateViable
<1>2. CASE Restart(i)
  <2>1. /\ ri_state'[i] = "follower"
        /\ \A c \in Server \ {i} : /\ ri_state'[c] = ri_state[c]
                                   /\ rcs_term'[c] = rcs_term[c]
                                   /\ log'[c] = log[c] /\ synced'[c] = synced[c]
        /\ UNCHANGED rlh_term
    BY <1>2 DEF TypeOK, StateType, CandidateType, LogType, Restart, hdrVars
  <2> QED
    BY <2>1, ViableKept
<1>3. CASE Heartbeat(i) \/ RemoteSend(i) \/ SendSyncIdx(i) \/ CommitIdxAdv(i)
  BY <1>3 DEF CandidateViable, Heartbeat, RemoteSend, AppendEntrySender,
              SendSyncIdx, CommitIdxAdv, hdrVars, candVars, logVars
<1>4. CASE \E v \in Value : ClientWrite(i, v)
  <2>1. /\ ri_state[i] = "leader"
        /\ UNCHANGED <<ri_state, rlh_term, rcs_term>>
        /\ \A c \in Server \ {i} : log'[c] = log[c] /\ synced'[c] = synced[c]
    BY <1>4 DEF TypeOK, LogType, ClientWrite, hdrVars, candVars
  <2> QED
    BY <2>1, ViableKept
<1>5. CASE SyncThread(i)
  <2>1. PICK n \in synced[i] + 1 .. Len(log[i]) :
          synced' = [synced EXCEPT ![i] = n]
    BY <1>5 DEF SyncThread
  <2>2. synced[i] # Len(log[i])
    BY <2>1 DEF TypeOK, LogType
  <2>3. ri_state[i] # "candidate"
    BY <2>2 DEF CandidateViable
  <2>4. \A c \in Server \ {i} : synced'[c] = synced[c]
    BY <2>1 DEF TypeOK, LogType
  <2>5. UNCHANGED <<ri_state, rlh_term, rcs_term, log>>
    BY <1>5 DEF SyncThread, hdrVars, candVars
  <2> QED
    BY <2>3, <2>4, <2>5, ViableKept
<1> QED
  BY <1>1, <1>2, <1>3, <1>4, <1>5
     DEF TimerStep, LocalStep, ElectionTimeout, QuorumLoss

\* The handlers of messages keep candidacies viable: whatever changes the
\* term or the log of a candidate ends its candidacy.
LEMMA MessageViable ==
  ASSUME TypeOK, CandidateViable, NEW m \in msgs,
         VoteStep(m) \/ AppendStep(m) \/ SyncStep(m)
  PROVE  CandidateViable'
<1> DEFINE i == m.dst
<1>1. i \in Server
  BY MessageKinds DEF TypeOK, NetworkType
<1>2. CASE \/ IgnoreVoteReply(m) \/ AppendStale(m) \/ IgnoreAppendReply(m)
           \/ AppendReplyMismatch(m) \/ AppendReplyOk(m) \/ SyncStep(m)
  BY <1>2 DEF CandidateViable, IgnoreVoteReply, AppendStale, IgnoreAppendReply,
              AppendReplyMismatch, AppendReplyOk, SyncStep,
              ProcessSyncIdxUpdate, IgnoreSyncIdxUpdate, hdrVars, candVars,
              logVars
<1>3. CASE ProcessPreVoteRequest(m) \/ RefuseVote(m)
  <2>1. /\ UNCHANGED <<ri_state, rlh_term, rcs_term, log>>
        /\ \A c \in Server : synced'[c] = synced[c] \/ synced'[c] = Len(log[c])
    BY <1>1, <1>3 DEF TypeOK, LogType, ProcessPreVoteRequest, RefuseVote,
                      hdrVars, candVars
  <2> QED
    BY <2>1, ViableKept
<1>4. CASE RegisterVote(m)
  BY <1>4 DEF CandidateViable, RegisterVote, hdrVars, logVars
<1>5. CASE GrantVote(m) \/ VoteReplyDeposes(m) \/ AppendReplyDeposes(m)
  <2>1. /\ ri_state' = [ri_state EXCEPT ![i] = "follower"]
        /\ UNCHANGED <<rcs_term, log>>
        /\ \A c \in Server \ {i} : rlh_term'[c] = rlh_term[c]
        /\ \A c \in Server \ {i} : synced'[c] = synced[c]
    BY <1>1, <1>5 DEF TypeOK, HeaderType, LogType, GrantVote, VoteReplyDeposes,
                      AppendReplyDeposes, LogHeaderWrite, candVars
  <2>2. /\ ri_state'[i] = "follower"
        /\ \A c \in Server \ {i} : ri_state'[c] = ri_state[c]
    BY <1>1, <2>1 DEF TypeOK, StateType
  <2> QED
    BY <2>1, <2>2, ViableKept
<1>6. CASE AppendAccept(m) \/ AppendAbort(m)
  <2>1. ri_state'[i] \notin {"prevote", "candidate"}
    BY <1>1, <1>6 DEF TypeOK, StateType, AppendAccept, AppendAbort, Abort,
                      StateAfterTermCheck
  <2>2. \A c \in Server \ {i} : ri_state'[c] = ri_state[c]
    BY <1>6 DEF TypeOK, StateType, AppendAccept, AppendAbort, Abort
  <2>3. UNCHANGED rcs_term /\ \A c \in Server \ {i} : rlh_term'[c] = rlh_term[c]
    BY <1>6 DEF TypeOK, HeaderType, AppendAccept, AppendAbort, AdoptTerm, candVars
  <2>4. \A c \in Server \ {i} : log'[c] = log[c] /\ synced'[c] = synced[c]
    BY <1>6 DEF TypeOK, LogType, AppendAccept, AppendAbort
  <2> QED
    BY <2>1, <2>2, <2>3, <2>4, ViableKept
<1>7. CASE BecomeLeader(m)
  <2>1. /\ ri_state'[i] = "leader"
        /\ \A c \in Server \ {i} : ri_state'[c] = ri_state[c]
    BY <1>1, <1>7 DEF TypeOK, StateType, BecomeLeader
  <2>2. UNCHANGED <<rcs_term, rlh_term>>
    BY <1>7 DEF BecomeLeader, hdrVars
  <2>3. \A c \in Server \ {i} : log'[c] = log[c] /\ synced'[c] = synced[c]
    BY <1>7 DEF TypeOK, LogType, BecomeLeader
  <2> QED
    BY <2>1, <2>2, <2>3, ViableKept
<1>8. CASE BecomeCandidate(m)
  <2>1. /\ ri_state'[i] = "candidate"
        /\ \A c \in Server \ {i} : ri_state'[c] = ri_state[c]
    BY <1>1, <1>8 DEF TypeOK, StateType, BecomeCandidate
  <2>2. /\ rcs_term'[i] = rlh_term[i] + 1
        /\ \A c \in Server \ {i} : rcs_term'[c] = rcs_term[c]
    BY <1>1, <1>8 DEF TypeOK, CandidateType, BecomeCandidate
  <2>3. /\ rlh_term'[i] = rlh_term[i] + 1
        /\ \A c \in Server \ {i} : rlh_term'[c] = rlh_term[c]
    BY <1>1, <1>8 DEF TypeOK, HeaderType, BecomeCandidate, LogHeaderWrite
  <2>4. /\ synced'[i] = Len(log[i]) /\ UNCHANGED log
        /\ \A c \in Server \ {i} : synced'[c] = synced[c]
    BY <1>1, <1>8 DEF TypeOK, LogType, BecomeCandidate, LogHeaderWrite
  <2> QED
    BY <2>1, <2>2, <2>3, <2>4 DEF CandidateViable
<1> QED
  BY <1>2, <1>3, <1>4, <1>5, <1>6, <1>7, <1>8 DEF VoteStep, AppendStep

\* The checks on the candidate's term and on its unsynced entries never fail
\* (raft_server_candidate_reg_vote_result(), raft_server_leader_init_state()),
\* late replies or not.
THEOREM CandidatesViable == Spec => []CandidateViable
<1>1. Init => CandidateViable
  BY DEF Init, CandidateViable
<1>2. TypeOK /\ CandidateViable /\ [Next]_vars => CandidateViable'
  <2> SUFFICES ASSUME TypeOK, CandidateViable, [Next]_vars
               PROVE  CandidateViable'
    OBVIOUS
  <2>1. CASE UNCHANGED vars
    BY <2>1 DEF CandidateViable, vars, hdrVars, candVars, logVars
  <2> QED
    BY <2>1, LocalViable, MessageViable DEF Next
<1> QED
  BY <1>1, <1>2, TypeCorrect, PTL DEF Spec

-----------------------------------------------------------------------------
(* Election safety *)

\* Every step keeps the invariant on votes if no vote reply is late.
LEMMA NextVotes ==
  ASSUME ~LateVotes, TypeOK, TypeOK', CandidateViable, VotesWritten, [Next]_vars
  PROVE  VotesWritten'
<1>1. OneVote /\ NotAhead /\ Led
  BY WrittenVotes
<1>2. ASSUME Quiet PROVE OneVote' /\ NotAhead' /\ Led'
  BY <1>1, <1>2, QuietKeepsVotes
<1>3. ASSUME NEW i \in Server, TimerStep(i) \/ LocalStep(i) \/ Restart(i)
      PROVE  Quiet
  BY <1>3, LocalQuiet, RestartQuiet
<1>4. ASSUME NEW m \in msgs, VoteStep(m) PROVE OneVote' /\ NotAhead' /\ Led'
  BY <1>1, <1>2, <1>4, VoteRequestVotes, VoteReplyQuiet, CountVotes,
     BecomeCandidateVotes DEF VoteStep
<1>5. ASSUME NEW m \in msgs, AppendStep(m) \/ SyncStep(m) PROVE Quiet
  BY <1>5, AppendQuiet
<1>6. OneVote' /\ NotAhead' /\ Led'
  <2>1. UNCHANGED vars => Quiet
    BY DEF Quiet, HeaderMoves, vars, hdrVars, candVars
  <2> QED
    BY <1>2, <1>3, <1>4, <1>5, <2>1 DEF Next
<1>7. (VotesWritten <=> OneVote /\ NotAhead /\ Led)'
  BY WrittenVotes, PTL
<1> QED
  BY <1>6, <1>7

\* A vote leaves its first trace when its voter enters the term.
LEMMA VotesAreNew ==
  ASSUME ~LateVotes, TypeOK, CandidateViable, [Next]_vars,
         NEW v \in Server, NEW c \in Server, NEW t \in Nat, Backed(v, t, c)'
  PROVE  Backed(v, t, c) \/ rlh_term[v] < t
<1>1. ASSUME Quiet PROVE Backed(v, t, c)
  BY <1>1, QuietBacked
<1>2. ASSUME NEW m \in msgs, VoteStep(m) PROVE Backed(v, t, c) \/ rlh_term[v] < t
  <2>1. CASE \/ ProcessPreVoteRequest(m) \/ RefuseVote(m) \/ IgnoreVoteReply(m)
             \/ VoteReplyDeposes(m)
    BY <1>1, <2>1, RefusalQuiet, VoteReplyQuiet
  <2>2. CASE GrantVote(m)
    BY <2>2, GrantBacked DEF AddsVote
  <2>3. CASE BecomeCandidate(m)
    <3>1. rlh_term[m.dst] < rlh_term[m.dst] + 1
      BY <2>3, CandidateBacked
    <3> QED
      BY <2>3, <3>1, CandidateBacked DEF AddsVote
  <2>4. CASE RegisterVote(m) \/ BecomeLeader(m)
    BY <2>4, CountBacked
  <2> QED
    BY <1>2, <2>1, <2>2, <2>3, <2>4 DEF VoteStep
<1>3. UNCHANGED vars => Quiet
  BY DEF Quiet, HeaderMoves, vars, hdrVars, candVars
<1> QED
  BY <1>1, <1>2, <1>3, LocalQuiet, RestartQuiet, AppendQuiet DEF Next

\* Two majorities of votes share a voter.
LEMMA MajoritiesMeet ==
  ASSUME NEW S \in SUBSET Server, NEW T \in SUBSET Server,
         IsMajority(S), IsMajority(T)
  PROVE  \E v \in Server : v \in S /\ v \in T
<1> DEFINE n == Cardinality(Server)
<1>1. IsFiniteSet(S) /\ IsFiniteSet(T)
  BY ServerAssumption, FS_Subset
<1>2. n \in Nat /\ Cardinality(S) \in Nat /\ Cardinality(T) \in Nat
  BY <1>1, ServerAssumption, FS_CardinalityType
<1>3. Cardinality(S) + Cardinality(T) > n
  <2>1. Cardinality(S) >= (n \div 2) + 1 /\ Cardinality(T) >= (n \div 2) + 1
    BY DEF IsMajority
  <2> HIDE DEF n
  <2> QED
    BY <1>2, <2>1
<1>4. S \cap T # {}
  BY <1>3, ServerAssumption, FS_MajoritiesIntersect
<1> QED
  BY <1>4

\* The votes that were written allow one leader in a term.
LEMMA VotesElectOne ==
  ASSUME TypeOK, VotesWritten
  PROVE  ElectionSafety
<1> SUFFICES ASSUME NEW i \in Server, NEW j \in Server,
                    ri_state[i] = "leader", ri_state[j] = "leader",
                    rlh_term[i] = rlh_term[j]
             PROVE  i = j
  BY DEF ElectionSafety
<1>1. OneVote /\ Led
  BY WrittenVotes
<1>2. IsMajority(YesVotes(rcs_results[i])) /\ IsMajority(YesVotes(rcs_results[j]))
  BY <1>1 DEF Led
<1>3. PICK v \in Server : /\ v \in YesVotes(rcs_results[i])
                          /\ v \in YesVotes(rcs_results[j])
  <2>1. \A r : YesVotes(r) \in SUBSET Server
    BY DEF YesVotes
  <2> QED
    BY <1>2, <2>1, MajoritiesMeet
<1>4. Backed(v, rlh_term[i], i) /\ Backed(v, rlh_term[i], j)
  BY <1>3 DEF YesVotes, Backed
<1>5. rlh_term[i] \in Nat
  BY DEF TypeOK, HeaderType
<1> QED
  BY <1>1, <1>4, <1>5 DEF OneVote

\* If no vote reply outlives its candidacy, what candidates count is what
\* voters wrote, in every cluster and through any number of restarts.
THEOREM VotesAreWritten == ~LateVotes => (Spec => []VotesWritten)
<1> SUFFICES ASSUME ~LateVotes PROVE Spec => []VotesWritten
  OBVIOUS
<1>1. Init /\ TypeOK => VotesWritten
  <2> SUFFICES ASSUME Init, TypeOK PROVE VotesWritten
    OBVIOUS
  <2>1. \A v, c \in Server : \A t \in Nat : ~Backed(v, t, c)
    BY ServerAssumption DEF Init, Backed
  <2>2. OneVote /\ NotAhead
    BY <2>1 DEF OneVote, NotAhead
  <2>3. Led
    BY DEF Init, Led
  <2> QED
    BY <2>2, <2>3, WrittenVotes
<1>2. /\ TypeOK /\ TypeOK' /\ CandidateViable /\ VotesWritten /\ [Next]_vars
      => VotesWritten'
  BY NextVotes
<1> QED
  BY <1>1, <1>2, TypeCorrect, CandidatesViable, PTL DEF Spec

\* "allow at most one winner per term": two servers never lead in one term, in
\* every cluster, provided that no vote reply outlives its candidacy.
THEOREM OneLeaderPerTerm == ~LateVotes => (Spec => []ElectionSafety)
<1> SUFFICES ASSUME ~LateVotes PROVE Spec => []ElectionSafety
  OBVIOUS
<1>1. Spec => []VotesWritten
  BY VotesAreWritten
<1>2. TypeOK /\ VotesWritten => ElectionSafety
  BY VotesElectOne
<1> QED
  BY <1>1, <1>2, TypeCorrect, PTL

\* The handlers of vote messages move headers forward only.
LEMMA VoteHeaderMoves ==
  ASSUME TypeOK, NEW m \in msgs, VoteStep(m)
  PROVE  HeaderMoves
<1> DEFINE i == m.dst
<1>1. m \in Message /\ i \in Server /\ rlh_term[i] \in Nat
  BY MessageKinds DEF TypeOK, NetworkType, HeaderType
<1>2. CASE IgnoreVoteReply(m) \/ VoteReplyDeposes(m)
  BY <1>2, VoteReplyQuiet DEF Quiet
<1>3. CASE \/ ProcessPreVoteRequest(m) \/ RefuseVote(m) \/ RegisterVote(m)
           \/ BecomeLeader(m)
  BY <1>3 DEF ProcessPreVoteRequest, RefuseVote, RegisterVote, BecomeLeader,
              HeaderMoves, hdrVars
<1>4. CASE GrantVote(m)
  <2>1. m \in VoteRequest
    BY <1>1, <1>4, MessageKinds DEF GrantVote
  <2>2. m.proposed_term \in Nat
    BY <2>1 DEF VoteRequest
  <2> QED
    BY <1>1, <1>4, <2>2 DEF TypeOK, HeaderType, GrantVote, VoteDecide,
                            LogHeaderWrite, HeaderMoves
<1>5. CASE BecomeCandidate(m)
  BY <1>1, <1>5 DEF TypeOK, HeaderType, BecomeCandidate, LogHeaderWrite,
                    HeaderMoves
<1> QED
  BY <1>2, <1>3, <1>4, <1>5 DEF VoteStep

\* A header's term never decreases and a vote of a term is never changed, over
\* all messages, late ones included, and over restarts.
THEOREM VotesAreFinal == Spec => VoteIsFinal
<1>1. TypeOK /\ TypeOK' /\ [Next]_vars =>
        [\A i \in Server :
           /\ rlh_term'[i] >= rlh_term[i]
           /\ rlh_term'[i] = rlh_term[i] /\ rlh_voted_for[i] # None
                => rlh_voted_for'[i] = rlh_voted_for[i]]_vars
  <2> SUFFICES ASSUME TypeOK, TypeOK', Next
               PROVE  \A i \in Server :
                        /\ rlh_term'[i] >= rlh_term[i]
                        /\ rlh_term'[i] = rlh_term[i] /\ rlh_voted_for[i] # None
                             => rlh_voted_for'[i] = rlh_voted_for[i]
    OBVIOUS
  <2>1. HeaderMoves
    <3>1. ASSUME NEW i \in Server, TimerStep(i) \/ LocalStep(i) \/ Restart(i)
          PROVE  HeaderMoves
      BY <3>1, LocalQuiet, RestartQuiet DEF Quiet
    <3>2. ASSUME NEW m \in msgs, AppendStep(m) \/ SyncStep(m)
          PROVE  HeaderMoves
      BY <3>2, AppendQuiet DEF Quiet
    <3>3. ASSUME NEW m \in msgs, VoteStep(m)
          PROVE  HeaderMoves
      BY <3>3, VoteHeaderMoves
    <3> QED
      BY <3>1, <3>2, <3>3 DEF Next
  <2>2. \A i \in Server : rlh_term[i] \in Nat /\ rlh_term'[i] \in Nat
    BY DEF TypeOK, HeaderType
  <2> QED
    BY <2>1, <2>2 DEF HeaderMoves
<1> QED
  BY <1>1, TypeCorrect, PTL DEF Spec, VoteIsFinal
=============================================================================
