-------------------------- MODULE RaftGroupProofs --------------------------
(***************************************************************************)
(* Proofs of the safety of the Raft group (RaftGroup): one leader per      *)
(* term, matching logs, complete leaders, catalogs that hold committed     *)
(* entries only, and committed entries that are never rewritten.           *)
(*                                                                         *)
(* The invariant speaks of the log each term's leader has written, which   *)
(* no variable keeps: IInv says that such a family ll exists.  Every entry *)
(* of every log has the history its term's leader gave it (OfLeaders).     *)
(* The heart is Kept: of an entry the leader of term t has written, either *)
(* a quorum has gone on to later terms without having acknowledged it, so  *)
(* that it can no longer be committed on this leader's count (Blocked), or *)
(* every node that acknowledged it still has it, every later leader's log  *)
(* has it, and every candidate of a later term that holds the vote of such *)
(* a node has it (Held).  An entry a quorum acknowledged is not blocked    *)
(* and therefore stays (Chosen).                                           *)
(*                                                                         *)
(* The actions are summed up in Step, what a step does to votes, rounds,   *)
(* leaders' logs, acknowledgements and logs; the parts of the invariant    *)
(* that relate nodes follow from Step alone (Combine), and each action is  *)
(* shown to be such a step.                                                *)
(***************************************************************************)
EXTENDS RaftGroup, TLAPS, FiniteSetTheorems, SequenceTheorems, WellFoundedInduction

Terms == 1 .. MaxTerm

\* Entry i of log L is of term t; the first k entries of two logs are the same.
Has(L, i, t) == i \in 1 .. Len(L) /\ L[i].term = t
Agree(L, M, k) == k <= Len(L) /\ k <= Len(M) /\ \A j \in 1 .. k : L[j] = M[j]
Extends(L, M) == Agree(L, M, Len(M))
Ordered(L) == \A j, k \in 1 .. Len(L) : j <= k => L[j].term <= L[k].term

\* Every entry of L has the history the leader of its term gave it.
OfLeaders(ll, L) == \A k \in 1 .. Len(L) : Agree(L, ll[L[k].term], k)

LastTerm(L) == IF Len(L) = 0 THEN 0 ELSE L[Len(L)].term
UpToDate(L, M) ==
  LastTerm(L) > LastTerm(M) \/ (LastTerm(L) = LastTerm(M) /\ Len(L) >= Len(M))

Quorums == {Q \in SUBSET Nodes : Cardinality(Q) >= quorum_size}
-----------------------------------------------------------------------------
Replies == [from : Nodes, term : 0 .. MaxTerm, ok : BOOLEAN, conflict_index : Nat]
Calls ==
  [kind : {"none", "vote", "append"}, via : {"none", "elected", "tick", "propose"},
   todo : Seq(Nodes), replies : Seq(Replies)]

Types ==
  /\ term \in [Nodes -> 0 .. MaxTerm] /\ vote \in [Nodes -> Nodes \cup {NoVote}]
  /\ log \in [Nodes -> Seq(Entry)] /\ commit \in [Nodes -> Nat]
  /\ role \in [Nodes -> {"follower", "candidate", "leader"}]
  /\ next \in [Nodes -> [Nodes -> Nat \ {0}]] /\ match \in [Nodes -> [Nodes -> Nat]]
  /\ applied \in [Nodes -> Seq(Entry)] /\ call \in [Nodes -> Calls]
  /\ committed \in Seq(Entry) /\ elected \in [Terms -> SUBSET Nodes]
  /\ restarts \in Nat

Leads(n) == role[n] = "leader"
InVote(c) == call[c].kind = "vote"

\* A node is in a round only as the candidate or leader that started it.
Rounds ==
  \A n \in Nodes :
    /\ call[n].kind = "none" => call[n] = Idle
    /\ InVote(n) => role[n] = "candidate" /\ term[n] \in Terms
    /\ call[n].kind = "append" => Leads(n)
    /\ \A i \in 1 .. Len(call[n].todo) : call[n].todo[i] # n

\* q can no longer vote for another than c in term t.
GaveVote(q, c, t) == term[q] >= t /\ (term[q] = t => vote[q] = c)

\* The votes a candidate counts were given to it, and to no other.
Candidates ==
  \A c \in Nodes : InVote(c) =>
    /\ c \notin elected[term[c]]
    /\ \A q \in Voters(c) : GaveVote(q, c, term[c])
    /\ \A d \in Nodes : InVote(d) /\ term[d] = term[c] /\ d # c => Voters(c) \cap Voters(d) = {}

\* A term has one leader, elected by a quorum that will elect no other.
Elected ==
  \A t \in Terms : \A n \in elected[t] :
    /\ term[n] >= t
    /\ \A m \in elected[t] : m = n
    /\ \E Q \in Quorums : \A q \in Q :
         /\ GaveVote(q, n, t)
         /\ \A c \in Nodes : InVote(c) /\ term[c] = t /\ c # n => q \notin Voters(c)
-----------------------------------------------------------------------------
\* ll[t] is the log the leader of term t wrote, empty if there is none.
LeaderLogs(ll) ==
  /\ ll \in [Terms -> Seq(Entry)]
  /\ \A t \in Terms :
       /\ ll[t] = <<>> <=> elected[t] = {}
       /\ ll[t] # <<>> => Has(ll[t], Len(ll[t]), t)
       /\ Ordered(ll[t]) /\ OfLeaders(ll, ll[t])

\* Every log is put together from what leaders wrote, in the order of terms.
Logs(ll) ==
  \A n \in Nodes :
    /\ Ordered(log[n]) /\ OfLeaders(ll, log[n])
    /\ \A k \in 1 .. Len(log[n]) : log[n][k].term <= term[n]

\* A leader has the log of its term, and knows of its peers what is in it.
Leaders(ll) ==
  \A n \in Nodes : Leads(n) =>
    /\ term[n] \in Terms /\ n \in elected[term[n]] /\ log[n] = ll[term[n]]
    /\ \A p \in Nodes : match[n][p] <= Len(log[n]) /\ next[n][p] <= Len(log[n]) + 1
    /\ \A i \in 1 .. Len(call[n].replies) : call[n].replies[i].conflict_index <= Len(log[n]) + 1

\* A request to append holds a piece of the log of its term.
Sent(ll, m) ==
  /\ m.from \in elected[m.term] /\ m.prev_log_index \in Nat /\ m.entries \in Seq(Entry)
  /\ m.leader_commit \in Nat
  /\ m.prev_log_index + Len(m.entries) <= Len(ll[m.term])
  /\ \A j \in 1 .. Len(m.entries) : m.entries[j] = ll[m.term][m.prev_log_index + j]
  /\ m.prev_log_term = IF m.prev_log_index = 0 THEN 0 ELSE ll[m.term][m.prev_log_index].term

Wellformed(ll, m) ==
  /\ m.from \in Nodes /\ m.to \in Nodes /\ m.from # m.to /\ m.term \in Terms
  /\ m.kind \in {"vote", "append"}
  /\ m.kind = "append" => Sent(ll, m)

Messages(ll) == \A m \in stale : Wellformed(ll, m)
-----------------------------------------------------------------------------
\* q has told the leader n that it has entry i.
Acked(n, q, i) ==
  \/ q = n \/ match[n][q] >= i
  \/ /\ call[n].kind = "append"
     /\ \E k \in 1 .. Len(call[n].replies) : call[n].replies[k].from = q /\ call[n].replies[k].ok

Leading(n, i) == Leads(n) /\ Has(log[n], i, term[n])

Blocked(n, i) == \E Q \in Quorums : \A q \in Q : term[q] > term[n] /\ ~Acked(n, q, i)

LaterHave(ll, i, t) == \A u \in Terms : u > t /\ ll[u] # <<>> => Has(ll[u], i, t)

Held(ll, n, i) ==
  /\ \A q \in Nodes : Acked(n, q, i) => Has(log[q], i, term[n])
  /\ LaterHave(ll, i, term[n])
  /\ \A c, q \in Nodes :
       InVote(c) /\ term[c] > term[n] /\ q \in Voters(c) /\ Acked(n, q, i) => Has(log[c], i, term[n])

Kept(ll) ==
  \A n \in Nodes : \A i \in 1 .. Len(log[n]) : Leading(n, i) =>
    /\ \A q \in Nodes : Acked(n, q, i) => term[q] >= term[n]
    /\ Blocked(n, i) \/ Held(ll, n, i)

\* Entry j of term t is on a quorum and in the log of every later leader.
Chosen(ll, j, t) ==
  /\ t \in Terms /\ Has(ll[t], j, t) /\ LaterHave(ll, j, t)
  /\ \E Q \in Quorums : \A q \in Q :
       /\ term[q] >= t /\ Has(log[q], j, t)
       /\ \A c \in Nodes : InVote(c) /\ term[c] > t /\ q \in Voters(c) => Has(log[c], j, t)

\* What is committed ends in a chosen entry.
Commits(ll) ==
  committed # <<>> =>
    LET t == committed[Len(committed)].term
    IN  Chosen(ll, Len(committed), t) /\ Extends(ll[t], committed)

\* The first k entries are committed, as a leader up to term t found out.
Known(ll, k, t) ==
  k = 0 \/ \E u \in 1 .. t : \E j \in k .. Len(committed) :
             Chosen(ll, j, u) /\ Agree(committed, ll[u], j)

\* Commit indexes are covered by committed entries, until a node restarts.
Applies(ll) ==
  restarts = 0 =>
    /\ \A n \in Nodes :
         /\ Known(ll, commit[n], term[n]) /\ Agree(log[n], committed, commit[n])
         /\ Len(applied[n]) <= commit[n] /\ Extends(committed, applied[n])
    /\ \A m \in stale : m.kind = "append" =>
         /\ Known(ll, m.leader_commit, m.term)
         /\ m.leader_commit <= m.prev_log_index + Len(m.entries)
-----------------------------------------------------------------------------
(***************************************************************************)
(* What every step does to votes, logs and acknowledgements.               *)
(***************************************************************************)
VoteStep ==
  \A q \in Nodes : term'[q] > term[q] \/ (term'[q] = term[q] /\ vote[q] \in {NoVote, vote'[q]})

Grants(q, c) ==
  /\ term[q] <= term'[c] /\ term'[q] = term'[c] /\ vote'[q] = c
  /\ term[q] = term'[c] => vote[q] \in {NoVote, c}
  /\ UpToDate(log[c], log[q])

RoundStep ==
  \A c \in Nodes : InVote(c)' =>
    /\ log'[c] = log[c]
    /\ (InVote(c) /\ term'[c] = term[c]) \/ term'[c] > term[c]
    /\ \A q \in Voters(c)' : (InVote(c) /\ term'[c] = term[c] /\ q \in Voters(c)) \/ Grants(q, c)

Wins(c, t) == InVote(c) /\ ~InVote(c)' /\ term[c] = t /\ Voters(c) \in Quorums

ElectStep(ll, ll2) ==
  \A t \in Terms :
    \/ elected'[t] = elected[t] /\ Extends(ll2[t], ll[t]) /\ (ll2[t] = <<>> <=> ll[t] = <<>>)
    \/ \E c \in Nodes : /\ Wins(c, t) /\ elected'[t] = elected[t] \cup {c}
                        /\ Extends(ll2[t], log[c])

NewAck(n, q) == term[q] <= term[n] /\ term'[q] = term[n] /\ Extends(log'[q], log[n])

LeadStep ==
  \A n \in Nodes : Leads(n)' =>
    \/ Leads(n) /\ term'[n] = term[n] /\ Extends(log'[n], log[n])
    \/ ~Leads(n) /\ term'[n] = term[n]

AckStep ==
  \A n, q \in Nodes : \A i \in 1 .. Len(log'[n]) : Leads(n)' /\ Acked(n, q, i)' =>
    \/ q = n
    \/ Leads(n) /\ i <= Len(log[n]) /\ (Acked(n, q, i) \/ NewAck(n, q))

Keeps(L, G, R) == \A i \in 1 .. Len(L) : Has(G, i, L[i].term) => Has(R, i, L[i].term)

LogStep(ll) ==
  \A q \in Nodes :
    \/ Extends(log'[q], log[q])
    \/ \E t \in Terms : t >= term[q] /\ ll[t] # <<>> /\ Keeps(log[q], ll[t], log'[q])

Step(ll, ll2) ==
  VoteStep /\ RoundStep /\ ElectStep(ll, ll2) /\ LeadStep /\ AckStep /\ LogStep(ll)
-----------------------------------------------------------------------------
\* A set of numbers has a least element.
LEMMA Least ==
  ASSUME NEW S \in SUBSET Nat, S # {}
  PROVE  \E x \in S : \A y \in S : x <= y
<1>1. PICK x \in S : \A y \in S : ~(<<y, x>> \in OpToRel(<, Nat))
  BY NatLessThanWellFounded, WFMin
<1>2. \A y \in S : ~(y < x)
  BY <1>1 DEF OpToRel
<1> QED BY <1>2

\* A bounded set of numbers has a greatest element.
LEMMA Greatest ==
  ASSUME NEW S \in SUBSET Nat, S # {}, NEW b \in Nat, \A x \in S : x <= b
  PROVE  \E x \in S : \A y \in S : y <= x
<1> DEFINE T == {k \in Nat : \E x \in S : k + x = b}
<1>1. T \in SUBSET Nat /\ T # {}
  <2>1. PICK x \in S : TRUE
    OBVIOUS
  <2>2. b - x \in Nat /\ (b - x) + x = b
    OBVIOUS
  <2> QED BY <2>2
<1>2. PICK z \in T : \A y \in T : z <= y
  BY <1>1, Least
<1>3. PICK x \in S : z + x = b
  OBVIOUS
<1>4. \A y \in S : y <= x
  <2> TAKE y \in S
  <2>1. b - y \in T
    OBVIOUS
  <2>2. z <= b - y
    BY <1>2, <2>1
  <2>3. x \in Nat /\ y \in Nat /\ z \in Nat
    OBVIOUS
  <2> HIDE DEF T
  <2> QED BY <1>3, <2>2, <2>3
<1> QED BY <1>4

\* Max and Min are what they are called.
LEMMA MaxIs ==
  ASSUME NEW S \in SUBSET Nat, S # {}, NEW b \in Nat, \A x \in S : x <= b
  PROVE  Max(S) \in S /\ \A y \in S : y <= Max(S)
<1>1. \E x \in S : \A y \in S : x >= y
  BY Greatest
<1> QED BY <1>1, Zenon DEF Max

LEMMA MinIs ==
  ASSUME NEW S \in SUBSET Nat, S # {}
  PROVE  Min(S) \in S /\ \A y \in S : Min(S) <= y
<1>1. \E x \in S : \A y \in S : x <= y
  BY Least
<1> QED BY <1>1, Zenon DEF Min

\* What the constants are assumed to be.
LEMMA Limits == MaxTerm \in Nat /\ NoVote \notin Nodes
  BY ConstantsAssumption DEF NoVote

\* No node goes back to an earlier term.
LEMMA TermsGrow ==
  ASSUME Types, Types', VoteStep
  PROVE  \A q \in Nodes : term[q] \in Nat /\ term'[q] \in Nat /\ term'[q] >= term[q]
<1> TAKE q \in Nodes
<1>1. term[q] \in Nat /\ term'[q] \in Nat
  BY Limits DEF Types
<1> QED BY <1>1 DEF VoteStep

\* Two quorums have a node in common.
LEMMA QuorumsMeet ==
  ASSUME NEW P \in Quorums, NEW Q \in Quorums
  PROVE  \E q \in Nodes : q \in P /\ q \in Q
<1>1. IsFiniteSet(Nodes) /\ P \subseteq Nodes /\ Q \subseteq Nodes
  BY ConstantsAssumption DEF Quorums
<1>2. Cardinality(Nodes) \in Nat /\ Cardinality(P) \in Nat /\ Cardinality(Q) \in Nat
  BY <1>1, FS_CardinalityType, FS_Subset
<1>3. Cardinality(P) + Cardinality(Q) > Cardinality(Nodes)
  BY <1>2 DEF Quorums, quorum_size
<1>4. P \cap Q # {}
  BY <1>1, <1>3, FS_MajoritiesIntersect
<1> QED BY <1>1, <1>4

\* The voters of a candidate are nodes, itself among them.
LEMMA VotersAreNodes ==
  ASSUME Types, NEW c \in Nodes PROVE Voters(c) \subseteq Nodes /\ c \in Voters(c)
<1>1. call[c].replies \in Seq(Replies)
  BY DEF Types, Calls
<1>2. \A i \in DOMAIN call[c].replies : call[c].replies[i] \in Replies
  BY <1>1
<1> QED BY <1>2 DEF Voters, Replies

LEMMA VotersAreNodesNext ==
  ASSUME Types', NEW c \in Nodes PROVE Voters(c)' \subseteq Nodes /\ c \in Voters(c)'
<1>1. call'[c].replies \in Seq(Replies)
  BY DEF Types, Calls
<1>2. \A i \in DOMAIN call'[c].replies : call'[c].replies[i] \in Replies
  BY <1>1
<1> QED BY <1>2 DEF Voters, Replies

\* A vote that was given stays given.
LEMMA GaveVoteStays ==
  ASSUME Types, Types', VoteStep, NEW q \in Nodes, NEW c \in Nodes, NEW t \in Nat,
         GaveVote(q, c, t)
  PROVE  term'[q] >= t /\ (term'[q] = t => vote'[q] = c)
<1>1. term[q] \in Nat /\ term'[q] \in Nat /\ c # NoVote
  BY Limits DEF Types
<1> QED BY <1>1 DEF GaveVote, VoteStep

\* A node that grants its vote has given it to no one else.
LEMMA GrantsOnce ==
  ASSUME Types, Types', NEW q \in Nodes, NEW c \in Nodes, NEW d \in Nodes, c # d,
         Grants(q, c), GaveVote(q, d, term'[c])
  PROVE  FALSE
<1>1. term[q] \in Nat /\ term'[c] \in Nat /\ d # NoVote
  BY Limits DEF Types
<1> QED BY <1>1 DEF Grants, GaveVote

\* The candidates' part of the invariant follows from Step.
LEMMA CandidatesStep ==
  ASSUME Types, Types', Rounds, Candidates, Elected, NEW ll, NEW ll2, Step(ll, ll2), Rounds'
  PROVE  Candidates'
<1> SUFFICES ASSUME NEW c \in Nodes, InVote(c)'
             PROVE  /\ c \notin elected'[term'[c]]
                    /\ \A q \in Voters(c)' : GaveVote(q, c, term[c])'
                    /\ \A d \in Nodes : InVote(d)' /\ term'[d] = term'[c] /\ d # c
                         => Voters(c)' \cap Voters(d)' = {}
  BY DEF Candidates
<1>1. term'[c] \in Terms /\ term[c] \in Nat /\ term'[c] \in Nat
  BY DEF Rounds, Types, Terms
<1>2. c \notin elected'[term'[c]]
  <2>1. c \notin elected[term'[c]]
    BY <1>1 DEF Step, RoundStep, Candidates, Elected
  <2>2. \A d \in Nodes : Wins(d, term'[c]) => d # c
    BY DEF Wins
  <2> QED BY <1>1, <2>1, <2>2 DEF Step, ElectStep
<1>3. \A q \in Voters(c)' : GaveVote(q, c, term[c])'
  <2> TAKE q \in Voters(c)'
  <2>1. q \in Nodes
    BY VotersAreNodesNext
  <2>2. CASE InVote(c) /\ term'[c] = term[c] /\ q \in Voters(c)
    <3>1. GaveVote(q, c, term[c])
      BY <2>2 DEF Candidates
    <3>2. term'[q] >= term[c] /\ (term'[q] = term[c] => vote'[q] = c)
      BY <1>1, <2>1, <3>1, GaveVoteStays DEF Step
    <3> QED BY <2>2, <3>2 DEF GaveVote
  <2>3. CASE Grants(q, c)
    BY <2>3, <1>1 DEF Grants, GaveVote
  <2> QED BY <2>2, <2>3 DEF Step, RoundStep
<1>4. ASSUME NEW d \in Nodes, InVote(d)', term'[d] = term'[c], d # c,
             NEW q \in Nodes, q \in Voters(c)', q \in Voters(d)'
      PROVE  FALSE
  <2>1. \/ InVote(c) /\ term'[c] = term[c] /\ q \in Voters(c)
        \/ Grants(q, c)
    BY <1>4 DEF Step, RoundStep
  <2>2. \/ InVote(d) /\ term'[d] = term[d] /\ q \in Voters(d)
        \/ Grants(q, d)
    BY <1>4 DEF Step, RoundStep
  <2>3. CASE Grants(q, c) /\ Grants(q, d)
    BY <1>4, <2>3 DEF Grants
  <2>4. CASE Grants(q, c) /\ InVote(d) /\ term'[d] = term[d] /\ q \in Voters(d)
    <3>1. GaveVote(q, d, term'[c])
      BY <1>4, <2>4 DEF Candidates
    <3> QED BY <1>4, <2>4, <3>1, GrantsOnce
  <2>5. CASE Grants(q, d) /\ InVote(c) /\ term'[c] = term[c] /\ q \in Voters(c)
    <3>1. GaveVote(q, c, term'[d])
      BY <1>4, <2>5 DEF Candidates
    <3> QED BY <1>4, <2>5, <3>1, GrantsOnce
  <2>6. CASE /\ InVote(c) /\ term'[c] = term[c] /\ q \in Voters(c)
             /\ InVote(d) /\ term'[d] = term[d] /\ q \in Voters(d)
    BY <1>4, <2>6 DEF Candidates
  <2> QED BY <2>1, <2>2, <2>3, <2>4, <2>5, <2>6
<1>5. \A d \in Nodes : InVote(d)' /\ term'[d] = term'[c] /\ d # c
        => Voters(c)' \cap Voters(d)' = {}
  BY <1>4, VotersAreNodesNext
<1> QED BY <1>2, <1>3, <1>5

\* Nobody of the quorum that elected n votes for another candidate.
LEMMA QuorumStays ==
  ASSUME Types, Types', Candidates, NEW ll, NEW ll2, Step(ll, ll2),
         NEW n \in Nodes, NEW t \in Terms, NEW q \in Nodes, GaveVote(q, n, t),
         \A c \in Nodes : InVote(c) /\ term[c] = t /\ c # n => q \notin Voters(c)
  PROVE  /\ GaveVote(q, n, t)'
         /\ \A c \in Nodes : InVote(c)' /\ term'[c] = t /\ c # n => q \notin Voters(c)'
<1>1. t \in Nat
  BY DEF Terms
<1>2. GaveVote(q, n, t)'
  BY <1>1, GaveVoteStays DEF Step, GaveVote
<1>3. ASSUME NEW c \in Nodes, InVote(c)', term'[c] = t, c # n, q \in Voters(c)'
      PROVE  FALSE
  <2>1. CASE Grants(q, c)
    BY <1>3, <2>1, GrantsOnce
  <2>2. CASE InVote(c) /\ term'[c] = term[c] /\ q \in Voters(c)
    BY <1>3, <2>2
  <2> QED BY <1>3, <2>1, <2>2 DEF Step, RoundStep
<1> QED BY <1>2, <1>3

\* A term that is won has had no leader.
LEMMA WinsFirst ==
  ASSUME Types, Candidates, Elected, NEW t \in Terms, NEW c \in Nodes, Wins(c, t)
  PROVE  elected[t] = {}
<1> SUFFICES ASSUME NEW m \in elected[t] PROVE FALSE
  OBVIOUS
<1>1. m \in Nodes /\ m # c
  BY DEF Types, Wins, Candidates
<1>2. PICK Q \in Quorums : \A q \in Q : \A d \in Nodes :
        InVote(d) /\ term[d] = t /\ d # m => q \notin Voters(d)
  BY DEF Elected
<1>3. PICK q \in Nodes : q \in Q /\ q \in Voters(c)
  BY QuorumsMeet DEF Wins
<1> QED BY <1>1, <1>2, <1>3 DEF Wins

\* So does the leaders' part: a term keeps its one leader.
LEMMA ElectedStep ==
  ASSUME Types, Types', Candidates, Elected, NEW ll, NEW ll2, Step(ll, ll2)
  PROVE  Elected'
<1> SUFFICES ASSUME NEW t \in Terms, NEW n \in elected'[t]
             PROVE  /\ term'[n] >= t
                    /\ \A m \in elected'[t] : m = n
                    /\ \E Q \in Quorums : \A q \in Q :
                         /\ GaveVote(q, n, t)'
                         /\ \A c \in Nodes : InVote(c)' /\ term'[c] = t /\ c # n => q \notin Voters(c)'
  BY DEF Elected
<1>1. n \in Nodes /\ t \in Nat /\ term[n] \in Nat /\ term'[n] \in Nat
  <2>1. n \in Nodes
    BY DEF Types
  <2> QED BY <2>1, Limits DEF Types, Terms
<1>2. term'[n] >= term[n]
  BY <1>1 DEF Step, VoteStep
<1>3. CASE elected'[t] = elected[t]
  <2>1. term[n] >= t /\ \A m \in elected'[t] : m = n
    BY <1>3 DEF Elected
  <2>2. PICK Q \in Quorums : \A q \in Q :
          /\ GaveVote(q, n, t)
          /\ \A c \in Nodes : InVote(c) /\ term[c] = t /\ c # n => q \notin Voters(c)
    BY <1>3 DEF Elected
  <2>3. \A q \in Q : q \in Nodes
    BY DEF Quorums
  <2>4. \A q \in Q :
          /\ GaveVote(q, n, t)'
          /\ \A c \in Nodes : InVote(c)' /\ term'[c] = t /\ c # n => q \notin Voters(c)'
    BY <1>1, <2>2, <2>3, QuorumStays
  <2> QED BY <1>1, <1>2, <2>1, <2>4
<1>4. CASE \E c \in Nodes : Wins(c, t) /\ elected'[t] = elected[t] \cup {c}
  <2>1. PICK c \in Nodes : Wins(c, t) /\ elected'[t] = elected[t] \cup {c}
    BY <1>4
  <2>2. n = c /\ \A m \in elected'[t] : m = n
    BY <2>1, WinsFirst
  <2>3. term[n] = t /\ Voters(n) \in Quorums /\ InVote(n)
    BY <2>1, <2>2 DEF Wins
  <2>4. \A q \in Voters(n) : q \in Nodes
    BY <1>1, VotersAreNodes
  <2>5. \A q \in Voters(n) :
          /\ GaveVote(q, n, t)
          /\ \A d \in Nodes : InVote(d) /\ term[d] = t /\ d # n => q \notin Voters(d)
    BY <1>1, <2>3 DEF Candidates
  <2>6. \A q \in Voters(n) :
          /\ GaveVote(q, n, t)'
          /\ \A d \in Nodes : InVote(d)' /\ term'[d] = t /\ d # n => q \notin Voters(d)'
    BY <1>1, <2>4, <2>5, QuorumStays
  <2> QED BY <1>1, <1>2, <2>2, <2>3, <2>6
<1> QED BY <1>3, <1>4 DEF Step, ElectStep

-----------------------------------------------------------------------------
(***************************************************************************)
(* Logs.                                                                   *)
(***************************************************************************)
\* The entries of a log are of terms that exist.
LEMMA TermsOf == ASSUME NEW L \in Seq(Entry), NEW i \in 1 .. Len(L) PROVE L[i].term \in Terms
<1>1. L[i] \in Entry
  BY ElementOfSeq
<1> QED BY <1>1 DEF Entry, Terms

\* A longer log has the entries of the shorter.
LEMMA ExtendsHas ==
  ASSUME NEW L \in Seq(Entry), NEW M \in Seq(Entry), Extends(L, M), NEW i, NEW t, Has(M, i, t)
  PROVE  Has(L, i, t)
<1>1. Len(L) \in Nat /\ Len(M) \in Nat
  OBVIOUS
<1> QED BY <1>1 DEF Extends, Agree, Has

\* Two logs with an entry of the same index and term agree up to it.
LEMMA SameEntry ==
  ASSUME NEW ll, NEW L \in Seq(Entry), NEW M \in Seq(Entry), OfLeaders(ll, L), OfLeaders(ll, M),
         NEW i, NEW t, Has(L, i, t), Has(M, i, t)
  PROVE  Agree(L, M, i)
<1>1. Len(L) \in Nat /\ Len(M) \in Nat
  OBVIOUS
<1>2. Agree(L, ll[t], i) /\ Agree(M, ll[t], i)
  BY DEF OfLeaders, Has
<1> QED BY <1>1, <1>2 DEF Agree, Has

\* A log that is at least as up to date as one with entry i of term t has that
\* entry, if the leaders of all later terms have it.
LEMMA UpToDateHas ==
  ASSUME NEW ll \in [Terms -> Seq(Entry)], NEW L \in Seq(Entry), NEW M \in Seq(Entry),
         OfLeaders(ll, L), OfLeaders(ll, M), Ordered(M), UpToDate(L, M),
         \A u \in Terms : Ordered(ll[u]),
         NEW i, NEW t \in Terms, Has(M, i, t), LaterHave(ll, i, t)
  PROVE  Has(L, i, t)
<1> DEFINE u == L[Len(L)].term
<1>1. Len(L) \in Nat /\ Len(M) \in Nat /\ i \in 1 .. Len(M) /\ t \in Nat
  BY DEF Has, Terms
<1>2. M[Len(M)].term \in Terms /\ M[Len(M)].term \in Nat /\ M[Len(M)].term >= t
  <2>1. Len(M) \in 1 .. Len(M)
    BY <1>1
  <2>2. M[Len(M)].term \in Terms /\ t <= M[Len(M)].term
    BY <1>1, <2>1, TermsOf DEF Ordered, Has
  <2> QED BY <2>2 DEF Terms
<1>3. LastTerm(M) = M[Len(M)].term /\ LastTerm(M) \in Nat /\ LastTerm(M) > 0
  BY <1>1, <1>2 DEF LastTerm, Terms
<1>4. Len(L) \in 1 .. Len(L) /\ LastTerm(L) = u
  <2>1. ASSUME Len(L) = 0 PROVE FALSE
    <3>1. LastTerm(L) = 0
      BY <2>1 DEF LastTerm
    <3> QED BY <1>3, <3>1 DEF UpToDate
  <2> QED BY <1>1, <2>1 DEF LastTerm
<1>5. u \in Terms /\ u \in Nat
  BY <1>4, TermsOf DEF Terms
<1>6. u >= t
  <2>1. LastTerm(L) >= LastTerm(M)
    BY <1>3, <1>4, <1>5 DEF UpToDate
  <2> QED BY <1>1, <1>2, <1>3, <1>4, <1>5, <2>1
<1>7. Agree(L, ll[u], Len(L))
  BY <1>4 DEF OfLeaders
<1>8. CASE u = t
  <2>1. Len(L) >= Len(M)
    BY <1>1, <1>2, <1>3, <1>4, <1>5, <1>8 DEF UpToDate
  <2>2. Agree(M, ll[t], i)
    BY <1>1 DEF OfLeaders, Has
  <2>3. L[i] = M[i]
    BY <1>1, <1>7, <1>8, <2>1, <2>2 DEF Agree
  <2> QED BY <1>1, <2>1, <2>3 DEF Has
<1>9. CASE u > t
  <2>1. ll[u] \in Seq(Entry) /\ Len(ll[u]) \in Nat
    BY <1>5
  <2>2. Len(L) <= Len(ll[u]) /\ ll[u][Len(L)] = L[Len(L)]
    BY <1>4, <1>7 DEF Agree
  <2>3. ll[u] # <<>>
    BY <1>4, <2>1, <2>2
  <2>4. Has(ll[u], i, t)
    BY <1>5, <1>9, <2>3 DEF LaterHave
  <2>5. i < Len(L)
    <3> SUFFICES ASSUME Len(L) <= i PROVE FALSE
      BY <1>1
    <3>1. Len(L) \in 1 .. Len(ll[u]) /\ i \in 1 .. Len(ll[u])
      BY <1>4, <2>1, <2>2, <2>4 DEF Has
    <3>2. ll[u][Len(L)].term <= ll[u][i].term
      BY <1>5, <3>1 DEF Ordered
    <3> QED BY <1>1, <1>5, <1>9, <2>2, <2>4, <3>2 DEF Has
  <2>6. L[i] = ll[u][i]
    BY <1>1, <1>7, <2>5 DEF Agree
  <2> QED BY <1>1, <2>4, <2>5, <2>6 DEF Has
<1> HIDE DEF u
<1> QED BY <1>1, <1>5, <1>6, <1>8, <1>9

\* What a step does to a log keeps entry i of term t when the leaders of later
\* terms have it and the leader of t had it.
LEMMA StepHas ==
  ASSUME Types, Types', NEW ll, LeaderLogs(ll), LogStep(ll), NEW q \in Nodes, NEW i, NEW t \in Terms,
         Has(log[q], i, t), term[q] >= t, Has(ll[t], i, t), LaterHave(ll, i, t)
  PROVE  Has(log'[q], i, t)
<1>1. log[q] \in Seq(Entry) /\ log'[q] \in Seq(Entry)
  BY DEF Types
<1>2. CASE Extends(log'[q], log[q])
  BY <1>1, <1>2, ExtendsHas
<1>3. ASSUME NEW u \in Terms, u >= term[q], ll[u] # <<>>, Keeps(log[q], ll[u], log'[q])
      PROVE  Has(log'[q], i, t)
  <2>1. u \in Nat /\ t \in Nat /\ term[q] \in Nat
    BY Limits DEF Terms, Types
  <2>2. Has(ll[u], i, t)
    BY <1>3, <2>1 DEF LaterHave
  <2> QED BY <1>3, <2>2 DEF Keeps, Has
<1> QED BY <1>2, <1>3 DEF LogStep

\* The logs of the leaders after a step: a term that is won takes over the log
\* of its candidate, and the others grow.
LEMMA LaterStep ==
  ASSUME Types, NEW ll, NEW ll2, LeaderLogs(ll), LeaderLogs(ll2)', ElectStep(ll, ll2),
         NEW i, NEW t \in Terms, LaterHave(ll, i, t),
         \A c \in Nodes : \A u \in Terms : Wins(c, u) /\ u > t => Has(log[c], i, t)
  PROVE  LaterHave(ll2, i, t)
<1> SUFFICES ASSUME NEW u \in Terms, u > t, ll2[u] # <<>> PROVE Has(ll2[u], i, t)
  BY DEF LaterHave
<1>1. ll[u] \in Seq(Entry) /\ ll2[u] \in Seq(Entry)
  BY DEF LeaderLogs
<1>2. CASE Extends(ll2[u], ll[u]) /\ (ll2[u] = <<>> <=> ll[u] = <<>>)
  <2>1. Has(ll[u], i, t)
    BY <1>2 DEF LaterHave
  <2> QED BY <1>1, <1>2, <2>1, ExtendsHas
<1>3. ASSUME NEW c \in Nodes, Wins(c, u), Extends(ll2[u], log[c]) PROVE Has(ll2[u], i, t)
  <2>1. Has(log[c], i, t) /\ log[c] \in Seq(Entry)
    BY <1>3 DEF Types
  <2> QED BY <1>1, <1>3, <2>1, ExtendsHas
<1> QED BY <1>2, <1>3 DEF ElectStep

\* An entry that is chosen stays chosen.
LEMMA ChosenStays ==
  ASSUME Types, Types', Candidates, Elected, NEW ll, NEW ll2, LeaderLogs(ll), LeaderLogs(ll2)',
         Logs(ll), Step(ll, ll2), NEW j, NEW t, Chosen(ll, j, t)
  PROVE  Chosen(ll2, j, t)'
<1>1. t \in Terms /\ Has(ll[t], j, t) /\ LaterHave(ll, j, t) /\ t \in Nat
  BY DEF Chosen, Terms
<1>2. PICK Q \in Quorums : \A q \in Q :
        /\ term[q] >= t /\ Has(log[q], j, t)
        /\ \A c \in Nodes : InVote(c) /\ term[c] > t /\ q \in Voters(c) => Has(log[c], j, t)
  BY DEF Chosen
<1>3. \A q \in Q : q \in Nodes
  BY DEF Quorums
<1>4. LaterHave(ll2, j, t)
  <2>1. ASSUME NEW c \in Nodes, NEW u \in Terms, Wins(c, u), u > t PROVE Has(log[c], j, t)
    <3>1. PICK q \in Nodes : q \in Q /\ q \in Voters(c)
      BY <2>1, QuorumsMeet DEF Wins
    <3> QED BY <1>2, <2>1, <3>1 DEF Wins
  <2> QED BY <1>1, <2>1, LaterStep DEF Step
<1>5. Has(ll2[t], j, t)
  <2>1. ll[t] \in Seq(Entry) /\ ll2[t] \in Seq(Entry)
    BY <1>1 DEF LeaderLogs
  <2>2. CASE Extends(ll2[t], ll[t])
    BY <1>1, <2>1, <2>2, ExtendsHas
  <2>3. ASSUME NEW c \in Nodes, Wins(c, t) PROVE FALSE
    <3>1. ll[t] = <<>>
      BY <1>1, <2>3, WinsFirst DEF LeaderLogs
    <3> QED BY <1>1, <3>1 DEF Has
  <2> QED BY <1>1, <2>2, <2>3 DEF Step, ElectStep
<1>6. ASSUME NEW q \in Q
      PROVE  /\ term'[q] >= t /\ Has(log'[q], j, t)
             /\ \A c \in Nodes : InVote(c)' /\ term'[c] > t /\ q \in Voters(c)' => Has(log'[c], j, t)
  <2>1. q \in Nodes /\ term[q] \in Nat /\ term'[q] \in Nat /\ term[q] >= t /\ Has(log[q], j, t)
    BY <1>2, <1>3, Limits DEF Types
  <2>2. term'[q] >= t
    BY <1>1, <2>1 DEF Step, VoteStep
  <2>3. Has(log'[q], j, t)
    BY <1>1, <2>1, StepHas DEF Step
  <2>4. ASSUME NEW c \in Nodes, InVote(c)', term'[c] > t, q \in Voters(c)'
        PROVE  Has(log'[c], j, t)
    <3>1. log'[c] = log[c] /\ log[c] \in Seq(Entry) /\ log[q] \in Seq(Entry)
      BY <2>1, <2>4 DEF Step, RoundStep, Types
    <3>2. CASE InVote(c) /\ term'[c] = term[c] /\ q \in Voters(c)
      BY <1>2, <2>4, <3>1, <3>2
    <3>3. CASE Grants(q, c)
      <4>1. /\ ll \in [Terms -> Seq(Entry)] /\ \A u \in Terms : Ordered(ll[u])
            /\ OfLeaders(ll, log[c]) /\ OfLeaders(ll, log[q]) /\ Ordered(log[q])
        BY <2>1 DEF LeaderLogs, Logs
      <4> QED BY <1>1, <2>1, <3>1, <3>3, <4>1, UpToDateHas DEF Grants
    <3> QED BY <2>4, <3>2, <3>3 DEF Step, RoundStep
  <2> QED BY <2>2, <2>3, <2>4
<1> QED BY <1>1, <1>4, <1>5, <1>6 DEF Chosen

\* A leader whose entry was blocked or held keeps it so.
LEMMA KeptByOld ==
  ASSUME Types, Types', Candidates, Candidates', NEW ll, NEW ll2, LeaderLogs(ll),
         LeaderLogs(ll2)', Logs(ll), Leaders(ll), Kept(ll), Step(ll, ll2),
         NEW n \in Nodes, NEW i \in 1 .. Len(log[n]), NEW t \in Terms,
         term[n] = t, term'[n] = t, Leading(n, i), Leading(n, i)'
  PROVE  /\ \A q \in Nodes : Acked(n, q, i)' => term'[q] >= t
         /\ Blocked(n, i)' \/ Held(ll2, n, i)'
<1>1. /\ log[n] \in Seq(Entry) /\ log'[n] \in Seq(Entry) /\ Len(log[n]) \in Nat /\ i \in Nat \ {0}
      /\ t \in Nat /\ Leads(n) /\ Leads(n)' /\ Has(log[n], i, t) /\ Has(log'[n], i, t)
  <2>1. log[n] \in Seq(Entry) /\ log'[n] \in Seq(Entry)
    BY DEF Types
  <2>2. Len(log[n]) \in Nat
    BY <2>1
  <2> QED BY <2>1, <2>2 DEF Leading, Terms
<1>2. log[n] = ll[t]
  BY <1>1 DEF Leaders
<1>3. \A q \in Nodes : term[q] \in Nat /\ term'[q] \in Nat /\ term'[q] >= term[q]
  BY TermsGrow DEF Step
<1>4. \A q \in Nodes : Acked(n, q, i) => term[q] >= t
  BY DEF Kept
<1>5. \A q \in Nodes : Acked(n, q, i)' => q = n \/ Acked(n, q, i) \/ NewAck(n, q)
  BY <1>1 DEF Step, AckStep, Has
<1>6. \A q \in Nodes : Acked(n, q, i)' => term'[q] >= t
  BY <1>1, <1>3, <1>4, <1>5 DEF NewAck
<1>7. ASSUME Blocked(n, i) PROVE Blocked(n, i)'
  <2>1. PICK Q \in Quorums : \A q \in Q : term[q] > t /\ ~Acked(n, q, i)
    BY <1>7 DEF Blocked
  <2>2. \A q \in Q : q \in Nodes /\ q # n
    BY <1>1, <2>1 DEF Quorums
  <2>3. \A q \in Q : ~NewAck(n, q)
    BY <1>1, <1>3, <2>1, <2>2 DEF NewAck
  <2>4. \A q \in Q : term'[q] > t /\ ~Acked(n, q, i)'
    BY <1>1, <1>3, <1>5, <2>1, <2>2, <2>3
  <2> QED BY <2>4 DEF Blocked
<1>8. ASSUME ~Blocked(n, i) PROVE Held(ll2, n, i)'
  <2>1. /\ \A q \in Nodes : Acked(n, q, i) => Has(log[q], i, t)
        /\ LaterHave(ll, i, t)
        /\ \A c, q \in Nodes :
             InVote(c) /\ term[c] > t /\ q \in Voters(c) /\ Acked(n, q, i) => Has(log[c], i, t)
    BY <1>8 DEF Kept, Held
  <2>2. ASSUME NEW c \in Nodes, NEW u \in Terms, Wins(c, u), u > t PROVE Has(log[c], i, t)
    <3> SUFFICES ASSUME ~Has(log[c], i, t) PROVE FALSE
      OBVIOUS
    <3>1. InVote(c) /\ term[c] = u /\ Voters(c) \in Quorums /\ Voters(c) \subseteq Nodes /\ u \in Nat
      BY <2>2, VotersAreNodes DEF Wins, Terms
    <3>2. \A q \in Voters(c) : term[q] > t /\ ~Acked(n, q, i)
      BY <1>1, <1>3, <2>1, <2>2, <3>1 DEF Candidates, GaveVote
    <3> QED BY <1>8, <3>1, <3>2 DEF Blocked
  <2>3. LaterHave(ll2, i, t)
    BY <2>1, <2>2, LaterStep DEF Step
  <2>4. ASSUME NEW q \in Nodes, Acked(n, q, i)' PROVE Has(log'[q], i, t)
    <3>1. CASE q = n
      BY <1>1, <3>1
    <3>2. CASE Acked(n, q, i)
      <4>1. Has(log[q], i, t) /\ term[q] >= t
        BY <1>4, <2>1, <3>2
      <4> QED BY <1>1, <1>2, <2>1, <4>1, StepHas DEF Step
    <3>3. CASE NewAck(n, q)
      <4>1. log'[q] \in Seq(Entry) /\ Extends(log'[q], log[n])
        BY <3>3 DEF NewAck, Types
      <4> QED BY <1>1, <4>1, ExtendsHas
    <3> QED BY <1>5, <2>4, <3>1, <3>2, <3>3
  <2>5. ASSUME NEW c \in Nodes, NEW q \in Nodes, InVote(c)', term'[c] > t, q \in Voters(c)',
               Acked(n, q, i)'
        PROVE  Has(log'[c], i, t)
    <3>1. log'[c] = log[c] /\ log[c] \in Seq(Entry) /\ log[q] \in Seq(Entry)
      BY <2>5 DEF Step, RoundStep, Types
    <3>2. term'[q] >= term'[c]
      BY <2>5 DEF Candidates, GaveVote
    <3>3. Acked(n, q, i)
      BY <1>1, <1>3, <1>5, <2>5, <3>2 DEF NewAck
    <3>4. CASE InVote(c) /\ term'[c] = term[c] /\ q \in Voters(c)
      BY <2>1, <2>5, <3>1, <3>3, <3>4
    <3>5. CASE Grants(q, c)
      <4>1. /\ ll \in [Terms -> Seq(Entry)] /\ \A u \in Terms : Ordered(ll[u])
            /\ OfLeaders(ll, log[c]) /\ OfLeaders(ll, log[q]) /\ Ordered(log[q])
        BY DEF LeaderLogs, Logs
      <4>2. Has(log[q], i, t)
        BY <2>1, <3>3
      <4> QED BY <2>1, <3>1, <3>5, <4>1, <4>2, UpToDateHas DEF Grants
    <3> QED BY <2>5, <3>4, <3>5 DEF Step, RoundStep
  <2> QED BY <2>3, <2>4, <2>5 DEF Held
<1> QED BY <1>6, <1>7, <1>8

\* An entry a leader has just written is on its own disk only: if a later term
\* has a leader, then the quorum that elected it is against the entry.
LEMMA KeptByNew ==
  ASSUME Types, Types', Candidates', Elected', NEW ll, NEW ll2, LeaderLogs(ll2)', Step(ll, ll2),
         NEW n \in Nodes, NEW i \in 1 .. Len(log'[n]), NEW t \in Terms,
         term'[n] = t, Leading(n, i)', ~(Leads(n) /\ i <= Len(log[n]))
  PROVE  /\ \A q \in Nodes : Acked(n, q, i)' => term'[q] >= t
         /\ Blocked(n, i)' \/ Held(ll2, n, i)'
<1>1. t \in Nat /\ i \in Nat \ {0} /\ Leads(n)' /\ Has(log'[n], i, t)
  BY DEF Leading, Terms
<1>2. \A q \in Nodes : Acked(n, q, i)' => q = n
  BY <1>1 DEF Step, AckStep
<1>3. \A q \in Nodes : term'[q] \in Nat
  BY Limits DEF Types
<1>4. CASE \A u \in Terms : u > t => ll2[u] = <<>>
  <2>1. LaterHave(ll2, i, t)
    BY <1>4 DEF LaterHave
  <2>2. \A c, q \in Nodes :
          ~(InVote(c)' /\ term'[c] > t /\ q \in Voters(c)' /\ Acked(n, q, i)')
    BY <1>1, <1>2, <1>3 DEF Candidates, GaveVote
  <2>3. Held(ll2, n, i)'
    BY <1>1, <1>2, <2>1, <2>2 DEF Held
  <2> QED BY <1>1, <1>2, <2>3
<1>5. ASSUME NEW u \in Terms, u > t, ll2[u] # <<>> PROVE Blocked(n, i)'
  <2>1. PICK m \in elected'[u] : TRUE
    BY <1>5 DEF LeaderLogs
  <2>2. PICK Q \in Quorums : \A q \in Q : term'[q] >= u
    BY <2>1 DEF Elected, GaveVote
  <2>3. \A q \in Q : q \in Nodes /\ u \in Nat
    BY DEF Quorums, Terms
  <2>4. \A q \in Q : term'[q] > t /\ ~Acked(n, q, i)'
    BY <1>1, <1>2, <1>3, <1>5, <2>2, <2>3
  <2> QED BY <2>4 DEF Blocked
<1> QED BY <1>1, <1>2, <1>4, <1>5

\* The heart of the invariant is kept by every step.
LEMMA KeptStep ==
  ASSUME Types, Types', Candidates, Candidates', Elected', NEW ll, NEW ll2, LeaderLogs(ll),
         LeaderLogs(ll2)', Logs(ll), Leaders(ll), Leaders(ll2)', Kept(ll), Step(ll, ll2)
  PROVE  Kept(ll2)'
<1> SUFFICES ASSUME NEW n \in Nodes, NEW i \in 1 .. Len(log'[n]), Leading(n, i)'
             PROVE  /\ \A q \in Nodes : Acked(n, q, i)' => term'[q] >= term'[n]
                    /\ Blocked(n, i)' \/ Held(ll2, n, i)'
  BY DEF Kept
<1>1. PICK t \in Terms : term'[n] = t
  BY DEF Leading, Leaders
<1>2. term[n] = t /\ Leads(n)' /\ Has(log'[n], i, t)
  BY <1>1 DEF Leading, Step, LeadStep
<1>3. CASE ~(Leads(n) /\ i <= Len(log[n]))
  BY <1>1, <1>3, KeptByNew
<1>4. CASE Leads(n) /\ i <= Len(log[n])
  <2>1. Extends(log'[n], log[n])
    BY <1>2, <1>4 DEF Step, LeadStep
  <2>2. log[n] \in Seq(Entry) /\ Len(log[n]) \in Nat
    <3>1. log[n] \in Seq(Entry)
      BY DEF Types
    <3> QED BY <3>1
  <2>3. i \in 1 .. Len(log[n])
    BY <1>4, <2>2
  <2>4. Has(log[n], i, t)
    BY <1>2, <2>1, <2>3 DEF Extends, Agree, Has
  <2>5. Leading(n, i)
    BY <1>2, <1>4, <2>4 DEF Leading
  <2> QED BY <1>1, <1>2, <2>3, <2>5, KeptByOld
<1> QED BY <1>3, <1>4

\* Laws of Agree and Extends.
LEMMA AgreeSym == ASSUME NEW L, NEW M, NEW k, Agree(L, M, k) PROVE Agree(M, L, k)
  BY DEF Agree

LEMMA AgreeTrans ==
  ASSUME NEW L \in Seq(Entry), NEW M \in Seq(Entry), NEW N \in Seq(Entry), NEW j \in Nat,
         NEW k \in Nat, j <= k, Agree(L, M, j), Agree(M, N, k)
  PROVE  Agree(L, N, j)
<1>1. Len(L) \in Nat /\ Len(M) \in Nat /\ Len(N) \in Nat
  OBVIOUS
<1> QED BY <1>1 DEF Agree

LEMMA AgreeGrow ==
  ASSUME NEW L \in Seq(Entry), NEW M \in Seq(Entry), NEW L2 \in Seq(Entry), NEW M2 \in Seq(Entry),
         Extends(L2, L), Extends(M2, M), NEW k \in Nat, Agree(L, M, k)
  PROVE  Agree(L2, M2, k)
<1>1. Len(L) \in Nat /\ Len(M) \in Nat /\ Len(L2) \in Nat /\ Len(M2) \in Nat
  OBVIOUS
<1>2. Len(L) <= Len(L2) /\ Len(M) <= Len(M2) /\ k <= Len(L) /\ k <= Len(M)
  BY DEF Extends, Agree
<1>3. ASSUME NEW j \in 1 .. k PROVE L2[j] = M2[j]
  <2>1. j \in 1 .. Len(L) /\ j \in 1 .. Len(M)
    BY <1>1, <1>2
  <2> QED BY <2>1 DEF Extends, Agree
<1> QED BY <1>1, <1>2, <1>3 DEF Agree

LEMMA ExtendsSelf == ASSUME NEW L \in Seq(Entry) PROVE Extends(L, L)
<1>1. Len(L) \in Nat
  OBVIOUS
<1> QED BY <1>1 DEF Extends, Agree

LEMMA ExtendsTrans ==
  ASSUME NEW L \in Seq(Entry), NEW M \in Seq(Entry), NEW N \in Seq(Entry), Extends(L, M), Extends(M, N)
  PROVE  Extends(L, N)
<1>1. Len(L) \in Nat /\ Len(M) \in Nat /\ Len(N) \in Nat
  OBVIOUS
<1> QED BY <1>1 DEF Extends, Agree

\* Extends is the IsPrefix of the properties.
LEMMA PrefixExtends ==
  ASSUME NEW L \in Seq(Entry), NEW M \in Seq(Entry)
  PROVE  IsPrefix(M, L) <=> Extends(L, M)
<1>1. Len(L) \in Nat /\ Len(M) \in Nat
  OBVIOUS
<1>2. Len(M) <= Len(L) => /\ SubSeq(L, 1, Len(M)) \in Seq(Entry)
                          /\ Len(SubSeq(L, 1, Len(M))) = Len(M)
                          /\ \A j \in 1 .. Len(M) : SubSeq(L, 1, Len(M))[j] = L[j]
  BY <1>1
<1>3. ASSUME IsPrefix(M, L) PROVE Extends(L, M)
  BY <1>1, <1>2, <1>3 DEF IsPrefix, Extends, Agree
<1>4. ASSUME Extends(L, M) PROVE IsPrefix(M, L)
  <2>1. Len(M) <= Len(L) /\ \A j \in 1 .. Len(M) : L[j] = M[j]
    BY <1>4 DEF Extends, Agree
  <2>2. M = SubSeq(L, 1, Len(M))
    BY <1>1, <1>2, <2>1
  <2> QED BY <2>1, <2>2 DEF IsPrefix
<1> QED BY <1>3, <1>4

\* A prefix of a log whose entries come from leaders is such a log.
LEMMA PrefixOfLeaders ==
  ASSUME NEW ll \in [Terms -> Seq(Entry)], NEW L \in Seq(Entry), NEW R \in Seq(Entry), Extends(L, R),
         Ordered(L), OfLeaders(ll, L)
  PROVE  Ordered(R) /\ OfLeaders(ll, R)
<1>1. Len(L) \in Nat /\ Len(R) \in Nat /\ Len(R) <= Len(L) /\ \A j \in 1 .. Len(R) : R[j] = L[j]
  BY DEF Extends, Agree
<1>2. Ordered(R)
  BY <1>1 DEF Ordered
<1>3. ASSUME NEW k \in 1 .. Len(R) PROVE Agree(R, ll[R[k].term], k)
  <2>1. Agree(L, ll[L[k].term], k) /\ R[k] = L[k]
    BY <1>1 DEF OfLeaders
  <2> QED BY <1>1, <2>1 DEF Agree
<1> QED BY <1>2, <1>3 DEF OfLeaders

\* Logs that agree with the leaders stay so when the leaders' logs grow.
LEMMA LeadersGrow ==
  ASSUME NEW ll \in [Terms -> Seq(Entry)], NEW ll2 \in [Terms -> Seq(Entry)],
         \A t \in Terms : ll[t] # <<>> => Extends(ll2[t], ll[t]),
         NEW L \in Seq(Entry), OfLeaders(ll, L)
  PROVE  OfLeaders(ll2, L)
<1> SUFFICES ASSUME NEW k \in 1 .. Len(L) PROVE Agree(L, ll2[L[k].term], k)
  BY DEF OfLeaders
<1>1. PICK t \in Terms : L[k].term = t
  BY TermsOf
<1>2. Agree(L, ll[t], k) /\ k \in Nat /\ k > 0 /\ Len(L) \in Nat
  BY <1>1 DEF OfLeaders
<1>3. ll[t] \in Seq(Entry) /\ ll2[t] \in Seq(Entry) /\ Len(ll[t]) \in Nat /\ Len(ll2[t]) \in Nat
  <2>1. ll[t] \in Seq(Entry) /\ ll2[t] \in Seq(Entry)
    OBVIOUS
  <2> QED BY <2>1
<1>4. ll[t] # <<>>
  BY <1>2, <1>3 DEF Agree
<1>5. Extends(ll2[t], ll[t])
  BY <1>4
<1> QED BY <1>1, <1>2, <1>3, <1>5 DEF Extends, Agree
-----------------------------------------------------------------------------
(***************************************************************************)
(* What is committed.                                                      *)
(***************************************************************************)

\* The leaders of the terms from an entry's own on agree on a chosen entry.
LEMMA ChosenIn ==
  ASSUME NEW ll, LeaderLogs(ll), NEW j, NEW t, Chosen(ll, j, t), NEW u \in Terms, u >= t,
         ll[u] # <<>>
  PROVE  /\ Has(ll[u], j, t) /\ Agree(ll[u], ll[t], j) /\ j \in Nat \ {0}
         /\ t \in Terms /\ ll[u] \in Seq(Entry) /\ ll[t] \in Seq(Entry)
<1>1. /\ t \in Terms /\ Has(ll[t], j, t) /\ t \in Nat /\ u \in Nat
      /\ ll[u] \in Seq(Entry) /\ ll[t] \in Seq(Entry)
  BY DEF Chosen, LeaderLogs, Terms
<1>2. Has(ll[u], j, t)
  BY <1>1 DEF Chosen, LaterHave
<1>3. Agree(ll[u], ll[t], j)
  BY <1>1, <1>2, SameEntry DEF LeaderLogs
<1> QED BY <1>1, <1>2, <1>3 DEF Has

\* A chosen entry and the committed ones are of one history.
LEMMA ChosenAgree ==
  ASSUME Types, NEW ll, LeaderLogs(ll), Commits(ll), NEW j, NEW t, Chosen(ll, j, t),
         NEW k \in 1 .. j, k <= Len(committed)
  PROVE  committed[k] = ll[t][k] /\ k <= Len(ll[t])
<1> DEFINE u == committed[Len(committed)].term
<1>1. committed \in Seq(Entry) /\ Len(committed) \in Nat /\ t \in Terms /\ t \in Nat
  <2>1. committed \in Seq(Entry)
    BY DEF Types
  <2> QED BY <2>1 DEF Chosen, Terms
<1>2. ll[t] \in Seq(Entry) /\ Len(ll[t]) \in Nat /\ Has(ll[t], j, t) /\ j \in Nat /\ k \in Nat /\ k <= j
  <2>1. ll[t] \in Seq(Entry) /\ Has(ll[t], j, t)
    BY <1>1 DEF LeaderLogs, Chosen
  <2> QED BY <2>1 DEF Has
<1>3. k <= Len(ll[t]) /\ ll[t] # <<>> /\ committed # <<>>
  BY <1>1, <1>2 DEF Has
<1>4. u \in Terms /\ u \in Nat
  BY <1>1, <1>3, TermsOf DEF Terms
<1>5. Chosen(ll, Len(committed), u) /\ Extends(ll[u], committed)
  BY <1>3 DEF Commits
<1>6. ll[u] \in Seq(Entry) /\ Len(ll[u]) \in Nat /\ ll[u] # <<>>
  <2>1. ll[u] \in Seq(Entry) /\ Has(ll[u], Len(committed), u)
    BY <1>4, <1>5 DEF LeaderLogs, Chosen
  <2> QED BY <1>1, <2>1 DEF Has
<1>7. committed[k] = ll[u][k] /\ k \in 1 .. Len(ll[u])
  BY <1>1, <1>2, <1>5, <1>6 DEF Extends, Agree
<1> HIDE DEF u
<1>8. CASE u >= t
  <2>1. Agree(ll[u], ll[t], j)
    BY <1>4, <1>6, <1>8, ChosenIn
  <2> QED BY <1>2, <1>3, <1>7, <2>1 DEF Agree
<1>9. CASE t >= u
  <2>1. Agree(ll[t], ll[u], Len(committed))
    BY <1>1, <1>3, <1>5, <1>9, ChosenIn
  <2> QED BY <1>1, <1>2, <1>3, <1>7, <2>1 DEF Agree
<1> QED BY <1>1, <1>4, <1>8, <1>9

\* The leaders of the terms from the last committed entry's on have it all.
LEMMA CommittedIn ==
  ASSUME Types, NEW ll, LeaderLogs(ll), Commits(ll), NEW t \in Terms, ll[t] # <<>>,
         committed # <<>> => committed[Len(committed)].term <= t
  PROVE  Extends(ll[t], committed)
<1> DEFINE u == committed[Len(committed)].term
<1>1. committed \in Seq(Entry) /\ Len(committed) \in Nat /\ ll[t] \in Seq(Entry) /\ Len(ll[t]) \in Nat
  <2>1. committed \in Seq(Entry) /\ ll[t] \in Seq(Entry)
    BY DEF Types, LeaderLogs
  <2> QED BY <2>1
<1>2. CASE committed = <<>>
  BY <1>1, <1>2 DEF Extends, Agree
<1>3. CASE committed # <<>>
  <2>1. Chosen(ll, Len(committed), u) /\ Extends(ll[u], committed)
    BY <1>3 DEF Commits
  <2>2. u \in Nat /\ t \in Nat /\ u <= t
    BY <1>1, <1>3, <2>1 DEF Chosen, Terms
  <2> HIDE DEF u
  <2>3. Agree(ll[t], ll[u], Len(committed)) /\ ll[u] \in Seq(Entry)
    BY <2>1, <2>2, ChosenIn
  <2> QED BY <1>1, <2>1, <2>3, AgreeTrans DEF Extends
<1> QED BY <1>2, <1>3

\* An entry of its own term that a leader knows a quorum to have stored is chosen.
LEMMA ChosenNow ==
  ASSUME Types, NEW ll, LeaderLogs(ll), Leaders(ll), Kept(ll), NEW n \in Nodes, Leads(n),
         NEW i \in 1 .. Len(log[n]), log[n][i].term = term[n],
         NEW Q \in Quorums, \A q \in Q : Acked(n, q, i)
  PROVE  Chosen(ll, i, term[n])
<1>1. Leading(n, i) /\ Has(log[n], i, term[n])
  BY DEF Leading, Has
<1>2. term[n] \in Terms /\ log[n] = ll[term[n]]
  BY DEF Leaders
<1>3. ~Blocked(n, i)
  <2> SUFFICES ASSUME Blocked(n, i) PROVE FALSE
    OBVIOUS
  <2>1. PICK P \in Quorums : \A q \in P : ~Acked(n, q, i)
    BY DEF Blocked
  <2>2. PICK q \in Nodes : q \in P /\ q \in Q
    BY QuorumsMeet
  <2> QED BY <2>1, <2>2
<1>4. Held(ll, n, i) /\ \A q \in Nodes : Acked(n, q, i) => term[q] >= term[n]
  BY <1>1, <1>3 DEF Kept
<1>5. \A q \in Q : q \in Nodes
  BY DEF Quorums
<1>6. \A q \in Q : /\ term[q] >= term[n] /\ Has(log[q], i, term[n])
                   /\ \A c \in Nodes : InVote(c) /\ term[c] > term[n] /\ q \in Voters(c)
                                         => Has(log[c], i, term[n])
  BY <1>4, <1>5 DEF Held
<1> QED BY <1>1, <1>2, <1>4, <1>6 DEF Chosen, Held

\* The log a chosen entry's leader has only grows.
LEMMA ChosenLog ==
  ASSUME Types, Candidates, Elected, NEW ll, NEW ll2, LeaderLogs(ll), Step(ll, ll2),
         NEW j, NEW t, Chosen(ll, j, t)
  PROVE  Extends(ll2[t], ll[t])
<1>1. t \in Terms /\ Has(ll[t], j, t)
  BY DEF Chosen
<1>2. ASSUME NEW c \in Nodes, Wins(c, t) PROVE FALSE
  <2>1. ll[t] = <<>>
    BY <1>1, <1>2, WinsFirst DEF LeaderLogs
  <2> QED BY <1>1, <2>1 DEF Has
<1> QED BY <1>1, <1>2 DEF Step, ElectStep

\* What was committed stays chosen.
LEMMA CommitsStay ==
  ASSUME Types, Types', Candidates, Elected, NEW ll, NEW ll2, LeaderLogs(ll), LeaderLogs(ll2)',
         Logs(ll), Step(ll, ll2), Commits(ll), committed' = committed
  PROVE  Commits(ll2)'
<1> SUFFICES ASSUME committed # <<>>, NEW t, t = committed[Len(committed)].term
             PROVE  Chosen(ll2, Len(committed), t)' /\ Extends(ll2[t], committed)
  BY DEF Commits
<1>1. Chosen(ll, Len(committed), t) /\ Extends(ll[t], committed)
  BY DEF Commits
<1>2. t \in Terms /\ ll[t] \in Seq(Entry) /\ ll2[t] \in Seq(Entry) /\ committed \in Seq(Entry)
  BY <1>1 DEF Chosen, LeaderLogs, Types
<1>3. Extends(ll2[t], ll[t])
  BY <1>1, ChosenLog
<1>4. Extends(ll2[t], committed)
  BY <1>1, <1>2, <1>3, ExtendsTrans
<1>5. PICK j \in Nat : j = Len(committed)
  BY <1>2
<1>6. Chosen(ll2, j, t)'
  BY <1>1, <1>5, ChosenStays
<1> QED BY <1>4, <1>5, <1>6

\* What is known to be committed stays so.
LEMMA KnownStays ==
  ASSUME Types, Types', Candidates, Elected, NEW ll, NEW ll2, LeaderLogs(ll), LeaderLogs(ll2)',
         Logs(ll), Step(ll, ll2), Extends(committed', committed),
         NEW k \in Nat, NEW t \in Nat, NEW t2 \in Nat, t <= t2, Known(ll, k, t)
  PROVE  Known(ll2, k, t2)'
<1>1. CASE k = 0
  BY <1>1 DEF Known
<1>2. CASE k # 0
  <2>1. PICK u \in 1 .. t, j \in k .. Len(committed) : Chosen(ll, j, u) /\ Agree(committed, ll[u], j)
    BY <1>2 DEF Known
  <2>2. committed \in Seq(Entry) /\ committed' \in Seq(Entry)
    BY DEF Types
  <2>3. u \in Terms /\ ll[u] \in Seq(Entry) /\ ll2[u] \in Seq(Entry)
    BY <2>1 DEF Chosen, LeaderLogs
  <2>4. /\ Len(committed) \in Nat /\ Len(committed') \in Nat /\ Len(ll[u]) \in Nat
        /\ Len(ll2[u]) \in Nat /\ j \in Nat /\ j <= Len(committed)
    BY <2>2, <2>3
  <2>5. Chosen(ll2, j, u)'
    BY <2>1, ChosenStays
  <2>6. Extends(ll2[u], ll[u])
    BY <2>1, ChosenLog
  <2>7. Agree(committed', ll2[u], j)
    BY <2>1, <2>2, <2>3, <2>4, <2>6, AgreeGrow
  <2>8. u \in 1 .. t2
    BY <2>1
  <2>9. j \in k .. Len(committed')
    <3>1. Len(committed) <= Len(committed')
      BY DEF Extends, Agree
    <3> QED BY <2>1, <2>4, <3>1
  <2> QED BY <2>5, <2>7, <2>8, <2>9 DEF Known
<1> QED BY <1>1, <1>2

\* What is known in a term agrees with the log of the term's leader.
LEMMA KnownIn ==
  ASSUME Types, NEW ll, LeaderLogs(ll), NEW k \in Nat, NEW t \in Terms, Known(ll, k, t), ll[t] # <<>>
  PROVE  Agree(ll[t], committed, k)
<1>1. ll[t] \in Seq(Entry) /\ committed \in Seq(Entry)
  BY DEF LeaderLogs, Types
<1>2. Len(ll[t]) \in Nat /\ Len(committed) \in Nat /\ t \in Nat
  BY <1>1 DEF Terms
<1>3. CASE k = 0
  BY <1>2, <1>3 DEF Agree
<1>4. CASE k # 0
  <2>1. PICK u \in 1 .. t, j \in k .. Len(committed) : Chosen(ll, j, u) /\ Agree(committed, ll[u], j)
    BY <1>4 DEF Known
  <2>2. Agree(ll[t], ll[u], j) /\ ll[u] \in Seq(Entry)
    BY <1>2, <2>1, ChosenIn
  <2>3. Len(ll[u]) \in Nat /\ j \in Nat /\ k <= j
    BY <2>2
  <2> QED BY <1>2, <2>1, <2>2, <2>3 DEF Agree
<1> QED BY <1>3, <1>4

\* A leader that advances its commit index commits what is chosen, and what has
\* been committed before is a prefix of it.
LEMMA AdvanceCommits ==
  ASSUME Types, NEW ll, LeaderLogs(ll), Leaders(ll), Kept(ll), Commits(ll), NEW n \in Nodes, Leads(n),
         NEW matched \in [Nodes -> Nat],
         \A q \in Nodes : \A i \in 1 .. Len(log[n]) : matched[q] >= i => Acked(n, q, i),
         try_advance_commit(n, matched)
  PROVE  /\ commit' \in [Nodes -> Nat] /\ commit'[n] >= commit[n]
         /\ \A m \in Nodes : m # n => commit'[m] = commit[m]
         /\ committed' \in Seq(Entry) /\ Extends(committed', committed)
         /\ committed' # committed => /\ Chosen(ll, Len(committed'), term[n])
                                      /\ committed'[Len(committed')].term = term[n]
                                      /\ Extends(log[n], committed')
         /\ commit'[n] # commit[n] => /\ Chosen(ll, commit'[n], term[n])
                                      /\ Agree(log[n], committed', commit'[n])
<1> DEFINE A == Commitable(n, matched)
           advanced == Max(A \cup {commit[n]})
           t == term[n]
<1>1. /\ log[n] \in Seq(Entry) /\ Len(log[n]) \in Nat /\ commit[n] \in Nat /\ commit \in [Nodes -> Nat]
      /\ committed \in Seq(Entry) /\ Len(committed) \in Nat /\ log[n] = ll[t]
  <2>1. log[n] \in Seq(Entry) /\ committed \in Seq(Entry)
    BY DEF Types
  <2> QED BY <2>1 DEF Types, Leaders
<1>2. /\ commit' = [commit EXCEPT ![n] = advanced]
      /\ committed' = IF A # {} /\ advanced > Len(committed)
                      THEN SubSeq(log[n], 1, advanced) ELSE committed
  BY DEF try_advance_commit
<1>3. \A i \in A : /\ i \in 1 .. Len(log[n]) /\ i \in Nat /\ i > commit[n] /\ i <= Len(log[n])
                   /\ log[n][i].term = t
  BY <1>1 DEF Commitable
<1>4. ASSUME NEW i \in A PROVE Chosen(ll, i, t)
  <2> DEFINE P == {p \in Nodes \ {n} : matched[p] >= i}
             Q == P \cup {n}
  <2>1. IsFiniteSet(P) /\ P \subseteq Nodes /\ n \notin P
    <3>1. P \subseteq Nodes /\ n \notin P
      OBVIOUS
    <3> QED BY <3>1, ConstantsAssumption, FS_Subset
  <2>2. Cardinality(Q) = Cardinality(P) + 1
    BY <2>1, FS_AddElement
  <2>3. Q \in Quorums
    <3>1. Cardinality(P) + 1 >= quorum_size
      BY DEF Commitable
    <3> QED BY <2>1, <2>2, <3>1 DEF Quorums
  <2>4. \A q \in Q : Acked(n, q, i)
    <3>1. \A q \in P : Acked(n, q, i)
      BY <1>3
    <3> QED BY <3>1 DEF Acked
  <2> HIDE DEF Q
  <2> QED BY <1>3, <2>3, <2>4, ChosenNow
<1>5. advanced \in A \cup {commit[n]} /\ \A y \in A \cup {commit[n]} : y <= advanced
  <2> HIDE DEF A
  <2>1. A \cup {commit[n]} \in SUBSET Nat /\ commit[n] + Len(log[n]) \in Nat
    BY <1>1, <1>3
  <2>2. \A x \in A \cup {commit[n]} : x <= commit[n] + Len(log[n])
    <3>1. \A x \in A : x <= commit[n] + Len(log[n])
      BY <1>1, <1>3
    <3> QED BY <1>1, <3>1
  <2> QED BY <2>1, <2>2, MaxIs
<1> HIDE DEF A, advanced
<1>6. CASE A = {}
  <2>1. advanced = commit[n] /\ committed' = committed
    BY <1>2, <1>5, <1>6
  <2>2. commit' = commit
    BY <1>1, <1>2, <2>1
  <2> QED BY <1>1, <2>1, <2>2, ExtendsSelf
<1>7. CASE A # {}
  <2>1. advanced \in A
    <3>1. PICK a \in A : TRUE
      BY <1>7
    <3>2. a <= advanced /\ a > commit[n] /\ a \in Nat
      BY <1>3, <1>5, <3>1
    <3> QED BY <1>1, <1>5, <3>2
  <2>2. /\ advanced \in 1 .. Len(log[n]) /\ advanced \in Nat /\ advanced > commit[n]
        /\ log[n][advanced].term = t /\ Chosen(ll, advanced, t)
    BY <1>3, <1>4, <2>1
  <2>3. /\ commit' \in [Nodes -> Nat] /\ commit'[n] = advanced
        /\ \A m \in Nodes : m # n => commit'[m] = commit[m]
    BY <1>1, <1>2, <2>2
  <2>4. \A k \in 1 .. advanced : k <= Len(committed) => committed[k] = log[n][k]
    BY <1>1, <2>2, ChosenAgree
  <2>5. CASE advanced > Len(committed)
    <3>1. committed' = SubSeq(log[n], 1, advanced)
      BY <1>2, <1>7, <2>5
    <3>2. /\ committed' \in Seq(Entry) /\ Len(committed') = advanced
          /\ \A k \in 1 .. advanced : committed'[k] = log[n][k]
      BY <1>1, <2>2, <3>1
    <3>3. Extends(log[n], committed') /\ Agree(log[n], committed', advanced)
      BY <1>1, <2>2, <3>2 DEF Extends, Agree
    <3>5. Extends(committed', committed)
      <4>1. \A k \in 1 .. Len(committed) : k \in 1 .. advanced /\ k <= Len(committed)
        BY <1>1, <2>2, <2>5
      <4> QED BY <2>4, <2>5, <3>2, <4>1 DEF Extends, Agree
    <3>4. committed'[Len(committed')].term = t
      BY <2>2, <3>2
    <3> QED BY <1>1, <2>2, <2>3, <3>2, <3>3, <3>4, <3>5
  <2>6. CASE advanced <= Len(committed)
    <3>1. committed' = committed
      BY <1>1, <1>2, <2>2, <2>6
    <3>2. Agree(log[n], committed, advanced)
      BY <1>1, <2>2, <2>4, <2>6 DEF Agree
    <3>3. Extends(committed', committed)
      BY <1>1, <3>1, ExtendsSelf
    <3> QED BY <1>1, <2>2, <2>3, <3>1, <3>2, <3>3
  <2> QED BY <1>1, <2>2, <2>5, <2>6
<1> QED BY <1>6, <1>7

-----------------------------------------------------------------------------
(***************************************************************************)
(* What a follower makes of a leader's entries.                            *)
(***************************************************************************)

\* Entries e follow entry p of the leader's log G; log L has entry p and agrees
\* with the first k of them, and not with the next one; what is made of L.
Piece(G, p, e) == p + Len(e) <= Len(G) /\ \A j \in 1 .. Len(e) : e[j] = G[p + j]
Matches(L, G, p, e, k) ==
  /\ p = 0 \/ Has(L, p, G[p].term)
  /\ \A j \in 1 .. k : Has(L, p + j, e[j].term)
  /\ k < Len(e) => ~Has(L, p + k + 1, e[k + 1].term)
Merge(L, p, e, k) ==
  IF k = Len(e) THEN L ELSE SubSeq(L, 1, p + k) \o SubSeq(e, k + 1, Len(e))

\* A log that has the entry before a piece of a leader's log, and the terms of
\* the first k entries of the piece, agrees with the leader's log so far.
LEMMA MatchesAgree ==
  ASSUME NEW ll, NEW L \in Seq(Entry), NEW G \in Seq(Entry), OfLeaders(ll, L), OfLeaders(ll, G),
         NEW p \in Nat, NEW e \in Seq(Entry), Piece(G, p, e), NEW k \in 0 .. Len(e),
         Matches(L, G, p, e, k)
  PROVE  Agree(L, G, p + k)
<1>1. Len(L) \in Nat /\ Len(G) \in Nat /\ Len(e) \in Nat /\ k \in Nat /\ k <= Len(e) /\ p + k \in Nat
  OBVIOUS
<1>2. p + Len(e) <= Len(G)
  BY DEF Piece
<1>3. CASE k > 0
  <2>1. k \in 1 .. k /\ k \in 1 .. Len(e) /\ p + k \in 1 .. Len(G)
    BY <1>1, <1>2, <1>3
  <2>2. Has(L, p + k, e[k].term) /\ e[k] = G[p + k]
    BY <2>1 DEF Matches, Piece
  <2>3. Has(G, p + k, e[k].term)
    BY <2>1, <2>2 DEF Has
  <2> QED BY <2>2, <2>3, SameEntry
<1>4. CASE k = 0 /\ p > 0
  <2>1. p \in 1 .. Len(G) /\ p + k = p
    BY <1>1, <1>2, <1>4
  <2>2. Has(L, p, G[p].term) /\ Has(G, p, G[p].term)
    BY <1>4, <2>1 DEF Has, Matches
  <2>3. Agree(L, G, p)
    BY <2>2, SameEntry
  <2> QED BY <2>1, <2>3
<1>5. CASE k = 0 /\ p = 0
  BY <1>1, <1>5 DEF Agree
<1> QED BY <1>1, <1>3, <1>4, <1>5

\* An element of the second part of a concatenation.
LEMMA ConcatAt ==
  ASSUME NEW A \in Seq(Entry), NEW B \in Seq(Entry), NEW R, R = A \o B, NEW i \in 1 .. Len(B)
  PROVE  R[Len(A) + i] = B[i]
<1>1. Len(A) \in Nat /\ Len(B) \in Nat
  OBVIOUS
<1>2. Len(A) + i \in 1 .. (Len(A) + Len(B)) /\ Len(A) + i > Len(A) /\ (Len(A) + i) - Len(A) = i
  BY <1>1
<1> QED BY <1>1, <1>2

\* R is L up to p + k, and then e from k on.
Parts(L, p, e, k, R) ==
  /\ R \in Seq(Entry) /\ Len(R) = p + Len(e)
  /\ \A j \in 1 .. (p + k) : R[j] = L[j]
  /\ \A j \in 1 .. Len(e) : j > k => R[p + j] = e[j]

\* The log Merged makes when an entry differs.
LEMMA MergeOfParts ==
  ASSUME NEW L \in Seq(Entry), NEW p \in Nat, NEW e \in Seq(Entry), NEW k \in 0 .. Len(e),
         k < Len(e), p + k <= Len(L), NEW R, R = Merge(L, p, e, k)
  PROVE  Parts(L, p, e, k, R)
<1> DEFINE A == SubSeq(L, 1, p + k)
           B == SubSeq(e, k + 1, Len(e))
<1>1. Len(L) \in Nat /\ Len(e) \in Nat /\ k \in Nat /\ p + k \in Nat
  OBVIOUS
<1>2. A \in Seq(Entry) /\ Len(A) = p + k /\ \A j \in 1 .. (p + k) : A[j] = L[j]
  BY <1>1
<1>3. B \in Seq(Entry) /\ Len(B) = Len(e) - k /\ \A j \in 1 .. (Len(e) - k) : B[j] = e[k + j]
  BY <1>1
<1>4. R = A \o B
  <2>1. k # Len(e)
    BY <1>1
  <2> QED BY <2>1 DEF Merge
<1> HIDE DEF A, B
<1>5. R \in Seq(Entry) /\ Len(R) = p + Len(e)
  <2>1. R \in Seq(Entry) /\ Len(R) = Len(A) + Len(B)
    BY <1>2, <1>3, <1>4, ConcatProperties
  <2> QED BY <1>1, <1>2, <1>3, <2>1
<1>6. \A j \in 1 .. (p + k) : R[j] = L[j]
  BY <1>1, <1>2, <1>3, <1>4
<1>7. ASSUME NEW j \in 1 .. Len(e), j > k PROVE R[p + j] = e[j]
  <2>1. PICK i \in 1 .. (Len(e) - k) : k + i = j /\ p + j = (p + k) + i
    <3>1. j - k \in 1 .. (Len(e) - k) /\ k + (j - k) = j /\ p + j = (p + k) + (j - k)
      BY <1>1, <1>7
    <3> QED BY <3>1
  <2>2. R[Len(A) + i] = B[i]
    BY <1>2, <1>3, <1>4, <2>1, ConcatAt
  <2>3. B[i] = e[j]
    BY <1>3, <2>1
  <2> QED BY <1>2, <2>1, <2>2, <2>3
<1> QED BY <1>5, <1>6, <1>7 DEF Parts

\* The merged log agrees with the leader's, and keeps what they have in common.
LEMMA MergeIs ==
  ASSUME NEW ll, NEW L \in Seq(Entry), NEW G \in Seq(Entry), OfLeaders(ll, L), OfLeaders(ll, G),
         NEW p \in Nat, NEW e \in Seq(Entry), Piece(G, p, e), NEW k \in 0 .. Len(e),
         Matches(L, G, p, e, k), NEW R, R = Merge(L, p, e, k)
  PROVE  /\ R \in Seq(Entry) /\ Agree(R, G, p + Len(e)) /\ Keeps(L, G, R)
         /\ R = L \/ Len(R) = p + Len(e)
<1>1. Len(L) \in Nat /\ Len(G) \in Nat /\ Len(e) \in Nat /\ k \in Nat /\ k <= Len(e) /\ p + k \in Nat
  OBVIOUS
<1>2. Agree(L, G, p + k)
  BY MatchesAgree
<1>3. p + k <= Len(L) /\ \A j \in 1 .. (p + k) : L[j] = G[j]
  BY <1>2 DEF Agree
<1>4. CASE k = Len(e)
  <2>1. R = L
    BY <1>4 DEF Merge
  <2>2. Keeps(L, G, L)
    BY DEF Keeps, Has
  <2> QED BY <1>2, <1>4, <2>1, <2>2
<1>5. CASE k < Len(e)
  <2>0. p + k <= Len(L)
    BY <1>3
  <2>p. Parts(L, p, e, k, R)
    BY <1>5, <2>0, MergeOfParts
  <2>1. R \in Seq(Entry) /\ Len(R) = p + Len(e)
    BY <2>p DEF Parts
  <2>2. \A j \in 1 .. (p + k) : R[j] = L[j]
    BY <2>p DEF Parts
  <2>3. \A j \in 1 .. Len(e) : j > k => R[p + j] = e[j]
    BY <2>p DEF Parts
  <2>4. ASSUME NEW j \in 1 .. (p + Len(e)) PROVE R[j] = G[j]
    <3>1. CASE j <= p + k
      <4>1. j \in 1 .. (p + k)
        BY <1>1, <3>1
      <4> QED BY <1>3, <2>2, <4>1
    <3>2. CASE j > p + k
      <4>1. j - p \in 1 .. Len(e) /\ j - p > k /\ p + (j - p) = j
        BY <1>1, <3>2
      <4>2. e[j - p] = G[p + (j - p)]
        BY <4>1 DEF Piece
      <4>3. R[p + (j - p)] = e[j - p]
        BY <2>3, <4>1
      <4> QED BY <4>1, <4>2, <4>3
    <3> QED BY <1>1, <3>1, <3>2
  <2>5. Agree(R, G, p + Len(e))
    BY <1>1, <2>1, <2>4 DEF Agree, Piece
  <2>6. ASSUME NEW i \in 1 .. Len(L), Has(G, i, L[i].term) PROVE Has(R, i, L[i].term)
    <3>1. Agree(L, G, i)
      BY <2>6, SameEntry DEF Has
    <3>2. i <= p + k
      <4> SUFFICES ASSUME i > p + k PROVE FALSE
        BY <1>1
      <4>1. p + k + 1 \in 1 .. i /\ p + k + 1 \in 1 .. Len(L) /\ k + 1 \in 1 .. Len(e)
        BY <1>1, <1>5
      <4>2. L[p + k + 1] = G[p + k + 1]
        BY <3>1, <4>1 DEF Agree
      <4>3. e[k + 1] = G[p + (k + 1)] /\ p + (k + 1) = p + k + 1
        BY <1>1, <4>1 DEF Piece
      <4>4. Has(L, p + k + 1, e[k + 1].term)
        BY <4>1, <4>2, <4>3 DEF Has
      <4> QED BY <1>5, <4>4 DEF Matches
    <3>3. i \in 1 .. (p + k) /\ i \in 1 .. Len(R)
      BY <1>1, <1>5, <2>1, <3>2
    <3> QED BY <2>2, <3>3 DEF Has
  <2> QED BY <2>1, <2>5, <2>6 DEF Keeps
<1> QED BY <1>1, <1>4, <1>5

\* handle_append_entries, after the entry before the new ones was found.
LEMMA MergedIs ==
  ASSUME Types, NEW ll, LeaderLogs(ll), NEW n \in Nodes, OfLeaders(ll, log[n]),
         NEW m, m.term \in Terms, Sent(ll, m),
         m.prev_log_index = 0 \/ log_term_at(n, m.prev_log_index) = m.prev_log_term
  PROVE  LET top == m.prev_log_index + Len(m.entries)
         IN  /\ Merged(n, m) \in Seq(Entry) /\ Agree(Merged(n, m), ll[m.term], top)
             /\ Keeps(log[n], ll[m.term], Merged(n, m))
             /\ Merged(n, m) = log[n] \/ Len(Merged(n, m)) = top
<1> DEFINE G == ll[m.term]
           p == m.prev_log_index
           e == m.entries
           agreeing == {k \in 0 .. Len(e) : \A j \in 1 .. k : log_term_at(n, p + j) = e[j].term}
           k == Max(agreeing)
<1>1. /\ log[n] \in Seq(Entry) /\ G \in Seq(Entry) /\ OfLeaders(ll, G) /\ p \in Nat
      /\ e \in Seq(Entry) /\ Piece(G, p, e)
  BY DEF Types, LeaderLogs, Sent, Piece
<1>2. Len(log[n]) \in Nat /\ Len(G) \in Nat /\ Len(e) \in Nat /\ DOMAIN log[n] = 1 .. Len(log[n])
  BY <1>1
<1>3. \A i \in Nat : \A t \in Terms : log_term_at(n, i) = t <=> Has(log[n], i, t)
  BY <1>2 DEF log_term_at, Has, Terms
<1>4. \A j \in 1 .. Len(e) : e[j].term \in Terms /\ p + j \in Nat
  BY <1>1, TermsOf
<1>5. p = 0 \/ Has(log[n], p, G[p].term)
  <2> SUFFICES ASSUME p # 0 PROVE Has(log[n], p, G[p].term)
    OBVIOUS
  <2>1. p \in 1 .. Len(G)
    BY <1>1, <1>2 DEF Piece
  <2>2. G[p].term \in Terms
    BY <1>1, <2>1, TermsOf
  <2>3. log_term_at(n, p) = G[p].term
    BY DEF Sent
  <2> QED BY <1>1, <1>3, <2>2, <2>3
<1>6. k \in agreeing /\ \A y \in agreeing : y <= k
  <2>1. agreeing \in SUBSET Nat /\ \A x \in agreeing : x <= Len(e)
    BY <1>2
  <2>2. 0 \in agreeing
    <3>1. 0 \in 0 .. Len(e) /\ \A j \in 1 .. 0 : FALSE
      BY <1>2
    <3> QED BY <3>1
  <2> HIDE DEF agreeing
  <2> QED BY <1>2, <2>1, <2>2, MaxIs
<1> HIDE DEF k
<1>7. k \in 0 .. Len(e) /\ \A j \in 1 .. k : log_term_at(n, p + j) = e[j].term
  BY <1>6
<1>8. \A j \in 1 .. k : Has(log[n], p + j, e[j].term)
  <2> TAKE j \in 1 .. k
  <2>1. j \in 1 .. Len(e)
    BY <1>2, <1>7
  <2> QED BY <1>3, <1>4, <1>7, <2>1
<1>9. k < Len(e) => ~Has(log[n], p + k + 1, e[k + 1].term)
  <2> SUFFICES ASSUME k < Len(e), Has(log[n], p + k + 1, e[k + 1].term) PROVE FALSE
    OBVIOUS
  <2>1. k + 1 \in 1 .. Len(e) /\ k + 1 \in 0 .. Len(e) /\ p + (k + 1) = p + k + 1 /\ k \in Nat
    <3>1. k \in Nat /\ Len(e) \in Nat /\ k < Len(e) /\ p \in Nat
      BY <1>1, <1>2, <1>7
    <3> HIDE DEF e, p
    <3> QED BY <3>1
  <2>2. log_term_at(n, p + (k + 1)) = e[k + 1].term
    BY <1>3, <1>4, <2>1
  <2>3. \A j \in 1 .. (k + 1) : j \in 1 .. k \/ j = k + 1
    BY <2>1
  <2>4. k + 1 \in agreeing
    BY <1>7, <2>1, <2>2, <2>3
  <2>5. k + 1 <= k
    BY <1>6, <2>4
  <2> QED BY <2>1, <2>5
<1>10. Merged(n, m) = Merge(log[n], p, e, k)
  BY DEF Merged, Merge, k
<1>11. Matches(log[n], G, p, e, k)
  BY <1>5, <1>8, <1>9 DEF Matches
<1> HIDE DEF agreeing, G, p, e
<1>12. /\ Merged(n, m) \in Seq(Entry) /\ Agree(Merged(n, m), G, p + Len(e))
       /\ Keeps(log[n], G, Merged(n, m))
       /\ Merged(n, m) = log[n] \/ Len(Merged(n, m)) = p + Len(e)
  BY <1>1, <1>7, <1>10, <1>11, MergeIs
<1> QED BY <1>12 DEF G, p, e

-----------------------------------------------------------------------------
(***************************************************************************)
(* The invariant, and what all actions have in common.                     *)
(***************************************************************************)
Inv(ll) ==
  /\ Types /\ Rounds /\ Candidates /\ Elected /\ LeaderLogs(ll) /\ Logs(ll) /\ Leaders(ll)
  /\ Messages(ll) /\ Kept(ll) /\ Commits(ll) /\ Applies(ll)

Invites(n) == Request(n, Head(call[n].todo))

StaleStep == \A m \in stale' : m \in stale \/ \E c \in Nodes : call[c].todo # <<>> /\ m = Invites(c)

ApplyStep ==
  \A n \in Nodes :
    \/ applied'[n] = applied[n]
    \/ applied'[n] = applied[n] \o SubSeq(log'[n], Len(applied[n]) + 1, Min({commit'[n], Len(log'[n])}))

CommitStep(ll2) ==
  \A n \in Nodes :
    \/ commit'[n] = commit[n] /\ Agree(log'[n], log[n], commit[n])
    \/ /\ commit'[n] >= commit[n] /\ Known(ll2, commit[n], term[n])'
       /\ Agree(log'[n], committed', commit'[n])

\* The logs of leaders only grow.
LEMMA LeadersOnlyGrow ==
  ASSUME NEW ll, NEW ll2, Inv(ll), Step(ll, ll2)
  PROVE  \A t \in Terms : elected[t] \subseteq elected'[t] /\ (ll[t] # <<>> => Extends(ll2[t], ll[t]))
<1> SUFFICES ASSUME NEW t \in Terms
             PROVE  elected[t] \subseteq elected'[t] /\ (ll[t] # <<>> => Extends(ll2[t], ll[t]))
  OBVIOUS
<1>1. \A c \in Nodes : Wins(c, t) => ll[t] = <<>>
  BY WinsFirst DEF Inv, LeaderLogs
<1> QED BY <1>1 DEF Step, ElectStep

\* The term a candidate sends is that of its last entry.
LEMMA LastTermIs ==
  ASSUME Types, NEW n \in Nodes
  PROVE  log_term_at(n, last_log_index(n)) = LastTerm(log[n])
<1>1. log[n] \in Seq(Entry)
  BY DEF Types
<1>2. Len(log[n]) \in Nat /\ DOMAIN log[n] = 1 .. Len(log[n])
  BY <1>1
<1> QED BY <1>2 DEF log_term_at, last_log_index, LastTerm

\* The entries a leader sends.
LEMMA EntriesOf ==
  ASSUME NEW n, NEW p
  PROVE  AppendEntries(n, p).entries = SubSeq(log[n], next[n][p], Len(log[n]))
  BY DEF AppendEntries

\* What the request a node waits for says of it.
LEMMA RequestIs ==
  ASSUME NEW ll, Inv(ll), NEW c \in Nodes, call[c].todo # <<>>, NEW m, m = Invites(c)
  PROVE  /\ Wellformed(ll, m) /\ m.from = c /\ m.term = term[c] /\ m.to = Head(call[c].todo)
         /\ m.kind = "vote" => /\ InVote(c) /\ m.last_log_index = Len(log[c])
                               /\ m.last_log_term = LastTerm(log[c])
         /\ m.kind = "append" => /\ Leads(c) /\ call[c].kind = "append" /\ m.leader_commit = commit[c]
                                 /\ m.prev_log_index + Len(m.entries) = Len(log[c])
<1> DEFINE p == Head(call[c].todo)
<1>1. /\ call[c] \in Calls /\ call[c].todo \in Seq(Nodes) /\ log[c] \in Seq(Entry)
      /\ term[c] \in 0 .. MaxTerm /\ commit[c] \in Nat
  BY DEF Inv, Types, Calls
<1>2. p \in Nodes /\ p # c
  <2>1. 1 \in 1 .. Len(call[c].todo) /\ p = call[c].todo[1] /\ p \in Nodes
    BY <1>1
  <2> QED BY <2>1 DEF Inv, Rounds
<1>3. call[c].kind \in {"vote", "append"}
  <2>1. call[c] # Idle
    BY DEF Idle
  <2> QED BY <1>1, <2>1 DEF Calls, Inv, Rounds
<1> HIDE DEF p
<1>4. CASE call[c].kind = "vote"
  <2>1. m = RequestVote(c, p)
    BY <1>4 DEF Invites, Request, p
  <2>2. /\ m.kind = "vote" /\ m.from = c /\ m.to = p /\ m.term = term[c]
        /\ m.last_log_index = Len(log[c]) /\ m.last_log_term = LastTerm(log[c])
    BY <2>1, LastTermIs DEF RequestVote, last_log_index, Inv
  <2>3. term[c] \in Terms /\ InVote(c)
    BY <1>4 DEF Inv, Rounds, InVote
  <2> QED BY <1>2, <2>2, <2>3 DEF Wellformed, p
<1>5. CASE call[c].kind = "append"
  <2>1. m = AppendEntries(c, p)
    BY <1>5 DEF Invites, Request, p
  <2>2. Leads(c)
    BY <1>5 DEF Inv, Rounds
  <2>3. /\ term[c] \in Terms /\ c \in elected[term[c]] /\ log[c] = ll[term[c]]
        /\ next[c][p] <= Len(log[c]) + 1
    BY <1>2, <2>2 DEF Inv, Leaders
  <2>4. next[c][p] \in Nat \ {0}
    BY <1>2 DEF Inv, Types
  <2>4a. PICK prev \in Nat : prev = next[c][p] - 1 /\ next[c][p] = prev + 1
    BY <2>4
  <2>5. m.kind = "append" /\ m.from = c /\ m.to = p /\ m.term = term[c] /\ m.leader_commit = commit[c]
    BY <2>1 DEF AppendEntries
  <2>5a. m.prev_log_index = prev
    BY <2>1, <2>4a DEF AppendEntries
  <2>5b. m.prev_log_term = log_term_at(c, prev)
    BY <2>1, <2>4a DEF AppendEntries
  <2>5c. m.entries = SubSeq(log[c], prev + 1, Len(log[c]))
    <3>1. m.entries = SubSeq(log[c], next[c][p], Len(log[c]))
      BY <2>1, EntriesOf, Zenon
    <3> QED BY <2>4a, <3>1, Zenon
  <2>6. Len(log[c]) \in Nat /\ DOMAIN log[c] = 1 .. Len(log[c]) /\ prev <= Len(log[c])
    BY <1>1, <2>3, <2>4a
  <2>7. /\ m.entries \in Seq(Entry) /\ Len(m.entries) = Len(log[c]) - prev
        /\ \A j \in 1 .. Len(m.entries) : m.entries[j] = log[c][prev + j]
    <3>1. \A i \in (prev + 1) .. Len(log[c]) : log[c][i] \in Entry
      BY <1>1, <2>6
    <3>2. prev + 1 \in Int /\ Len(log[c]) \in Int
      BY <2>6
    <3>3. /\ m.entries \in Seq(Entry)
          /\ Len(m.entries) = IF prev + 1 <= Len(log[c]) THEN Len(log[c]) - (prev + 1) + 1 ELSE 0
          /\ \A i \in 1 .. Len(log[c]) - (prev + 1) + 1 : m.entries[i] = log[c][(prev + 1) + i - 1]
      BY <2>5c, <3>1, <3>2, SubSeqProperties
    <3>4. Len(m.entries) = Len(log[c]) - prev
      BY <2>6, <3>3
    <3>5. ASSUME NEW j \in 1 .. Len(m.entries) PROVE m.entries[j] = log[c][prev + j]
      <4>1. j \in 1 .. Len(log[c]) - (prev + 1) + 1 /\ (prev + 1) + j - 1 = prev + j
        BY <2>6, <3>4
      <4> QED BY <3>3, <4>1
    <3> QED BY <3>3, <3>4, <3>5
  <2>8. m.prev_log_term = IF prev = 0 THEN 0 ELSE log[c][prev].term
    <3>1. prev # 0 => prev \in DOMAIN log[c]
      BY <2>6
    <3>2. 0 \notin DOMAIN log[c]
      BY <2>6
    <3> QED BY <2>5b, <3>1, <3>2, Zenon DEF log_term_at
  <2>9. prev + Len(m.entries) = Len(log[c])
    BY <2>6, <2>7
  <2>10. Sent(ll, m)
    <3>1. m.from \in elected[m.term] /\ m.prev_log_index \in Nat /\ m.leader_commit \in Nat
      BY <1>1, <2>3, <2>5, <2>5a
    <3>2. m.prev_log_index + Len(m.entries) <= Len(ll[m.term])
      BY <2>3, <2>5, <2>5a, <2>6, <2>9
    <3>3. \A j \in 1 .. Len(m.entries) : m.entries[j] = ll[m.term][m.prev_log_index + j]
      BY <2>3, <2>5, <2>5a, <2>7
    <3>4. m.prev_log_term = IF m.prev_log_index = 0 THEN 0 ELSE ll[m.term][m.prev_log_index].term
      BY <2>3, <2>5, <2>5a, <2>8
    <3> QED BY <2>7, <3>1, <3>2, <3>3, <3>4 DEF Sent
  <2> QED BY <1>2, <1>5, <2>2, <2>3, <2>5, <2>5a, <2>9, <2>10 DEF Wellformed, p
<1> QED BY <1>3, <1>4, <1>5

\* Requests stay pieces of the log of their term.
LEMMA MessagesStep ==
  ASSUME NEW ll, NEW ll2, Inv(ll), Step(ll, ll2), LeaderLogs(ll2)', StaleStep
  PROVE  Messages(ll2)'
<1> SUFFICES ASSUME NEW m \in stale' PROVE Wellformed(ll2, m)'
  BY DEF Messages
<1>1. Wellformed(ll, m)
  BY RequestIs DEF StaleStep, Inv, Messages
<1>2. ASSUME m.kind = "append" PROVE Sent(ll2, m)'
  <2>1. Sent(ll, m) /\ m.term \in Terms
    BY <1>1, <1>2 DEF Wellformed
  <2>2. ll[m.term] # <<>> /\ ll[m.term] \in Seq(Entry) /\ ll2[m.term] \in Seq(Entry)
    BY <2>1 DEF Inv, LeaderLogs, Sent
  <2>3. m.from \in elected'[m.term] /\ Extends(ll2[m.term], ll[m.term])
    BY <2>1, <2>2, LeadersOnlyGrow DEF Sent
  <2>4. m.prev_log_index \in Nat /\ m.entries \in Seq(Entry)
        /\ m.prev_log_index + Len(m.entries) <= Len(ll[m.term])
    BY <2>1 DEF Sent
  <2>5. Len(ll[m.term]) \in Nat /\ Len(ll2[m.term]) \in Nat /\ Len(m.entries) \in Nat
    BY <2>2, <2>4
  <2>6. Len(ll[m.term]) <= Len(ll2[m.term])
    BY <2>3 DEF Extends, Agree
  <2>7. \A j \in 1 .. Len(ll[m.term]) : ll2[m.term][j] = ll[m.term][j]
    BY <2>3 DEF Extends, Agree
  <2>8. m.prev_log_index + Len(m.entries) <= Len(ll2[m.term])
    BY <2>4, <2>5, <2>6
  <2>9. ASSUME NEW j \in 1 .. Len(m.entries)
        PROVE  m.entries[j] = ll2[m.term][m.prev_log_index + j]
    <3>1. m.prev_log_index + j \in 1 .. Len(ll[m.term])
      BY <2>4, <2>5
    <3>2. m.entries[j] = ll[m.term][m.prev_log_index + j]
      BY <2>1 DEF Sent
    <3> QED BY <2>7, <3>1, <3>2
  <2>10. m.prev_log_index # 0 => m.prev_log_index \in 1 .. Len(ll[m.term])
    BY <2>4, <2>5
  <2>11. m.prev_log_term = IF m.prev_log_index = 0 THEN 0 ELSE ll2[m.term][m.prev_log_index].term
    BY <2>1, <2>7, <2>10 DEF Sent
  <2> QED BY <2>1, <2>3, <2>4, <2>8, <2>9, <2>11 DEF Sent
<1> QED BY <1>1, <1>2 DEF Wellformed

\* The smaller and the greater of two numbers.
LEMMA MinOf ==
  ASSUME NEW a \in Nat, NEW b \in Nat
  PROVE  Min({a, b}) \in Nat /\ Min({a, b}) = IF a <= b THEN a ELSE b
<1>1. Min({a, b}) \in {a, b} /\ \A y \in {a, b} : Min({a, b}) <= y
  BY MinIs
<1> QED BY <1>1

LEMMA MaxOf ==
  ASSUME NEW a \in Nat, NEW b \in Nat
  PROVE  Max({a, b}) \in Nat /\ Max({a, b}) = IF a >= b THEN a ELSE b
<1>1. {a, b} \in SUBSET Nat /\ {a, b} # {} /\ a + b \in Nat /\ \A x \in {a, b} : x <= a + b
  OBVIOUS
<1>2. Max({a, b}) \in {a, b} /\ \A y \in {a, b} : y <= Max({a, b})
  BY <1>1, MaxIs
<1> QED BY <1>2

\* The entries up to u are applied after the ones A.
ApplyUpTo(A, L, u) == A \o SubSeq(L, Len(A) + 1, u)

\* Applying committed entries extends what is applied by committed entries.
LEMMA AppliedOn ==
  ASSUME NEW L \in Seq(Entry), NEW C \in Seq(Entry), NEW A \in Seq(Entry), NEW u \in Nat,
         Agree(L, C, u), Extends(C, A), Len(A) <= u,
         NEW R, R = ApplyUpTo(A, L, u)
  PROVE  R \in Seq(Entry) /\ Len(R) = u /\ Extends(C, R)
<1>1. Len(L) \in Nat /\ Len(C) \in Nat /\ Len(A) \in Nat
  OBVIOUS
<1>2. u <= Len(L) /\ u <= Len(C) /\ \A j \in 1 .. u : L[j] = C[j]
  BY DEF Agree
<1>3. \A j \in 1 .. Len(A) : C[j] = A[j]
  BY DEF Extends, Agree
<1>4. PICK B : B = SubSeq(L, Len(A) + 1, u)
  OBVIOUS
<1>5. /\ B \in Seq(Entry) /\ Len(B) = u - Len(A)
      /\ \A i \in 1 .. (u - (Len(A) + 1) + 1) : B[i] = L[(Len(A) + 1) + i - 1]
  <2>1. \A i \in (Len(A) + 1) .. u : L[i] \in Entry
    BY <1>1, <1>2
  <2>2. Len(A) + 1 \in Int /\ u \in Int
    BY <1>1
  <2>3. /\ B \in Seq(Entry)
        /\ Len(B) = IF Len(A) + 1 <= u THEN u - (Len(A) + 1) + 1 ELSE 0
        /\ \A i \in 1 .. (u - (Len(A) + 1) + 1) : B[i] = L[(Len(A) + 1) + i - 1]
    BY <1>4, <2>1, <2>2, SubSeqProperties
  <2>4. Len(B) = u - Len(A)
    <3>1. Len(A) + 1 <= u \/ (~(Len(A) + 1 <= u) /\ u - Len(A) = 0)
      BY <1>1
    <3>2. u - (Len(A) + 1) + 1 = u - Len(A)
      BY <1>1
    <3> QED BY <2>3, <3>1, <3>2
  <2> QED BY <2>3, <2>4, Zenon
<1>6. /\ R \in Seq(Entry) /\ Len(R) = Len(A) + Len(B)
      /\ \A i \in 1 .. Len(A) + Len(B) : R[i] = IF i <= Len(A) THEN A[i] ELSE B[i - Len(A)]
  BY <1>4, <1>5, ConcatProperties, Zenon DEF ApplyUpTo
<1>7. Len(R) = u
  BY <1>1, <1>5, <1>6
<1>8. ASSUME NEW j \in 1 .. u PROVE C[j] = R[j]
  <2>1. CASE j <= Len(A)
    <3>1. j \in 1 .. Len(A) /\ j \in 1 .. Len(A) + Len(B)
      BY <1>1, <1>5, <2>1
    <3> QED BY <1>3, <1>6, <2>1, <3>1, Zenon
  <2>2. CASE j > Len(A)
    <3>1. j - Len(A) \in 1 .. (u - (Len(A) + 1) + 1) /\ (Len(A) + 1) + (j - Len(A)) - 1 = j
      BY <1>1, <2>2
    <3>2. B[j - Len(A)] = L[j]
      BY <1>5, <3>1
    <3>3. R[j] = B[j - Len(A)]
      <4>1. j \in 1 .. Len(A) + Len(B) /\ ~(j <= Len(A))
        BY <1>1, <1>5, <2>2
      <4> QED BY <1>6, <4>1, Zenon
    <3> QED BY <1>2, <3>2, <3>3
  <2> QED BY <1>1, <2>1, <2>2
<1> QED BY <1>2, <1>6, <1>7, <1>8 DEF Extends, Agree

\* Commit indexes and catalogs stay covered by what is committed.
LEMMA AppliesStep ==
  ASSUME NEW ll, NEW ll2, Inv(ll), Types', Step(ll, ll2), LeaderLogs(ll2)',
         Extends(committed', committed), StaleStep,
         restarts' = 0 => restarts = 0 /\ CommitStep(ll2) /\ ApplyStep
  PROVE  Applies(ll2)'
<1> SUFFICES ASSUME restarts' = 0
    PROVE  /\ \A n \in Nodes :
                /\ Known(ll2, commit[n], term[n])' /\ Agree(log'[n], committed', commit'[n])
                /\ Len(applied'[n]) <= commit'[n] /\ Extends(committed', applied'[n])
           /\ \A m \in stale' : m.kind = "append" =>
                /\ Known(ll2, m.leader_commit, m.term)'
                /\ m.leader_commit <= m.prev_log_index + Len(m.entries)
  BY DEF Applies
<1>1. restarts = 0 /\ CommitStep(ll2) /\ ApplyStep
  OBVIOUS
<1>2. \A n \in Nodes :
        /\ Known(ll, commit[n], term[n]) /\ Agree(log[n], committed, commit[n])
        /\ Len(applied[n]) <= commit[n] /\ Extends(committed, applied[n])
  BY <1>1 DEF Inv, Applies
<1>3. \A n \in Nodes : term[n] \in Nat /\ term'[n] \in Nat /\ term'[n] >= term[n]
  BY TermsGrow DEF Inv, Step
<1>4. committed \in Seq(Entry) /\ committed' \in Seq(Entry)
  BY DEF Inv, Types
<1>5. ASSUME NEW k \in Nat, NEW t \in Nat, NEW t2 \in Nat, t <= t2, Known(ll, k, t)
      PROVE  Known(ll2, k, t2)'
  BY <1>5, KnownStays DEF Inv
<1>6. ASSUME NEW n \in Nodes
      PROVE  /\ Known(ll2, commit[n], term[n])' /\ Agree(log'[n], committed', commit'[n])
             /\ Len(applied'[n]) <= commit'[n] /\ Extends(committed', applied'[n])
  <2>1. /\ commit[n] \in Nat /\ commit'[n] \in Nat /\ log[n] \in Seq(Entry) /\ log'[n] \in Seq(Entry)
        /\ applied[n] \in Seq(Entry)
    BY DEF Inv, Types
  <2>2. commit'[n] >= commit[n] /\ Known(ll2, commit[n], term[n])' /\ Agree(log'[n], committed', commit'[n])
    <3>1. CASE commit'[n] = commit[n] /\ Agree(log'[n], log[n], commit[n])
      <4>1. PICK k \in Nat, t \in Nat : k = commit[n] /\ t = term'[n]
        BY <1>3, <2>1
      <4>2. Known(ll2, k, t)'
        BY <1>2, <1>3, <1>5, <4>1
      <4>3. Known(ll2, commit[n], term[n])'
        BY <3>1, <4>1, <4>2
      <4>4. Agree(log'[n], committed, commit[n])
        BY <1>2, <1>4, <2>1, <3>1, AgreeTrans
      <4>5. Agree(log'[n], committed', commit[n])
        BY <1>4, <2>1, <4>4, AgreeGrow, ExtendsSelf
      <4> QED BY <2>1, <3>1, <4>3, <4>5
    <3> QED BY <1>1, <3>1 DEF CommitStep
  <2>3. Extends(committed', applied[n]) /\ Len(applied[n]) <= commit'[n]
    <3>1. Len(applied[n]) \in Nat
      BY <2>1
    <3>2. Extends(committed', applied[n])
      BY <1>2, <1>4, <2>1, ExtendsTrans
    <3> QED BY <1>2, <2>1, <2>2, <3>1, <3>2
  <2>4. CASE applied'[n] = applied[n]
    BY <2>2, <2>3, <2>4
  <2>5. CASE applied'[n] = applied[n] \o SubSeq(log'[n], Len(applied[n]) + 1, Min({commit'[n], Len(log'[n])}))
    <3>1. commit'[n] <= Len(log'[n]) /\ Len(log'[n]) \in Nat
      BY <2>1, <2>2 DEF Agree
    <3>2. Min({commit'[n], Len(log'[n])}) = commit'[n]
      BY <2>1, <3>1, MinOf
    <3>3. applied'[n] = ApplyUpTo(applied[n], log'[n], commit'[n])
      BY <2>5, <3>2, Zenon DEF ApplyUpTo
    <3>4. Len(applied'[n]) = commit'[n] /\ Extends(committed', applied'[n])
      BY <1>4, <2>1, <2>2, <2>3, <3>3, AppliedOn
    <3> QED BY <2>1, <2>2, <3>4
  <2> QED BY <1>1, <2>4, <2>5 DEF ApplyStep
<1>7. ASSUME NEW m \in stale', m.kind = "append"
      PROVE  /\ Known(ll2, m.leader_commit, m.term)'
             /\ m.leader_commit <= m.prev_log_index + Len(m.entries)
  <2>1. CASE m \in stale
    <3>1. Known(ll, m.leader_commit, m.term) /\ m.leader_commit <= m.prev_log_index + Len(m.entries)
      BY <1>1, <1>7, <2>1 DEF Inv, Applies
    <3>2. m.leader_commit \in Nat /\ m.term \in Nat
      BY <1>7, <2>1 DEF Inv, Messages, Wellformed, Sent, Terms
    <3> QED BY <1>5, <3>1, <3>2
  <2>2. ASSUME NEW c \in Nodes, call[c].todo # <<>>, m = Invites(c)
        PROVE  /\ Known(ll2, m.leader_commit, m.term)'
               /\ m.leader_commit <= m.prev_log_index + Len(m.entries)
    <3>1. /\ m.leader_commit = commit[c] /\ m.term = term[c]
          /\ m.prev_log_index + Len(m.entries) = Len(log[c])
      BY <1>7, <2>2, RequestIs
    <3>2. Known(ll, commit[c], term[c]) /\ commit[c] <= Len(log[c]) /\ commit[c] \in Nat
      BY <1>2 DEF Agree, Inv, Types
    <3>3. m.leader_commit \in Nat /\ m.term \in Nat /\ Known(ll, m.leader_commit, m.term)
      BY <1>3, <3>1, <3>2
    <3>4. Known(ll2, m.leader_commit, m.term)'
      BY <1>5, <3>3
    <3> QED BY <3>1, <3>2, <3>4
  <2> QED BY <2>1, <2>2 DEF StaleStep
<1> QED BY <1>6, <1>7

\* Whatever is such a step keeps the invariant.
LEMMA Combine ==
  ASSUME NEW ll, NEW ll2, Inv(ll), Types', Rounds', Step(ll, ll2), LeaderLogs(ll2)', Logs(ll2)',
         Leaders(ll2)', StaleStep,
         committed' = committed \/ (Commits(ll2)' /\ Extends(committed', committed)),
         restarts' = 0 => restarts = 0 /\ CommitStep(ll2) /\ ApplyStep
  PROVE  Inv(ll2)'
<1>1. Candidates'
  BY CandidatesStep DEF Inv
<1>2. Elected'
  BY ElectedStep DEF Inv
<1>3. Kept(ll2)'
  BY <1>1, <1>2, KeptStep DEF Inv
<1>4. Messages(ll2)'
  BY MessagesStep
<1>5. Commits(ll2)'
  BY CommitsStay DEF Inv
<1>6. Extends(committed', committed)
  BY ExtendsSelf DEF Inv, Types
<1>7. Applies(ll2)'
  BY <1>6, AppliesStep
<1> QED BY <1>1, <1>2, <1>3, <1>4, <1>5, <1>7 DEF Inv

\* What a leader knows of its peers is about entries it has.
Informed(n) ==
  /\ \A p \in Nodes : match[n][p] <= Len(log[n]) /\ next[n][p] <= Len(log[n]) + 1
  /\ \A i \in 1 .. Len(call[n].replies) : call[n].replies[i].conflict_index <= Len(log[n]) + 1

\* Steps that write no log.
LEMMA LogsSame ==
  ASSUME NEW ll, Inv(ll), Types', log' = log, elected' = elected, VoteStep
  PROVE  LeaderLogs(ll)' /\ Logs(ll)'
<1>1. LeaderLogs(ll)'
  BY DEF Inv, LeaderLogs
<1>2. \A n \in Nodes : term[n] \in Nat /\ term'[n] \in Nat /\ term'[n] >= term[n]
  BY TermsGrow DEF Inv
<1>3. ASSUME NEW n \in Nodes, NEW k \in 1 .. Len(log[n]) PROVE log[n][k].term <= term'[n]
  <2>1. log[n][k].term \in Terms
    BY TermsOf DEF Inv, Types
  <2>2. log[n][k].term <= term[n] /\ log[n][k].term \in Nat
    BY <2>1 DEF Inv, Logs, Terms
  <2> QED BY <1>2, <2>2
<1>4. Logs(ll)'
  BY <1>3 DEF Inv, Logs
<1> QED BY <1>1, <1>4

\* Steps that write no log and elect no leader.
LEMMA QuietStep ==
  ASSUME NEW ll, Inv(ll), Types', log' = log, elected' = elected, VoteStep, RoundStep, AckStep,
         \A n \in Nodes : Leads(n)' => Leads(n) /\ term'[n] = term[n] /\ Informed(n)'
  PROVE  Step(ll, ll) /\ LeaderLogs(ll)' /\ Logs(ll)' /\ Leaders(ll)'
<1>1. \A n \in Nodes : Extends(log'[n], log[n])
  BY ExtendsSelf DEF Inv, Types
<1>2. \A t \in Terms : Extends(ll[t], ll[t])
  BY ExtendsSelf DEF Inv, LeaderLogs
<1>3. ElectStep(ll, ll)
  BY <1>2 DEF ElectStep
<1>4. LogStep(ll) /\ LeadStep
  BY <1>1 DEF LogStep, LeadStep
<1>5. Leaders(ll)'
  BY DEF Inv, Leaders, Informed
<1> QED BY <1>3, <1>4, <1>5, LogsSame DEF Step

-----------------------------------------------------------------------------
(***************************************************************************)
(* The actions.                                                            *)
(***************************************************************************)
RoundSame(c) == call'[c].kind = call[c].kind /\ call'[c].replies = call[c].replies

\* A node whose round is the same has the same voters and acknowledgements.
LEMMA SameRound ==
  ASSUME NEW c \in Nodes, RoundSame(c)
  PROVE  /\ InVote(c)' <=> InVote(c)
         /\ Voters(c)' = Voters(c)
         /\ match'[c] = match[c] => \A q \in Nodes : \A i \in Nat : Acked(c, q, i)' <=> Acked(c, q, i)
<1>1. InVote(c)' <=> InVote(c)
  BY DEF RoundSame, InVote
<1>2. Voters(c)' = Voters(c)
  BY DEF RoundSame, Voters
<1>3. match'[c] = match[c] => \A q \in Nodes : \A i \in Nat : Acked(c, q, i)' <=> Acked(c, q, i)
  BY DEF RoundSame, Acked
<1> QED BY <1>1, <1>2, <1>3

\* A round that starts has no replies yet.
LEMMA RoundIs ==
  ASSUME NEW n \in Nodes, NEW kind \in {"none", "vote", "append"},
         NEW via \in {"none", "elected", "tick", "propose"}
  PROVE  /\ Round(n, kind, via) \in Calls /\ Round(n, kind, via).kind = kind
         /\ Round(n, kind, via).via = via /\ Round(n, kind, via).replies = <<>>
         /\ \A i \in 1 .. Len(Round(n, kind, via).todo) : Round(n, kind, via).todo[i] # n
<1>1. Peers[n] \in Seq(Nodes)
  BY ConstantsAssumption
<1>2. {Peers[n][i] : i \in DOMAIN Peers[n]} = Nodes \ {n}
  BY ConstantsAssumption
<1>3. \A i \in 1 .. Len(Peers[n]) : Peers[n][i] # n
  BY <1>1, <1>2
<1>4. <<>> \in Seq(Replies)
  OBVIOUS
<1> QED BY <1>1, <1>3, <1>4 DEF Round, Calls

\* A node in no round.
LEMMA IdleIs == Idle \in Calls /\ Idle.kind = "none" /\ Idle.todo = <<>> /\ Idle.replies = <<>>
<1>1. <<>> \in Seq(Replies) /\ <<>> \in Seq(Nodes)
  OBVIOUS
<1> QED BY <1>1 DEF Idle, Calls

\* A round without replies: the node itself is the only voter.
LEMMA NoReplies ==
  ASSUME NEW n \in Nodes, call'[n].replies = <<>>
  PROVE  Voters(n)' = {n}
  BY DEF Voters

\* A log is as up to date as itself.
LEMMA UpToDateSelf == ASSUME NEW L PROVE UpToDate(L, L)
<1>1. LastTerm(L) = LastTerm(L) /\ Len(L) = Len(L)
  OBVIOUS
<1> QED BY <1>1 DEF UpToDate

\* A log that grows keeps its committed part.
LEMMA CommitSame ==
  ASSUME NEW ll, Inv(ll), Types', restarts = 0, NEW n \in Nodes, commit'[n] = commit[n],
         Extends(log'[n], log[n])
  PROVE  Agree(log'[n], log[n], commit[n])
<1>1. log[n] \in Seq(Entry) /\ log'[n] \in Seq(Entry) /\ commit[n] \in Nat
  BY DEF Inv, Types
<1>2. Len(log[n]) \in Nat /\ Len(log'[n]) \in Nat
  BY <1>1
<1>3. commit[n] <= Len(log[n])
  BY DEF Inv, Applies, Agree
<1> QED BY <1>1, <1>2, <1>3 DEF Extends, Agree

\* Steps that change no log and commit and apply nothing.
LEMMA CombineQuiet ==
  ASSUME NEW ll, Inv(ll), Types', Rounds', log' = log, elected' = elected, committed' = committed,
         VoteStep, RoundStep, AckStep, StaleStep,
         \A n \in Nodes : Leads(n)' => Leads(n) /\ term'[n] = term[n] /\ Informed(n)',
         restarts' = 0 => restarts = 0 /\ commit' = commit /\ ApplyStep
  PROVE  Inv(ll)'
<1>1. Step(ll, ll) /\ LeaderLogs(ll)' /\ Logs(ll)' /\ Leaders(ll)'
  BY QuietStep
<1>2. \A n \in Nodes : Extends(log'[n], log[n])
  BY ExtendsSelf DEF Inv, Types
<1>3. restarts' = 0 => CommitStep(ll)
  BY <1>2, CommitSame DEF CommitStep
<1> QED BY <1>1, <1>3, Combine

\* The action start_election keeps the invariant.
LEMMA StartElection ==
  ASSUME NEW ll, Inv(ll), NEW n \in Nodes, start_election(n)
  PROVE  Inv(ll)'
<1>1. /\ call[n] = Idle /\ role[n] # "leader" /\ term[n] < MaxTerm
      /\ term' = [term EXCEPT ![n] = @ + 1] /\ vote' = [vote EXCEPT ![n] = n]
      /\ role' = [role EXCEPT ![n] = "candidate"]
      /\ call' = [call EXCEPT ![n] = Round(n, "vote", "none")]
      /\ UNCHANGED <<log, commit, next, match, applied, stale, committed, elected, restarts>>
  BY DEF start_election, leading, serving, bounds
<1>2. /\ term \in [Nodes -> 0 .. MaxTerm] /\ vote \in [Nodes -> Nodes \cup {NoVote}]
      /\ role \in [Nodes -> {"follower", "candidate", "leader"}] /\ call \in [Nodes -> Calls]
  BY DEF Inv, Types
<1>3. \A c \in Nodes \ {n} : /\ term'[c] = term[c] /\ vote'[c] = vote[c] /\ role'[c] = role[c]
                             /\ call'[c] = call[c]
  BY <1>1, <1>2
<1>4. /\ term'[n] = term[n] + 1 /\ vote'[n] = n /\ role'[n] = "candidate"
      /\ call'[n] = Round(n, "vote", "none") /\ term[n] \in Nat /\ term'[n] \in 1 .. MaxTerm
  BY <1>1, <1>2, Limits
<1>5. Round(n, "vote", "none") \in Calls
  BY RoundIs
<1>6. Types'
  <2>1. term' \in [Nodes -> 0 .. MaxTerm]
    BY <1>1, <1>2, <1>4, Limits
  <2>2. vote' \in [Nodes -> Nodes \cup {NoVote}] /\ role' \in [Nodes -> {"follower", "candidate", "leader"}]
    BY <1>1, <1>2
  <2>3. call' \in [Nodes -> Calls]
    BY <1>1, <1>2, <1>5
  <2> QED BY <1>1, <2>1, <2>2, <2>3 DEF Inv, Types
<1>7. Rounds'
  <2>1. \A c \in Nodes \ {n} :
          /\ call'[c].kind = "none" => call'[c] = Idle
          /\ InVote(c)' => role'[c] = "candidate" /\ term'[c] \in Terms
          /\ call'[c].kind = "append" => Leads(c)'
          /\ \A i \in 1 .. Len(call'[c].todo) : call'[c].todo[i] # c
    BY <1>3 DEF Inv, Rounds, InVote, Leads
  <2>2. /\ call'[n].kind = "vote" /\ \A i \in 1 .. Len(call'[n].todo) : call'[n].todo[i] # n
    BY <1>4, RoundIs
  <2> QED BY <1>4, <2>1, <2>2 DEF Rounds, InVote, Terms
<1>8. \A q \in Nodes : term[q] \in Nat /\ term'[q] \in Nat
  BY <1>2, <1>6, Limits DEF Types
<1>9. VoteStep
  BY <1>3, <1>4, <1>8 DEF VoteStep
<1>10. \A c \in Nodes \ {n} : RoundSame(c)
  BY <1>3 DEF RoundSame
<1>11. RoundStep
  <2>1. Voters(n)' = {n}
    BY <1>4, NoReplies, RoundIs
  <2>2. Grants(n, n)
    BY <1>4, UpToDateSelf DEF Grants
  <2>3. \A c \in Nodes : log'[c] = log[c]
    BY <1>1
  <2> QED BY <1>3, <1>4, <1>10, <2>1, <2>2, <2>3, SameRound DEF RoundStep
<1>12. \A c \in Nodes : Leads(c)' => c # n /\ Leads(c) /\ term'[c] = term[c]
  BY <1>3, <1>4 DEF Leads
<1>13. AckStep
  <2>1. \A c \in Nodes : Len(log'[c]) = Len(log[c]) /\ match'[c] = match[c]
    BY <1>1
  <2> QED BY <1>10, <1>12, <2>1, SameRound DEF AckStep
<1>14. \A c \in Nodes : Leads(c)' => Informed(c)'
  BY <1>1, <1>3, <1>12 DEF Inv, Leaders, Informed
<1>15. StaleStep /\ ApplyStep
  BY <1>1 DEF StaleStep, ApplyStep
<1> QED BY <1>1, <1>6, <1>7, <1>9, <1>11, <1>12, <1>13, <1>14, <1>15, CombineQuiet

\* A node that ends its own round or goes on with it, the others untouched.
LEMMA LocalQuiet ==
  ASSUME NEW ll, Inv(ll), NEW n \in Nodes, Types', Rounds', log' = log, elected' = elected,
         committed' = committed, StaleStep,
         \A c \in Nodes \ {n} : /\ term'[c] = term[c] /\ vote'[c] = vote[c] /\ role'[c] = role[c]
                                /\ next'[c] = next[c] /\ match'[c] = match[c] /\ RoundSame(c),
         term'[n] > term[n] \/ (term'[n] = term[n] /\ vote'[n] = vote[n]),
         InVote(n)' => RoundSame(n) /\ term'[n] = term[n],
         Leads(n)' => /\ Leads(n) /\ term'[n] = term[n] /\ Informed(n)'
                      /\ \A q \in Nodes : \A i \in 1 .. Len(log[n]) : Acked(n, q, i)' => Acked(n, q, i),
         restarts' = 0 => restarts = 0 /\ commit' = commit /\ ApplyStep
  PROVE  Inv(ll)'
<1>1. VoteStep
  BY DEF VoteStep
<1>2. RoundStep
  <2> SUFFICES ASSUME NEW c \in Nodes, InVote(c)'
               PROVE  InVote(c) /\ term'[c] = term[c] /\ Voters(c)' = Voters(c)
    BY DEF RoundStep
  <2>1. RoundSame(c) /\ term'[c] = term[c]
    OBVIOUS
  <2> QED BY <2>1, SameRound
<1>3. AckStep
  <2> SUFFICES ASSUME NEW c \in Nodes, NEW q \in Nodes, NEW i \in 1 .. Len(log[c]), Leads(c)',
                      Acked(c, q, i)'
               PROVE  Leads(c) /\ i <= Len(log[c]) /\ Acked(c, q, i)
    BY DEF AckStep
  <2>1. i <= Len(log[c]) /\ i \in Nat
    <3>1. log[c] \in Seq(Entry)
      BY DEF Inv, Types
    <3> QED BY <3>1
  <2>2. CASE c = n
    BY <2>1, <2>2
  <2>3. CASE c # n
    BY <2>1, <2>3, SameRound DEF Leads
  <2> QED BY <2>2, <2>3
<1>4. ASSUME NEW c \in Nodes, Leads(c)'
      PROVE  Leads(c) /\ term'[c] = term[c] /\ Informed(c)'
  <2>1. CASE c = n
    BY <1>4, <2>1
  <2>2. CASE c # n
    <3>1. Leads(c) /\ RoundSame(c) /\ next'[c] = next[c] /\ match'[c] = match[c] /\ log'[c] = log[c]
      BY <1>4, <2>2 DEF Leads
    <3> QED BY <2>2, <3>1 DEF Inv, Leaders, Informed, RoundSame
  <2> QED BY <2>1, <2>2
<1> QED BY <1>1, <1>2, <1>3, <1>4, CombineQuiet

\* apply_committed applies committed entries, or nothing.
LEMMA ApplyIs ==
  ASSUME Types, log' \in [Nodes -> Seq(Entry)], commit' \in [Nodes -> Nat], NEW n \in Nodes,
         apply_committed(n)
  PROVE  applied' \in [Nodes -> Seq(Entry)] /\ ApplyStep
<1> DEFINE upto == Min({commit'[n], Len(log'[n])})
           new == SubSeq(log'[n], Len(applied[n]) + 1, upto)
<1>1. applied \in [Nodes -> Seq(Entry)] /\ applied[n] \in Seq(Entry) /\ log'[n] \in Seq(Entry)
      /\ commit'[n] \in Nat
  BY DEF Types
<1>2. applied' = [applied EXCEPT ![n] = applied[n] \o new]
  BY <1>1, Zenon DEF apply_committed
<1>3. Len(log'[n]) \in Nat /\ Len(applied[n]) \in Nat
  BY <1>1
<1>4. upto \in Nat /\ upto <= Len(log'[n])
  <2>1. upto \in Nat /\ upto = IF commit'[n] <= Len(log'[n]) THEN commit'[n] ELSE Len(log'[n])
    BY <1>1, <1>3, MinOf, Zenon
  <2> HIDE DEF upto
  <2> QED BY <1>1, <1>3, <2>1
<1>5. new \in Seq(Entry)
  <2> HIDE DEF upto
  <2>1. \A i \in (Len(applied[n]) + 1) .. upto : log'[n][i] \in Entry
    BY <1>1, <1>3, <1>4
  <2>2. Len(applied[n]) + 1 \in Int /\ upto \in Int
    BY <1>3, <1>4
  <2> QED BY <2>1, <2>2, SubSeqProperties
<1>6. applied[n] \o new \in Seq(Entry)
  <2> HIDE DEF new
  <2> QED BY <1>1, <1>5, ConcatProperties
<1>7. applied'[n] = applied[n] \o new /\ \A c \in Nodes \ {n} : applied'[c] = applied[c]
  <2> HIDE DEF new
  <2> QED BY <1>1, <1>2
<1>8. applied' \in [Nodes -> Seq(Entry)]
  <2> HIDE DEF new
  <2> QED BY <1>1, <1>2, <1>6
<1>9. ASSUME NEW c \in Nodes
      PROVE  \/ applied'[c] = applied[c]
             \/ applied'[c] = applied[c] \o SubSeq(log'[c], Len(applied[c]) + 1, Min({commit'[c], Len(log'[c])}))
  <2>1. CASE c = n
    BY <1>7, <2>1, Zenon
  <2>2. CASE c # n
    <3>1. applied'[c] = applied[c]
      BY <1>7, <2>2, Zenon
    <3> QED BY <3>1, Zenon
  <2> QED BY <2>1, <2>2, Zenon
<1>10. ApplyStep
  BY <1>9, Zenon DEF ApplyStep
<1> QED BY <1>8, <1>10, Zenon

\* A reply of a later term: the node follows and its round is over.
LEMMA FollowsStep ==
  ASSUME NEW ll, Inv(ll), NEW n \in Nodes, Follows(n), log' = log, elected' = elected,
         committed' = committed, next' = next, match' = match, stale' = stale, commit' = commit,
         restarts' = restarts, applied' \in [Nodes -> Seq(Entry)], ApplyStep
  PROVE  Inv(ll)'
<1> DEFINE r == call[n].replies[Min(Outdated(n))]
<1>1. /\ call[n].replies \in Seq(Replies) /\ term \in [Nodes -> 0 .. MaxTerm]
      /\ vote \in [Nodes -> Nodes \cup {NoVote}] /\ call \in [Nodes -> Calls]
      /\ role \in [Nodes -> {"follower", "candidate", "leader"}]
  BY DEF Inv, Types, Calls
<1>2. Outdated(n) \in SUBSET Nat /\ Outdated(n) # {}
  BY <1>1 DEF Outdated, Follows
<1>3. Min(Outdated(n)) \in Outdated(n)
  BY <1>2, MinIs
<1>4. r \in Replies /\ r.term > term[n]
  <2>1. Min(Outdated(n)) \in DOMAIN call[n].replies /\ r.term > term[n]
    BY <1>3 DEF Outdated
  <2> QED BY <1>1, <2>1
<1>5. r.term \in 0 .. MaxTerm
  BY <1>4 DEF Replies
<1>6. /\ term' = [term EXCEPT ![n] = r.term] /\ vote' = [vote EXCEPT ![n] = NoVote]
      /\ role' = [role EXCEPT ![n] = "follower"] /\ call' = [call EXCEPT ![n] = Idle]
  BY DEF Follows, become_follower
<1> HIDE DEF r
<1>7. /\ term'[n] = r.term /\ role'[n] = "follower" /\ call'[n] = Idle
      /\ \A c \in Nodes \ {n} : /\ term'[c] = term[c] /\ vote'[c] = vote[c] /\ role'[c] = role[c]
                                /\ call'[c] = call[c]
  BY <1>1, <1>6
<1>8. Types'
  <2>1. term' \in [Nodes -> 0 .. MaxTerm]
    BY <1>1, <1>5, <1>6
  <2>2. vote' \in [Nodes -> Nodes \cup {NoVote}] /\ role' \in [Nodes -> {"follower", "candidate", "leader"}]
    BY <1>1, <1>6
  <2>3. call' \in [Nodes -> Calls]
    BY <1>1, <1>6, IdleIs
  <2> QED BY <2>1, <2>2, <2>3 DEF Inv, Types
<1>9. Rounds'
  <2>1. \A c \in Nodes \ {n} :
          /\ call'[c].kind = "none" => call'[c] = Idle
          /\ InVote(c)' => role'[c] = "candidate" /\ term'[c] \in Terms
          /\ call'[c].kind = "append" => Leads(c)'
          /\ \A i \in 1 .. Len(call'[c].todo) : call'[c].todo[i] # c
    BY <1>7 DEF Inv, Rounds, InVote, Leads
  <2>2. Idle.kind = "none" /\ \A i \in 1 .. Len(Idle.todo) : Idle.todo[i] # n
    BY IdleIs
  <2> QED BY <1>7, <2>1, <2>2 DEF Rounds, InVote
<1>10. ~InVote(n)' /\ ~Leads(n)' /\ StaleStep
  BY <1>7, IdleIs DEF InVote, Leads, StaleStep
<1>11. \A c \in Nodes \ {n} : RoundSame(c)
  BY <1>7 DEF RoundSame
<1> QED BY <1>4, <1>7, <1>8, <1>9, <1>10, <1>11, LocalQuiet

\* The action send_heartbeats keeps the invariant.
LEMMA SendHeartbeats ==
  ASSUME NEW ll, Inv(ll), NEW n \in Nodes, send_heartbeats(n)
  PROVE  Inv(ll)'
<1>1. /\ call[n] = Idle /\ Leads(n) /\ call' = [call EXCEPT ![n] = Round(n, "append", "tick")]
      /\ UNCHANGED <<term, vote, log, role, commit, next, match, applied, stale, committed, elected, restarts>>
  BY DEF send_heartbeats, persistent, leading, serving, bounds, Leads
<1>2. call \in [Nodes -> Calls]
  BY DEF Inv, Types
<1>3. /\ Round(n, "append", "tick") \in Calls /\ Round(n, "append", "tick").kind = "append"
      /\ Round(n, "append", "tick").replies = <<>>
      /\ \A i \in 1 .. Len(Round(n, "append", "tick").todo) : Round(n, "append", "tick").todo[i] # n
  BY RoundIs
<1>4. /\ call'[n] = Round(n, "append", "tick") /\ \A c \in Nodes \ {n} : call'[c] = call[c]
      /\ call' \in [Nodes -> Calls]
  BY <1>1, <1>2, <1>3
<1>5. Types'
  BY <1>1, <1>4 DEF Inv, Types
<1>6. Rounds'
  BY <1>1, <1>3, <1>4 DEF Inv, Rounds, InVote, Leads
<1>7. ~InVote(n)' /\ StaleStep /\ ApplyStep
  BY <1>1, <1>3, <1>4 DEF InVote, StaleStep, ApplyStep
<1>8. \A c \in Nodes \ {n} : RoundSame(c)
  BY <1>4 DEF RoundSame
<1>9. Informed(n)'
  <2>1. Len(call'[n].replies) = 0
    BY <1>3, <1>4
  <2> QED BY <1>1, <2>1 DEF Inv, Leaders, Informed
<1>10. \A q \in Nodes : \A i \in 1 .. Len(log[n]) : Acked(n, q, i)' => Acked(n, q, i)
  <2>1. Len(call'[n].replies) = 0
    BY <1>3, <1>4
  <2> QED BY <1>1, <2>1 DEF Acked
<1> QED BY <1>1, <1>5, <1>6, <1>7, <1>8, <1>9, <1>10, LocalQuiet

\* The end of an election that is not won.
LEMMA LostElection ==
  ASSUME NEW ll, Inv(ll), NEW n \in Nodes, Ended(n, "vote"), call' = [call EXCEPT ![n] = Idle],
         UNCHANGED <<term, vote, log, role, commit, next, match, applied, stale, committed, elected, restarts>>
  PROVE  Inv(ll)'
<1>1. call \in [Nodes -> Calls] /\ ~Leads(n)
  BY DEF Inv, Types, Ended, Rounds, InVote, Leads
<1>2. call' \in [Nodes -> Calls] /\ call'[n] = Idle /\ \A c \in Nodes \ {n} : call'[c] = call[c]
  BY <1>1, IdleIs
<1>3. Types'
  BY <1>2 DEF Inv, Types
<1>4. Idle.kind = "none" /\ \A i \in 1 .. Len(Idle.todo) : Idle.todo[i] # n
  BY IdleIs
<1>5. Rounds'
  BY <1>2, <1>4 DEF Inv, Rounds, InVote, Leads
<1>6. ~InVote(n)' /\ ~Leads(n)' /\ StaleStep /\ ApplyStep
  BY <1>1, <1>2, <1>4 DEF InVote, Leads, StaleStep, ApplyStep
<1>7. \A c \in Nodes \ {n} : RoundSame(c)
  BY <1>2 DEF RoundSame
<1> QED BY <1>3, <1>5, <1>6, <1>7, LocalQuiet

\* A peer is taken off the list of a round, which has then replies s.
Asked(r, s) == [r EXCEPT !.todo = Tail(@), !.replies = s]

\* The round after a peer has been asked.
LEMMA TailOf ==
  ASSUME NEW c \in Nodes, NEW r \in Calls, r.todo # <<>>, r.kind = "none" => r = Idle,
         \A i \in 1 .. Len(r.todo) : r.todo[i] # c,
         NEW s \in Seq(Replies), NEW d, d = Asked(r, s)
  PROVE  /\ d \in Calls /\ d.kind = r.kind /\ d.via = r.via /\ d.replies = s /\ d.kind # "none"
         /\ \A i \in 1 .. Len(d.todo) : d.todo[i] # c
<1>1. r.todo \in Seq(Nodes) /\ r.kind \in {"none", "vote", "append"}
      /\ r.via \in {"none", "elected", "tick", "propose"}
  BY DEF Calls
<1>2. /\ Tail(r.todo) \in Seq(Nodes)
      /\ \A i \in 1 .. Len(Tail(r.todo)) : Tail(r.todo)[i] = r.todo[i + 1] /\ i + 1 \in 1 .. Len(r.todo)
  BY <1>1
<1>3. /\ d.kind = r.kind /\ d.via = r.via /\ d.replies = s /\ d.todo = Tail(r.todo)
      /\ d = [kind |-> r.kind, via |-> r.via, todo |-> Tail(r.todo), replies |-> s]
  BY DEF Calls, Asked
<1>4. d \in Calls
  BY <1>1, <1>2, <1>3 DEF Calls
<1>5. \A i \in 1 .. Len(d.todo) : d.todo[i] # c
  BY <1>2, <1>3
<1>6. r.kind # "none"
  BY IdleIs
<1> QED BY <1>3, <1>4, <1>5, <1>6

\* A peer that is skipped leaves no reply.
LEMMA SkipIs ==
  ASSUME NEW r \in Calls, NEW d, d = [r EXCEPT !.todo = Tail(@)]
  PROVE  d = Asked(r, r.replies)
  BY DEF Calls, Asked

\* The action lose keeps the invariant.
LEMMA Lose ==
  ASSUME NEW ll, Inv(ll), NEW n \in Nodes, lose(n)
  PROVE  Inv(ll)'
<1>1. /\ call[n].todo # <<>> /\ stale' = stale \cup {Invites(n)}
      /\ call' = [call EXCEPT ![n].todo = Tail(@)]
      /\ UNCHANGED <<term, vote, log, role, commit, next, match, applied, committed, elected, restarts>>
  BY DEF lose, persistent, leading, serving, Invites
<1>2. call \in [Nodes -> Calls] /\ call[n] \in Calls /\ call[n].replies \in Seq(Replies)
  BY DEF Inv, Types, Calls
<1>3. call'[n] = [call[n] EXCEPT !.todo = Tail(@)] /\ \A c \in Nodes \ {n} : call'[c] = call[c]
  BY <1>1, <1>2
<1>4. call'[n] = Asked(call[n], call[n].replies)
  BY <1>2, <1>3, SkipIs
<1>5. (call[n].kind = "none" => call[n] = Idle) /\ \A i \in 1 .. Len(call[n].todo) : call[n].todo[i] # n
  BY DEF Inv, Rounds
<1>6. /\ call'[n] \in Calls /\ call'[n].kind = call[n].kind /\ call'[n].replies = call[n].replies
      /\ call'[n].kind # "none" /\ \A i \in 1 .. Len(call'[n].todo) : call'[n].todo[i] # n
  <2>1. PICK r \in Calls : r = call[n]
    BY <1>2
  <2>2. PICK d : d = call'[n]
    OBVIOUS
  <2>3. PICK s \in Seq(Replies) : s = r.replies
    BY <1>2, <2>1
  <2>4. r.todo # <<>> /\ d = Asked(r, s) /\ (r.kind = "none" => r = Idle)
    BY <1>1, <1>4, <1>5, <2>1, <2>2, <2>3
  <2>5. \A i \in 1 .. Len(r.todo) : r.todo[i] # n
    BY <1>5, <2>1
  <2>6. /\ d \in Calls /\ d.kind = r.kind /\ d.replies = s /\ d.kind # "none"
        /\ \A i \in 1 .. Len(d.todo) : d.todo[i] # n
    BY <2>4, <2>5, TailOf
  <2> QED BY <2>1, <2>2, <2>3, <2>6
<1>7. call' \in [Nodes -> Calls]
  BY <1>1, <1>2, <1>3, <1>6
<1>8. Types'
  BY <1>1, <1>7 DEF Inv, Types
<1>9. Rounds'
  BY <1>1, <1>3, <1>6 DEF Inv, Rounds, InVote, Leads
<1>10. \A c \in Nodes : RoundSame(c)
  BY <1>3, <1>6 DEF RoundSame
<1>11. StaleStep /\ ApplyStep
  BY <1>1 DEF StaleStep, ApplyStep
<1>12. Leads(n)' => /\ Leads(n) /\ term'[n] = term[n] /\ Informed(n)'
                    /\ \A q \in Nodes : \A i \in 1 .. Len(log[n]) : Acked(n, q, i)' => Acked(n, q, i)
  <2>1. \A i \in 1 .. Len(log[n]) : i \in Nat
    OBVIOUS
  <2>2. Leads(n)' => Leads(n) /\ Informed(n)'
    BY <1>1, <1>6 DEF Inv, Leaders, Informed, Leads
  <2> QED BY <1>1, <1>10, <2>1, <2>2, SameRound
<1> QED BY <1>1, <1>8, <1>9, <1>10, <1>11, <1>12, LocalQuiet

\* The action restart keeps the invariant.
LEMMA Restart ==
  ASSUME NEW ll, Inv(ll), NEW n \in Nodes, restart(n)
  PROVE  Inv(ll)'
<1>1. /\ restarts' = restarts + 1 /\ role' = [role EXCEPT ![n] = "follower"]
      /\ commit' = [commit EXCEPT ![n] = last_log_index(n)]
      /\ next' = [next EXCEPT ![n] = [p \in Nodes |-> 1]]
      /\ match' = [match EXCEPT ![n] = [p \in Nodes |-> 0]]
      /\ applied' = [applied EXCEPT ![n] = <<>>]
      /\ UNCHANGED <<term, vote, log, committed, elected>>
  BY DEF restart, persistent
<1>2. /\ stale' = {r \in stale : r.to # n}
                  \cup (IF call[n].todo = <<>> THEN {} ELSE {Invites(n)})
      /\ call' = [m \in Nodes |-> IF m = n THEN Idle
                   ELSE IF Asks(m, n) THEN [call[m] EXCEPT !.todo = Tail(@)] ELSE call[m]]
  BY DEF restart, Invites
<1>3. ASSUME NEW c \in Nodes \ {n}
      PROVE  /\ call'[c] \in Calls /\ RoundSame(c)
             /\ call'[c].kind = "none" => call'[c] = Idle
             /\ \A i \in 1 .. Len(call'[c].todo) : call'[c].todo[i] # c
  <2>1. /\ call[c] \in Calls /\ call[c].replies \in Seq(Replies)
        /\ (call[c].kind = "none" => call[c] = Idle)
        /\ \A i \in 1 .. Len(call[c].todo) : call[c].todo[i] # c
    BY DEF Inv, Types, Calls, Rounds
  <2>2. CASE ~Asks(c, n)
    <3>1. call'[c] = call[c]
      BY <1>2, <2>2
    <3> QED BY <2>1, <3>1 DEF RoundSame
  <2>3. CASE Asks(c, n)
    <3>1. call'[c] = [call[c] EXCEPT !.todo = Tail(@)] /\ call[c].todo # <<>>
      BY <1>2, <2>3 DEF Asks
    <3>2. call'[c] = Asked(call[c], call[c].replies)
      BY <2>1, <3>1, SkipIs
    <3>3. /\ call'[c] \in Calls /\ call'[c].kind = call[c].kind /\ call'[c].replies = call[c].replies
          /\ call'[c].kind # "none" /\ \A i \in 1 .. Len(call'[c].todo) : call'[c].todo[i] # c
      BY <2>1, <3>1, <3>2, TailOf
    <3> QED BY <3>3 DEF RoundSame
  <2> QED BY <2>2, <2>3
<1>4. call'[n] = Idle /\ role'[n] = "follower" /\ \A c \in Nodes \ {n} : role'[c] = role[c]
  BY <1>1, <1>2 DEF Inv, Types
<1>5. Types'
  <2>1. log[n] \in Seq(Entry) /\ restarts \in Nat
    BY DEF Inv, Types
  <2>2. last_log_index(n) \in Nat /\ <<>> \in Seq(Entry) /\ restarts + 1 \in Nat
    BY <2>1 DEF last_log_index
  <2>3. /\ commit' \in [Nodes -> Nat] /\ role' \in [Nodes -> {"follower", "candidate", "leader"}]
        /\ restarts' \in Nat
    BY <1>1, <2>2 DEF Inv, Types
  <2>4. /\ next' \in [Nodes -> [Nodes -> Nat \ {0}]] /\ match' \in [Nodes -> [Nodes -> Nat]]
        /\ applied' \in [Nodes -> Seq(Entry)]
    BY <1>1, <2>2 DEF Inv, Types
  <2>5. call' \in [Nodes -> Calls]
    <3>1. \A c \in Nodes : call'[c] \in Calls
      BY <1>3, <1>4, IdleIs
    <3>2. call' = [c \in Nodes |-> call'[c]]
      BY <1>2
    <3> QED BY <3>1, <3>2
  <2> QED BY <1>1, <2>3, <2>4, <2>5 DEF Inv, Types
<1>6. Idle.kind = "none" /\ \A i \in 1 .. Len(Idle.todo) : Idle.todo[i] # n
  BY IdleIs
<1>7. Rounds'
  <2>1. \A c \in Nodes \ {n} : /\ InVote(c)' => role'[c] = "candidate" /\ term'[c] \in Terms
                               /\ call'[c].kind = "append" => Leads(c)'
    BY <1>1, <1>3, <1>4 DEF Inv, Rounds, RoundSame, InVote, Leads
  <2> QED BY <1>3, <1>4, <1>6, <2>1 DEF Rounds, InVote
<1>8. ~InVote(n)' /\ ~Leads(n)'
  BY <1>4, <1>6 DEF InVote, Leads
<1>9. StaleStep
  BY <1>2 DEF StaleStep
<1>10. restarts' # 0
  BY <1>1 DEF Inv, Types
<1>11. \A c \in Nodes \ {n} : next'[c] = next[c] /\ match'[c] = match[c]
  BY <1>1 DEF Inv, Types
<1> QED BY <1>1, <1>3, <1>4, <1>5, <1>7, <1>8, <1>9, <1>10, <1>11, LocalQuiet

\* What a node reads is well formed: a stale request, or one its sender waits for.
LEMMA InboxIs ==
  ASSUME NEW ll, Inv(ll), NEW n \in Nodes, NEW m \in Inbox(n)
  PROVE  /\ Wellformed(ll, m) /\ m.to = n /\ m.from \in Nodes \ {n} /\ m.term \in Terms
         /\ m \notin stale => call[m.from].todo # <<>> /\ m = Invites(m.from)
<1>1. CASE m \in stale /\ m.to = n
  BY <1>1 DEF Inv, Messages, Wellformed
<1>2. ASSUME NEW c \in Nodes, Asks(c, n), m = Request(c, n)
      PROVE  /\ Wellformed(ll, m) /\ m.to = n /\ m.from \in Nodes \ {n} /\ m.term \in Terms
             /\ m \notin stale => call[m.from].todo # <<>> /\ m = Invites(m.from)
  <2>1. call[c].todo # <<>> /\ m = Invites(c) /\ Head(call[c].todo) = n
    BY <1>2 DEF Asks, Invites
  <2>2. Wellformed(ll, m) /\ m.from = c /\ m.to = n
    BY <2>1, RequestIs
  <2> QED BY <2>1, <2>2 DEF Wellformed
<1> QED BY <1>1, <1>2 DEF Inbox

\* A reply reaches the sender of the request, unless it has given up.
Answered(c, resp) ==
  call'[c].kind = call[c].kind /\ call'[c].replies = Append(call[c].replies, resp)

WithReply(r, resp) == Append(r.replies, resp)
Answer(f, c, resp) == [f EXCEPT ![c].todo = Tail(@), ![c].replies = Append(@, resp)]

\* What an answer does to the round of the sender.
LEMMA AnswerIs ==
  ASSUME NEW f \in [Nodes -> Calls], NEW c \in Nodes, NEW resp, NEW g, g = Answer(f, c, resp),
         NEW s, s = WithReply(f[c], resp)
  PROVE  /\ g[c] = Asked(f[c], s)
         /\ \A d \in Nodes \ {c} : g[d] = f[d]
         /\ g[c] \in Calls => g \in [Nodes -> Calls]
<1>1. g[c] = [f[c] EXCEPT !.todo = Tail(@), !.replies = Append(@, resp)]
  BY DEF Calls, Answer
<1>2. \A d \in Nodes \ {c} : g[d] = f[d]
  BY DEF Answer
<1>3. g = [d \in Nodes |-> g[d]]
  BY DEF Answer
<1>4. g[c] \in Calls => g \in [Nodes -> Calls]
  BY <1>2, <1>3
<1>5. g[c] = Asked(f[c], s)
  BY <1>1, Zenon DEF Asked, WithReply
<1> QED BY <1>2, <1>4, <1>5, Zenon

\* Reply adds an answer to the round of the sender, if it still waits.
LEMMA ReplyIs ==
  ASSUME NEW ll, Inv(ll), NEW n \in Nodes, NEW m \in Inbox(n), NEW resp \in Replies, Reply(m, resp)
  PROVE  /\ call' \in [Nodes -> Calls] /\ StaleStep /\ call'[n] = call[n]
         /\ \A c \in Nodes : c # m.from \/ m \in stale => call'[c] = call[c]
         /\ m \notin stale => Answered(m.from, resp)
         /\ \A c \in Nodes : /\ call'[c].kind = call[c].kind
                             /\ call'[c].kind = "none" => call'[c] = Idle
                             /\ \A i \in 1 .. Len(call'[c].todo) : call'[c].todo[i] # c
<1>1. call \in [Nodes -> Calls]
  BY DEF Inv, Types
<1>2. \A c \in Nodes : /\ call[c].kind = "none" => call[c] = Idle
                       /\ \A i \in 1 .. Len(call[c].todo) : call[c].todo[i] # c
  BY DEF Inv, Rounds
<1>3. CASE m \in stale
  <2>1. stale' = stale \ {m} /\ call' = call
    BY <1>3 DEF Reply
  <2> QED BY <1>1, <1>2, <1>3, <2>1 DEF StaleStep
<1>4. CASE m \notin stale
  <2>1. PICK c \in Nodes \ {n} : m.from = c /\ call[c].todo # <<>>
    BY <1>4, InboxIs
  <2>2. stale' = stale /\ call' = Answer(call, c, resp)
    BY <1>4, <2>1 DEF Reply, Answer
  <2>3. call[c] \in Calls /\ call[c].replies \in Seq(Replies)
    BY <1>1 DEF Calls
  <2>4. PICK s \in Seq(Replies) : s = WithReply(call[c], resp)
    <3>1. WithReply(call[c], resp) \in Seq(Replies)
      BY <2>3 DEF WithReply
    <3> QED BY <3>1, Zenon
  <2>5. /\ call'[c] = Asked(call[c], s) /\ \A d \in Nodes \ {c} : call'[d] = call[d]
        /\ call'[c] \in Calls => call' \in [Nodes -> Calls]
    BY <1>1, <2>2, <2>4, AnswerIs
  <2>6. /\ call'[c] \in Calls /\ call'[c].kind = call[c].kind /\ call'[c].replies = s
        /\ call'[c].kind # "none" /\ \A i \in 1 .. Len(call'[c].todo) : call'[c].todo[i] # c
    BY <1>2, <2>1, <2>3, <2>5, TailOf
  <2>7. call' \in [Nodes -> Calls]
    BY <2>5, <2>6
  <2>8. StaleStep
    BY <2>2 DEF StaleStep
  <2>9. Answered(c, resp)
    BY <2>4, <2>6 DEF Answered, WithReply
  <2>10. ASSUME NEW d \in Nodes
         PROVE  /\ call'[d].kind = call[d].kind /\ (call'[d].kind = "none" => call'[d] = Idle)
                /\ \A i \in 1 .. Len(call'[d].todo) : call'[d].todo[i] # d
    <3>1. CASE d = c
      BY <2>6, <3>1
    <3>2. CASE d # c
      BY <1>2, <2>5, <3>2
    <3> QED BY <3>1, <3>2
  <2>11. call'[n] = call[n] /\ \A d \in Nodes : d # c => call'[d] = call[d]
    BY <2>1, <2>5
  <2> QED BY <1>4, <2>1, <2>7, <2>8, <2>9, <2>10, <2>11
<1> QED BY <1>3, <1>4

\* The votes and acknowledgements an answer adds.
LEMMA AnsweredIs ==
  ASSUME Types, NEW c \in Nodes, NEW resp \in Replies, Answered(c, resp)
  PROVE  /\ InVote(c)' <=> InVote(c)
         /\ \A q \in Voters(c)' : q \in Voters(c) \/ (resp.ok /\ q = resp.from)
         /\ match'[c] = match[c] => \A q \in Nodes : \A i \in Nat : Acked(c, q, i)' =>
              Acked(c, q, i) \/ (call[c].kind = "append" /\ resp.ok /\ q = resp.from)
         /\ \A i \in 1 .. Len(call'[c].replies) :
              call'[c].replies[i] = resp \/ \E j \in 1 .. Len(call[c].replies) : call'[c].replies[i] = call[c].replies[j]
<1> DEFINE s == call[c].replies
           s2 == call'[c].replies
<1>1. s \in Seq(Replies) /\ s2 = Append(s, resp)
  BY DEF Types, Calls, Answered
<1>2. /\ Len(s) \in Nat /\ Len(s2) = Len(s) + 1 /\ DOMAIN s = 1 .. Len(s) /\ DOMAIN s2 = 1 .. Len(s2)
      /\ s2[Len(s) + 1] = resp /\ \A i \in 1 .. Len(s) : s2[i] = s[i]
  BY <1>1
<1> HIDE DEF s, s2
<1>3. \A i \in 1 .. Len(s2) : s2[i] = resp \/ \E j \in 1 .. Len(s) : s2[i] = s[j]
  <2> TAKE i \in 1 .. Len(s2)
  <2>1. i \in 1 .. Len(s) \/ i = Len(s) + 1
    BY <1>2
  <2> QED BY <1>2, <2>1
<1>4. \A q \in Voters(c)' : q \in Voters(c) \/ (resp.ok /\ q = resp.from)
  <2> TAKE q \in Voters(c)'
  <2>1. q = c \/ \E i \in DOMAIN s2 : s2[i].ok /\ q = s2[i].from
    BY DEF Voters, s2
  <2>2. q = c \/ (resp.ok /\ q = resp.from) \/ \E j \in DOMAIN s : s[j].ok /\ q = s[j].from
    BY <1>2, <1>3, <2>1
  <2> QED BY <2>2 DEF Voters, s
<1>5. match'[c] = match[c] => \A q \in Nodes : \A i \in Nat : Acked(c, q, i)' =>
              Acked(c, q, i) \/ (call[c].kind = "append" /\ resp.ok /\ q = resp.from)
  <2> SUFFICES ASSUME match'[c] = match[c], NEW q \in Nodes, NEW i \in Nat, Acked(c, q, i)',
                      ~(q = c \/ match[c][q] >= i)
               PROVE  Acked(c, q, i) \/ (call[c].kind = "append" /\ resp.ok /\ q = resp.from)
    BY DEF Acked
  <2>1. call[c].kind = "append" /\ \E k \in 1 .. Len(s2) : s2[k].from = q /\ s2[k].ok
    BY DEF Acked, Answered, s2
  <2>2. (resp.ok /\ q = resp.from) \/ \E k \in 1 .. Len(s) : s[k].from = q /\ s[k].ok
    BY <1>3, <2>1
  <2> QED BY <2>1, <2>2 DEF Acked, s
<1>6. InVote(c)' <=> InVote(c)
  BY DEF InVote, Answered
<1> QED BY <1>3, <1>4, <1>5, <1>6 DEF s, s2

\* Steps of a node n that answers a request: no other node's state changes,
\* but for the reply that one of them receives.
LEMMA AnswerStep ==
  ASSUME NEW ll, Inv(ll), NEW n \in Nodes, NEW m \in Inbox(n), call[n] = Idle, NEW resp \in Replies,
         Reply(m, resp), resp.from = n, Types',
         next' = next, match' = match,
         \A c \in Nodes \ {n} : term'[c] = term[c] /\ vote'[c] = vote[c] /\ role'[c] = role[c] /\ log'[c] = log[c],
         Leads(n)' => Leads(n) /\ term'[n] = term[n] /\ log'[n] = log[n],
         term'[n] > term[n] \/ (term'[n] = term[n] /\ vote[n] \in {NoVote, vote'[n]}),
         m \notin stale /\ InVote(m.from) /\ resp.ok => Grants(n, m.from),
         m \notin stale /\ Leads(m.from) /\ call[m.from].kind = "append" /\ resp.ok => NewAck(m.from, n),
         m \notin stale /\ Leads(m.from) => resp.conflict_index <= Len(log[m.from]) + 1
  PROVE  /\ Rounds' /\ VoteStep /\ RoundStep /\ AckStep /\ LeadStep /\ StaleStep
         /\ \A c \in Nodes : Leads(c)' => /\ Leads(c) /\ term'[c] = term[c] /\ log'[c] = log[c]
                                          /\ Informed(c)'
<1>1. /\ call' \in [Nodes -> Calls] /\ StaleStep /\ call'[n] = Idle
      /\ \A c \in Nodes : c # m.from \/ m \in stale => call'[c] = call[c]
      /\ m \notin stale => Answered(m.from, resp)
      /\ \A c \in Nodes : /\ call'[c].kind = call[c].kind
                          /\ call'[c].kind = "none" => call'[c] = Idle
                          /\ \A i \in 1 .. Len(call'[c].todo) : call'[c].todo[i] # c
  BY ReplyIs
<1>2. m.from \in Nodes \ {n}
  BY InboxIs
<1>3. ~InVote(n)' /\ ~InVote(n) /\ Idle.kind = "none" /\ Idle.replies = <<>>
  BY <1>1, IdleIs DEF InVote
<1>4. Rounds'
  <2>1. \A c \in Nodes \ {n} : /\ InVote(c)' => role'[c] = "candidate" /\ term'[c] \in Terms
                               /\ call'[c].kind = "append" => Leads(c)'
    BY <1>1 DEF Inv, Rounds, InVote, Leads
  <2> QED BY <1>1, <1>3, <2>1 DEF Rounds
<1>5. VoteStep
  BY DEF VoteStep
<1>6. \A c \in Nodes : RoundSame(c) \/ (c = m.from /\ m \notin stale /\ Answered(c, resp))
  BY <1>1 DEF RoundSame
<1>7. RoundStep
  <2> SUFFICES ASSUME NEW c \in Nodes, InVote(c)'
               PROVE  /\ InVote(c) /\ term'[c] = term[c] /\ log'[c] = log[c]
                      /\ \A q \in Voters(c)' : q \in Voters(c) \/ Grants(q, c)
    BY DEF RoundStep
  <2>1. c # n /\ term'[c] = term[c] /\ log'[c] = log[c]
    BY <1>3
  <2>2. CASE RoundSame(c)
    BY <2>1, <2>2, SameRound
  <2>3. CASE c = m.from /\ m \notin stale /\ Answered(c, resp)
    <3>1. InVote(c) /\ \A q \in Voters(c)' : q \in Voters(c) \/ (resp.ok /\ q = resp.from)
      BY <2>3, AnsweredIs DEF Inv
    <3> QED BY <2>1, <2>3, <3>1
  <2> QED BY <1>6, <2>2, <2>3
<1>8. \A c \in Nodes : Leads(c)' => Leads(c) /\ term'[c] = term[c] /\ log'[c] = log[c]
  BY DEF Leads
<1>9. AckStep
  <2> SUFFICES ASSUME NEW c \in Nodes, NEW q \in Nodes, NEW i \in 1 .. Len(log'[c]), Leads(c)',
                      Acked(c, q, i)'
               PROVE  Leads(c) /\ i <= Len(log[c]) /\ (Acked(c, q, i) \/ NewAck(c, q))
    BY DEF AckStep
  <2>1. Leads(c) /\ i <= Len(log[c]) /\ i \in Nat
    <3>1. log[c] \in Seq(Entry) /\ log'[c] = log[c] /\ Leads(c)
      BY <1>8 DEF Inv, Types
    <3> QED BY <3>1
  <2>2. match'[c] = match[c]
    OBVIOUS
  <2>3. CASE RoundSame(c)
    BY <2>1, <2>2, <2>3, SameRound
  <2>4. CASE c = m.from /\ m \notin stale /\ Answered(c, resp)
    <3>1. Acked(c, q, i) \/ (call[c].kind = "append" /\ resp.ok /\ q = resp.from)
      BY <2>1, <2>2, <2>4, AnsweredIs DEF Inv
    <3> QED BY <2>1, <2>4, <3>1
  <2> QED BY <1>6, <2>3, <2>4
<1>10. ASSUME NEW c \in Nodes, Leads(c)' PROVE Informed(c)'
  <2>1. /\ Leads(c) /\ log'[c] = log[c] /\ next'[c] = next[c] /\ match'[c] = match[c]
    BY <1>8, <1>10
  <2>2. Informed(c)
    BY <2>1 DEF Inv, Leaders, Informed
  <2>3. CASE RoundSame(c)
    BY <2>1, <2>2, <2>3 DEF Informed, RoundSame
  <2>4. CASE c = m.from /\ m \notin stale /\ Answered(c, resp)
    <3>1. \A i \in 1 .. Len(call'[c].replies) :
            call'[c].replies[i] = resp \/ \E j \in 1 .. Len(call[c].replies) : call'[c].replies[i] = call[c].replies[j]
      BY <2>4, AnsweredIs DEF Inv
    <3>2. resp.conflict_index <= Len(log[c]) + 1
      BY <2>1, <2>4
    <3> QED BY <2>1, <2>2, <3>1, <3>2 DEF Informed
  <2> QED BY <1>6, <2>3, <2>4
<1>11. \A c \in Nodes : Extends(log[c], log[c])
  BY ExtendsSelf DEF Inv, Types
<1>12. LeadStep
  BY <1>8, <1>11 DEF LeadStep
<1> QED BY <1>1, <1>4, <1>5, <1>7, <1>8, <1>9, <1>10, <1>12

\* The action handle_request_vote keeps the invariant.
LEMMA HandleRequestVote ==
  ASSUME NEW ll, Inv(ll), NEW n \in Nodes, NEW m \in Inbox(n), handle_request_vote(n, m)
  PROVE  Inv(ll)'
<1> DEFINE newer == m.term > term[n]
           voted == IF newer THEN NoVote ELSE vote[n]
           grant == m.term >= term[n] /\ voted \in {NoVote, m.from} /\ is_candidate_log_ok(n, m)
           resp == [from |-> n, term |-> term'[n], ok |-> grant, conflict_index |-> 0]
<1>1. /\ call[n] = Idle /\ m.kind = "vote"
      /\ term' = [term EXCEPT ![n] = Max({@, m.term})]
      /\ vote' = [vote EXCEPT ![n] = IF grant THEN m.from ELSE voted]
      /\ role' = [role EXCEPT ![n] = IF newer THEN "follower" ELSE @]
      /\ Reply(m, resp)
      /\ UNCHANGED <<log, commit, next, match, applied, committed, elected, restarts>>
  BY DEF handle_request_vote, Reads, leading, serving, bounds
<1>2. /\ term \in [Nodes -> 0 .. MaxTerm] /\ vote \in [Nodes -> Nodes \cup {NoVote}]
      /\ role \in [Nodes -> {"follower", "candidate", "leader"}]
  BY DEF Inv, Types
<1>3. m.term \in Terms /\ m.from \in Nodes \ {n} /\ m.term \in 0 .. MaxTerm /\ m.term \in Nat /\ term[n] \in Nat
  <2>1. m.term \in Terms /\ m.from \in Nodes \ {n}
    BY InboxIs
  <2> QED BY <1>2, <2>1, Limits DEF Terms
<1>4. Max({term[n], m.term}) = IF term[n] >= m.term THEN term[n] ELSE m.term
  BY <1>3, MaxOf
<1>5. /\ term'[n] = IF newer THEN m.term ELSE term[n]
      /\ vote'[n] = IF grant THEN m.from ELSE voted
      /\ role'[n] = IF newer THEN "follower" ELSE role[n]
      /\ \A c \in Nodes \ {n} : term'[c] = term[c] /\ vote'[c] = vote[c] /\ role'[c] = role[c] /\ log'[c] = log[c]
  <2>1. term'[n] = IF newer THEN m.term ELSE term[n]
    BY <1>1, <1>2, <1>3, <1>4
  <2> HIDE DEF newer, grant, voted, resp
  <2> QED BY <1>1, <1>2, <2>1
<1>6. grant \in BOOLEAN /\ voted \in Nodes \cup {NoVote}
  BY <1>2
<1>7. term'[n] \in 0 .. MaxTerm
  BY <1>2, <1>3, <1>5
<1>8. resp \in Replies /\ resp.from = n /\ resp.ok = grant /\ resp.conflict_index = 0
  <2> HIDE DEF grant
  <2> QED BY <1>6, <1>7 DEF Replies
<1>9. Types'
  <2>1. term' \in [Nodes -> 0 .. MaxTerm]
    BY <1>1, <1>2, <1>3, <1>4
  <2>2. vote' \in [Nodes -> Nodes \cup {NoVote}] /\ role' \in [Nodes -> {"follower", "candidate", "leader"}]
    <3> HIDE DEF newer, grant, voted, resp
    <3> QED BY <1>1, <1>2, <1>3, <1>6
  <2>3. call' \in [Nodes -> Calls]
    <3> HIDE DEF resp
    <3> QED BY <1>1, <1>8, ReplyIs
  <2> QED BY <1>1, <2>1, <2>2, <2>3 DEF Inv, Types
<1>10. term'[n] > term[n] \/ (term'[n] = term[n] /\ vote[n] \in {NoVote, vote'[n]})
  BY <1>3, <1>5
<1>11. Leads(n)' => Leads(n) /\ term'[n] = term[n] /\ log'[n] = log[n]
  BY <1>1, <1>5 DEF Leads
<1>12. ASSUME m \notin stale
       PROVE  InVote(m.from) /\ ~Leads(m.from) /\ (grant => Grants(n, m.from))
  <2>1. PICK c \in Nodes \ {n} : m.from = c /\ call[c].todo # <<>> /\ m = Invites(c)
    BY <1>12, InboxIs
  <2>2. InVote(c) /\ m.term = term[c] /\ m.last_log_index = Len(log[c]) /\ m.last_log_term = LastTerm(log[c])
    BY <1>1, <2>1, RequestIs
  <2>3. ~Leads(c)
    BY <2>2 DEF Inv, Rounds, Leads
  <2>4. ASSUME grant PROVE Grants(n, c)
    <3>1. is_candidate_log_ok(n, m) /\ m.term >= term[n] /\ voted \in {NoVote, c}
      BY <2>1, <2>4
    <3>2. log_term_at(n, last_log_index(n)) = LastTerm(log[n])
      BY LastTermIs DEF Inv
    <3>3. UpToDate(log[c], log[n])
      BY <2>2, <3>1, <3>2 DEF is_candidate_log_ok, UpToDate, last_log_index
    <3>4. term'[c] = m.term /\ term'[n] = m.term /\ vote'[n] = c /\ term[n] <= m.term
      BY <1>3, <1>5, <2>1, <2>2, <2>4, <3>1
    <3>5. term[n] = m.term => vote[n] \in {NoVote, c}
      BY <1>3, <3>1
    <3> QED BY <3>3, <3>4, <3>5 DEF Grants
  <2> QED BY <2>1, <2>2, <2>3, <2>4
<1> HIDE DEF newer, voted, grant, resp
<1>13. /\ Rounds' /\ VoteStep /\ RoundStep /\ AckStep /\ StaleStep
       /\ \A c \in Nodes : Leads(c)' => Leads(c) /\ term'[c] = term[c] /\ Informed(c)'
  BY <1>1, <1>5, <1>8, <1>9, <1>10, <1>11, <1>12, AnswerStep
<1>14. ApplyStep
  BY <1>1 DEF ApplyStep
<1> QED BY <1>1, <1>9, <1>13, <1>14, CombineQuiet

\* A leader writes an entry e of its term to its log, and that log is the log
\* of the term.
Writes(n, e) == log' = [log EXCEPT ![n] = Append(@, e)]
Leaves(ll, ll2, n, t) == ll2 = [ll EXCEPT ![t] = log'[n]]

LogGrows(ll, ll2, n, t) ==
  /\ log' \in [Nodes -> Seq(Entry)] /\ LeaderLogs(ll2)' /\ Logs(ll2)' /\ LogStep(ll)
  /\ \A c \in Nodes : Extends(log'[c], log[c])
  /\ \A c \in Nodes \ {n} : log'[c] = log[c]
  /\ ll2[t] = log'[n] /\ \A u \in Terms \ {t} : ll2[u] = ll[u]
  /\ Len(log'[n]) = Len(log[n]) + 1 /\ ll2[t] # <<>>
  /\ \A u \in Terms : Extends(ll2[u], ll[u])

\* The log of a leader that writes an entry is the log of its term.
LEMMA LeaderAppends ==
  ASSUME NEW ll, Inv(ll), NEW n \in Nodes, NEW t \in Terms, term[n] = t, term' = term,
         NEW e \in Entry, e.term = t, Writes(n, e),
         ll[t] = <<>> \/ ll[t] = log[n],
         \A u \in Terms \ {t} : elected'[u] = elected[u], elected'[t] # {},
         NEW ll2, Leaves(ll, ll2, n, t)
  PROVE  LogGrows(ll, ll2, n, t)
<1>1. /\ log \in [Nodes -> Seq(Entry)] /\ log[n] \in Seq(Entry) /\ ll \in [Terms -> Seq(Entry)]
      /\ t \in Nat
  BY DEF Inv, Types, LeaderLogs, Terms
<1>2. log'[n] = Append(log[n], e) /\ \A c \in Nodes \ {n} : log'[c] = log[c]
  BY <1>1 DEF Writes
<1>3. /\ log'[n] \in Seq(Entry) /\ Len(log[n]) \in Nat /\ Len(log'[n]) = Len(log[n]) + 1
      /\ log'[n][Len(log[n]) + 1] = e /\ \A k \in 1 .. Len(log[n]) : log'[n][k] = log[n][k]
  BY <1>1, <1>2
<1>4. log' \in [Nodes -> Seq(Entry)]
  BY <1>1, <1>2, <1>3 DEF Writes
<1>5. Extends(log'[n], log[n])
  BY <1>3 DEF Extends, Agree
<1>6. \A c \in Nodes : Extends(log'[c], log[c])
  BY <1>1, <1>2, <1>5, ExtendsSelf
<1>7. /\ ll2 \in [Terms -> Seq(Entry)] /\ ll2[t] = log'[n] /\ \A u \in Terms \ {t} : ll2[u] = ll[u]
  BY <1>1, <1>3 DEF Leaves
<1>8. \A u \in Terms : Extends(ll2[u], ll[u])
  <2> TAKE u \in Terms
  <2>1. CASE u # t
    BY <1>1, <1>7, <2>1, ExtendsSelf
  <2>2. CASE u = t /\ ll[t] = <<>>
    <3>1. Len(ll[u]) = 0 /\ Len(ll2[u]) \in Nat
      BY <1>3, <1>7, <2>2
    <3> QED BY <3>1 DEF Extends, Agree
  <2>3. CASE u = t /\ ll[t] = log[n]
    BY <1>5, <1>7, <2>3
  <2> QED BY <2>1, <2>2, <2>3
<1>9. \A L \in Seq(Entry) : OfLeaders(ll, L) => OfLeaders(ll2, L)
  BY <1>1, <1>7, <1>8, LeadersGrow
<1>10. \A k \in 1 .. Len(log'[n]) : k \in 1 .. Len(log[n]) \/ k = Len(log[n]) + 1
  BY <1>3
<1>11. \A k \in 1 .. Len(log'[n]) : log'[n][k].term <= t /\ log'[n][k].term \in Nat
  <2>1. \A k \in 1 .. Len(log'[n]) : log'[n][k].term \in Terms
    BY <1>3, TermsOf
  <2>2. \A k \in 1 .. Len(log[n]) : log[n][k].term <= t
    BY DEF Inv, Logs
  <2> TAKE k \in 1 .. Len(log'[n])
  <2>3. CASE k \in 1 .. Len(log[n])
    BY <1>3, <2>1, <2>2, <2>3 DEF Terms
  <2>4. CASE k = Len(log[n]) + 1
    BY <1>1, <1>3, <2>4
  <2> QED BY <1>10, <2>3, <2>4
<1>12. Ordered(log'[n])
  <2> SUFFICES ASSUME NEW j \in 1 .. Len(log'[n]), NEW k \in 1 .. Len(log'[n]), j <= k
               PROVE  log'[n][j].term <= log'[n][k].term
    BY DEF Ordered
  <2>1. CASE k = Len(log[n]) + 1
    BY <1>3, <1>11, <2>1
  <2>2. CASE k \in 1 .. Len(log[n])
    <3>1. j \in 1 .. Len(log[n])
      BY <1>3, <2>2
    <3>2. log[n][j].term <= log[n][k].term
      BY <2>2, <3>1 DEF Inv, Logs, Ordered
    <3> QED BY <1>3, <2>2, <3>1, <3>2
  <2> QED BY <1>10, <2>1, <2>2
<1>13. OfLeaders(ll2, log'[n])
  <2> SUFFICES ASSUME NEW k \in 1 .. Len(log'[n]) PROVE Agree(log'[n], ll2[log'[n][k].term], k)
    BY DEF OfLeaders
  <2>1. CASE k = Len(log[n]) + 1
    <3>1. log'[n][k].term = t
      BY <1>3, <2>1
    <3> QED BY <1>3, <1>7, <2>1, <3>1 DEF Agree
  <2>2. CASE k \in 1 .. Len(log[n])
    <3>1. OfLeaders(ll2, log[n])
      BY <1>1, <1>9 DEF Inv, Logs
    <3>2. log'[n][k] = log[n][k]
      BY <1>3, <2>2
    <3>3. PICK G : G = ll2[log[n][k].term]
      OBVIOUS
    <3>4. Agree(log[n], G, k)
      BY <2>2, <3>1, <3>3 DEF OfLeaders
    <3>5. Agree(log'[n], G, k)
      BY <1>3, <2>2, <3>4 DEF Agree
    <3> QED BY <3>2, <3>3, <3>5
  <2> QED BY <1>10, <2>1, <2>2
<1>14. ll2[t] # <<>> /\ Has(ll2[t], Len(ll2[t]), t)
  <2>1. Len(log'[n]) # 0 /\ Len(log'[n]) \in 1 .. Len(log'[n])
    BY <1>3
  <2>2. log'[n] # <<>>
    BY <2>1
  <2> QED BY <1>3, <1>7, <2>1, <2>2 DEF Has
<1>15. LeaderLogs(ll2)'
  <2> SUFFICES ASSUME NEW u \in Terms
               PROVE  /\ ll2[u] = <<>> <=> elected'[u] = {}
                      /\ ll2[u] # <<>> => Has(ll2[u], Len(ll2[u]), u)
                      /\ Ordered(ll2[u]) /\ OfLeaders(ll2, ll2[u])
    BY <1>7 DEF LeaderLogs
  <2>1. CASE u = t
    BY <1>7, <1>12, <1>13, <1>14, <2>1
  <2>2. CASE u # t
    <3>1. ll2[u] = ll[u] /\ elected'[u] = elected[u] /\ ll[u] \in Seq(Entry)
      BY <1>1, <1>7, <2>2
    <3>2. /\ ll[u] = <<>> <=> elected[u] = {}
          /\ ll[u] # <<>> => Has(ll[u], Len(ll[u]), u)
          /\ Ordered(ll[u]) /\ OfLeaders(ll, ll[u])
      BY DEF Inv, LeaderLogs
    <3>3. OfLeaders(ll2, ll[u])
      BY <1>9, <3>1, <3>2
    <3> QED BY <3>1, <3>2, <3>3
  <2> QED BY <2>1, <2>2
<1>16. Logs(ll2)'
  <2> SUFFICES ASSUME NEW c \in Nodes
               PROVE  /\ Ordered(log'[c]) /\ OfLeaders(ll2, log'[c])
                      /\ \A k \in 1 .. Len(log'[c]) : log'[c][k].term <= term'[c]
    BY DEF Logs
  <2>1. CASE c = n
    BY <1>11, <1>12, <1>13, <2>1
  <2>2. CASE c # n
    <3>1. log'[c] = log[c] /\ log[c] \in Seq(Entry)
      BY <1>1, <1>2, <2>2
    <3>2. Ordered(log[c]) /\ OfLeaders(ll, log[c]) /\ \A k \in 1 .. Len(log[c]) : log[c][k].term <= term[c]
      BY DEF Inv, Logs
    <3> QED BY <1>9, <3>1, <3>2
  <2> QED BY <2>1, <2>2
<1>17. LogStep(ll)
  BY <1>6 DEF LogStep
<1> QED BY <1>2, <1>3, <1>4, <1>6, <1>7, <1>8, <1>14, <1>15, <1>16, <1>17 DEF LogGrows

\* become_leader, at the end of an election that is won.
LEMMA BecomeLeader ==
  ASSUME NEW ll, Inv(ll), NEW n \in Nodes, Ended(n, "vote"), Votes(n) >= quorum_size, become_leader(n),
         UNCHANGED <<term, vote, commit, applied, stale, committed, restarts>>
  PROVE  \E ll2 : Inv(ll2)'
<1>1. PICK t \in Terms : term[n] = t /\ InVote(n) /\ role[n] = "candidate"
  BY DEF Ended, Inv, Rounds, InVote
<1>2. PICK e \in Entry : e = [term |-> t, command |-> Noop]
  BY DEF Entry, Terms
<1>3. /\ next' = [next EXCEPT ![n] = [p \in Nodes |-> last_log_index(n) + 1]]
      /\ match' = [match EXCEPT ![n] = [p \in Nodes |-> 0]]
      /\ role' = [role EXCEPT ![n] = "leader"]
      /\ elected' = [elected EXCEPT ![t] = @ \cup {n}]
      /\ call' = [call EXCEPT ![n] = Round(n, "append", "elected")]
  BY <1>1 DEF become_leader
<1>4. Writes(n, e) /\ term' = term
  BY <1>1, <1>2 DEF become_leader, Writes
<1>5. /\ role \in [Nodes -> {"follower", "candidate", "leader"}] /\ call \in [Nodes -> Calls]
      /\ next \in [Nodes -> [Nodes -> Nat \ {0}]] /\ match \in [Nodes -> [Nodes -> Nat]]
      /\ elected \in [Terms -> SUBSET Nodes] /\ log[n] \in Seq(Entry)
  BY DEF Inv, Types
<1>6. Voters(n) \in Quorums
  BY VotersAreNodes DEF Votes, Quorums, Inv
<1>7. /\ Round(n, "append", "elected") \in Calls /\ Round(n, "append", "elected").kind = "append"
      /\ Round(n, "append", "elected").replies = <<>>
      /\ \A i \in 1 .. Len(Round(n, "append", "elected").todo) : Round(n, "append", "elected").todo[i] # n
  BY RoundIs
<1>8. /\ call'[n] = Round(n, "append", "elected") /\ role'[n] = "leader"
      /\ \A c \in Nodes \ {n} : /\ call'[c] = call[c] /\ role'[c] = role[c]
                                /\ next'[c] = next[c] /\ match'[c] = match[c]
  BY <1>3, <1>5
<1>9. /\ elected'[t] = elected[t] \cup {n} /\ elected' \in [Terms -> SUBSET Nodes]
      /\ \A u \in Terms \ {t} : elected'[u] = elected[u]
  BY <1>3, <1>5
<1>10. ~InVote(n)' /\ Leads(n)' /\ ~Leads(n) /\ Wins(n, t)
  BY <1>1, <1>6, <1>7, <1>8 DEF InVote, Leads, Wins
<1>11. elected[t] = {} /\ ll[t] = <<>>
  BY <1>10, WinsFirst DEF Inv, LeaderLogs
<1>12. PICK ll2 : Leaves(ll, ll2, n, t)
  BY DEF Leaves
<1>13. /\ log' \in [Nodes -> Seq(Entry)] /\ LeaderLogs(ll2)' /\ Logs(ll2)' /\ LogStep(ll)
       /\ \A c \in Nodes : Extends(log'[c], log[c])
       /\ \A c \in Nodes \ {n} : log'[c] = log[c]
       /\ ll2[t] = log'[n] /\ \A u \in Terms \ {t} : ll2[u] = ll[u]
       /\ Len(log'[n]) = Len(log[n]) + 1
       /\ \A u \in Terms : Extends(ll2[u], ll[u])
  <2>1. e.term = t /\ elected'[t] # {} /\ \A u \in Terms \ {t} : elected'[u] = elected[u]
    BY <1>2, <1>9
  <2>2. ll[t] = <<>> \/ ll[t] = log[n]
    BY <1>11
  <2>3. LogGrows(ll, ll2, n, t)
    BY <1>1, <1>4, <1>12, <2>1, <2>2, LeaderAppends
  <2> QED BY <2>3 DEF LogGrows
<1>14. Len(log[n]) \in Nat /\ \A p \in Nodes : next'[n][p] = Len(log[n]) + 1 /\ match'[n][p] = 0
  BY <1>3, <1>5 DEF last_log_index
<1>15. Types'
  <2>1. next' \in [Nodes -> [Nodes -> Nat \ {0}]] /\ match' \in [Nodes -> [Nodes -> Nat]]
    BY <1>3, <1>5, <1>14 DEF last_log_index
  <2>2. role' \in [Nodes -> {"follower", "candidate", "leader"}] /\ call' \in [Nodes -> Calls]
    BY <1>3, <1>5, <1>7
  <2> QED BY <1>9, <1>13, <2>1, <2>2 DEF Inv, Types
<1>16. Rounds'
  BY <1>7, <1>8, <1>10 DEF Inv, Rounds, InVote, Leads
<1>17. \A c \in Nodes \ {n} : RoundSame(c)
  BY <1>8 DEF RoundSame
<1>18. VoteStep
  BY DEF VoteStep
<1>19. RoundStep
  BY <1>10, <1>13, <1>17, SameRound DEF RoundStep
<1>20. ElectStep(ll, ll2)
  BY <1>9, <1>10, <1>13 DEF ElectStep
<1>21. LeadStep
  BY <1>8, <1>10, <1>13 DEF LeadStep, Leads
<1>22. AckStep
  <2> SUFFICES ASSUME NEW c \in Nodes, NEW q \in Nodes, NEW i \in 1 .. Len(log'[c]), Leads(c)',
                      Acked(c, q, i)', q # c
               PROVE  Leads(c) /\ i <= Len(log[c]) /\ Acked(c, q, i)
    BY DEF AckStep
  <2>1. c # n
    <3>1. Len(call'[n].replies) = 0
      BY <1>7, <1>8
    <3> QED BY <1>14, <3>1 DEF Acked
  <2>2. log'[c] = log[c] /\ match'[c] = match[c] /\ RoundSame(c) /\ Leads(c) /\ log[c] \in Seq(Entry)
    BY <1>8, <1>13, <1>17, <2>1 DEF Leads, Inv, Types
  <2>3. i \in Nat /\ i <= Len(log[c])
    BY <2>2
  <2> QED BY <2>2, <2>3, SameRound
<1>23. Step(ll, ll2)
  BY <1>13, <1>18, <1>19, <1>20, <1>21, <1>22 DEF Step
<1>24. Leaders(ll2)'
  <2> SUFFICES ASSUME NEW c \in Nodes, Leads(c)'
               PROVE  /\ term'[c] \in Terms /\ c \in elected'[term'[c]] /\ log'[c] = ll2[term'[c]]
                      /\ Informed(c)'
    BY DEF Leaders, Informed
  <2>1. CASE c = n
    <3>1. Len(call'[n].replies) = 0 /\ Len(log'[n]) \in Nat
      BY <1>7, <1>8, <1>13, <1>14
    <3>2. Informed(n)'
      BY <1>13, <1>14, <3>1 DEF Informed
    <3> QED BY <1>1, <1>9, <1>13, <2>1, <3>2
  <2>2. CASE c # n
    <3>1. Leads(c) /\ RoundSame(c) /\ log'[c] = log[c] /\ next'[c] = next[c] /\ match'[c] = match[c]
      BY <1>8, <1>13, <1>17, <2>2 DEF Leads
    <3>2. term[c] \in Terms /\ c \in elected[term[c]] /\ log[c] = ll[term[c]] /\ Informed(c)
      BY <3>1 DEF Inv, Leaders, Informed
    <3>3. term[c] # t
      BY <1>11, <3>2
    <3>4. Informed(c)'
      BY <3>1, <3>2 DEF Informed, RoundSame
    <3> QED BY <1>9, <1>13, <3>1, <3>2, <3>3, <3>4
  <2> QED BY <2>1, <2>2
<1>25. StaleStep /\ ApplyStep /\ (restarts = 0 => CommitStep(ll2))
  BY <1>13, <1>15, CommitSame DEF StaleStep, ApplyStep, CommitStep
<1>26. Inv(ll2)'
  BY <1>13, <1>15, <1>16, <1>23, <1>24, <1>25, Combine
<1> QED BY <1>26

\* The action handle_propose keeps the invariant.
LEMMA HandlePropose ==
  ASSUME NEW ll, Inv(ll), NEW n \in Nodes, NEW c \in Commands, handle_propose(n, c)
  PROVE  \E ll2 : Inv(ll2)'
<1>1. PICK t \in Terms : term[n] = t /\ Leads(n) /\ n \in elected[t] /\ log[n] = ll[t] /\ Informed(n)
  BY DEF handle_propose, Inv, Leaders, Leads, Informed
<1>2. PICK e \in Entry : e = [term |-> t, command |-> c]
  BY DEF Entry, Terms
<1>3. /\ call[n] = Idle /\ call' = [call EXCEPT ![n] = Round(n, "append", "propose")]
      /\ UNCHANGED <<term, vote, role, commit, next, match, applied, stale, committed, elected, restarts>>
  BY DEF handle_propose, leading
<1>4. Writes(n, e) /\ term' = term /\ elected' = elected
  BY <1>1, <1>2 DEF handle_propose, Writes
<1>5. call \in [Nodes -> Calls] /\ log[n] \in Seq(Entry)
  BY DEF Inv, Types
<1>6. /\ Round(n, "append", "propose") \in Calls /\ Round(n, "append", "propose").kind = "append"
      /\ Round(n, "append", "propose").replies = <<>>
      /\ \A i \in 1 .. Len(Round(n, "append", "propose").todo) : Round(n, "append", "propose").todo[i] # n
  BY RoundIs
<1>7. /\ call'[n] = Round(n, "append", "propose") /\ \A d \in Nodes \ {n} : call'[d] = call[d]
      /\ call' \in [Nodes -> Calls]
  BY <1>3, <1>5, <1>6
<1>8. ll[t] # <<>> /\ elected'[t] # {} /\ \A u \in Terms \ {t} : elected'[u] = elected[u]
  BY <1>1, <1>3 DEF Inv, LeaderLogs
<1>9. PICK ll2 : Leaves(ll, ll2, n, t)
  BY DEF Leaves
<1>10. /\ log' \in [Nodes -> Seq(Entry)] /\ LeaderLogs(ll2)' /\ Logs(ll2)' /\ LogStep(ll)
       /\ \A d \in Nodes : Extends(log'[d], log[d])
       /\ \A d \in Nodes \ {n} : log'[d] = log[d]
       /\ ll2[t] = log'[n] /\ \A u \in Terms \ {t} : ll2[u] = ll[u]
       /\ Len(log'[n]) = Len(log[n]) + 1 /\ ll2[t] # <<>>
       /\ \A u \in Terms : Extends(ll2[u], ll[u])
  <2>1. e.term = t
    BY <1>2
  <2>2. LogGrows(ll, ll2, n, t)
    BY <1>1, <1>4, <1>8, <1>9, <2>1, LeaderAppends
  <2> QED BY <2>2 DEF LogGrows
<1>11. Types'
  BY <1>3, <1>7, <1>10 DEF Inv, Types
<1>12. Rounds'
  BY <1>1, <1>3, <1>6, <1>7 DEF Inv, Rounds, InVote, Leads
<1>13. \A d \in Nodes \ {n} : RoundSame(d)
  BY <1>7 DEF RoundSame
<1>14. ~InVote(n)' /\ Len(call'[n].replies) = 0
  BY <1>6, <1>7 DEF InVote
<1>15. VoteStep /\ LeadStep
  BY <1>3, <1>10 DEF VoteStep, LeadStep, Leads
<1>16. RoundStep
  BY <1>3, <1>10, <1>13, <1>14, SameRound DEF RoundStep
<1>17. ElectStep(ll, ll2)
  BY <1>3, <1>8, <1>10 DEF ElectStep
<1>18. AckStep
  <2> SUFFICES ASSUME NEW d \in Nodes, NEW q \in Nodes, NEW i \in 1 .. Len(log'[d]), Leads(d)',
                      Acked(d, q, i)', q # d
               PROVE  Leads(d) /\ i <= Len(log[d]) /\ Acked(d, q, i)
    BY DEF AckStep
  <2>1. Leads(d) /\ match'[d] = match[d] /\ log[d] \in Seq(Entry) /\ match[d][q] \in Nat
    BY <1>3 DEF Leads, Inv, Types
  <2>2. i \in Nat /\ Len(log[d]) \in Nat
    BY <2>1
  <2>3. CASE d = n
    <3>1. match[d][q] >= i
      BY <1>14, <2>1, <2>3 DEF Acked
    <3>2. match[d][q] <= Len(log[d])
      BY <1>1, <2>3 DEF Informed
    <3> QED BY <2>1, <2>2, <3>1, <3>2 DEF Acked
  <2>4. CASE d # n
    <3>1. log'[d] = log[d] /\ RoundSame(d)
      BY <1>10, <1>13, <2>4
    <3>2. Acked(d, q, i)
      BY <2>1, <2>2, <3>1, SameRound
    <3>3. i <= Len(log[d])
      BY <2>2, <3>1
    <3> QED BY <2>1, <3>2, <3>3
  <2> QED BY <2>3, <2>4
<1>19. Step(ll, ll2)
  BY <1>10, <1>15, <1>16, <1>17, <1>18 DEF Step
<1>20. Leaders(ll2)'
  <2> SUFFICES ASSUME NEW d \in Nodes, Leads(d)'
               PROVE  /\ term'[d] \in Terms /\ d \in elected'[term'[d]] /\ log'[d] = ll2[term'[d]]
                      /\ Informed(d)'
    BY DEF Leaders, Informed
  <2>1. CASE d = n
    <3>1. Len(log[n]) \in Nat /\ Len(log'[n]) \in Nat /\ \A p \in Nodes : match[n][p] \in Nat /\ next[n][p] \in Nat
      <4>1. \A p \in Nodes : match[n][p] \in Nat /\ next[n][p] \in Nat
        BY DEF Inv, Types
      <4>2. Len(log[n]) \in Nat /\ Len(log'[n]) = Len(log[n]) + 1
        BY <1>5, <1>10
      <4> QED BY <4>1, <4>2
    <3>2. \A p \in Nodes : match'[n][p] <= Len(log'[n]) /\ next'[n][p] <= Len(log'[n]) + 1
      <4> TAKE p \in Nodes
      <4>1. match[n][p] <= Len(log[n]) /\ next[n][p] <= Len(log[n]) + 1
        BY <1>1 DEF Informed
      <4>2. match'[n][p] = match[n][p] /\ next'[n][p] = next[n][p] /\ Len(log'[n]) = Len(log[n]) + 1
        BY <1>3, <1>10
      <4> QED BY <3>1, <4>1, <4>2
    <3>3. Informed(n)'
      BY <1>14, <3>2 DEF Informed
    <3> QED BY <1>1, <1>3, <1>10, <2>1, <3>3
  <2>2. CASE d # n
    <3>1. Leads(d) /\ RoundSame(d) /\ log'[d] = log[d] /\ next'[d] = next[d] /\ match'[d] = match[d]
      BY <1>3, <1>10, <1>13, <2>2 DEF Leads
    <3>2. term[d] \in Terms /\ d \in elected[term[d]] /\ log[d] = ll[term[d]] /\ Informed(d)
      BY <3>1 DEF Inv, Leaders, Informed
    <3>3. term[d] # t
      BY <1>1, <2>2, <3>2 DEF Inv, Elected
    <3>4. Informed(d)'
      BY <3>1, <3>2 DEF Informed, RoundSame
    <3> QED BY <1>3, <1>10, <3>1, <3>2, <3>3, <3>4
  <2> QED BY <2>1, <2>2
<1>21. StaleStep /\ ApplyStep /\ (restarts = 0 => CommitStep(ll2))
  BY <1>3, <1>10, <1>11, CommitSame DEF StaleStep, ApplyStep, CommitStep
<1>22. Inv(ll2)'
  BY <1>3, <1>10, <1>11, <1>12, <1>19, <1>20, <1>21, Combine
<1> QED BY <1>22

\* What the replies of a round say to the leader that started it.
LEMMA RoundSays ==
  ASSUME NEW ll, Inv(ll), NEW n \in Nodes, finish_append(n), Outdated(n) = {}
  PROVE  \E matched \in [Nodes -> Nat], nx \in [Nodes -> Nat \ {0}] :
           /\ match' = [match EXCEPT ![n] = matched] /\ next' = [next EXCEPT ![n] = nx]
           /\ try_advance_commit(n, matched)
           /\ \A p \in Nodes : matched[p] <= Len(log[n]) /\ nx[p] <= Len(log[n]) + 1
           /\ \A q \in Nodes : \A i \in 1 .. Len(log[n]) : matched[q] >= i => Acked(n, q, i)
<1> DEFINE replies == ToSet(call[n].replies)
           of(p) == CHOOSE r \in replies : r.from = p
           heard == {r.from : r \in replies}
           matched == [p \in Nodes |-> IF p \in heard /\ of(p).ok THEN Len(log[n]) ELSE match[n][p]]
           nx == [p \in Nodes |->
                 CASE p \notin heard -> next[n][p]
                   [] p \in heard /\ of(p).ok -> Len(log[n]) + 1
                   [] p \in heard /\ ~of(p).ok /\ of(p).conflict_index > 0 -> of(p).conflict_index
                   [] OTHER -> Max({next[n][p] - 1, 1})]
<1>1. /\ match' = [match EXCEPT ![n] = matched] /\ next' = [next EXCEPT ![n] = nx]
      /\ try_advance_commit(n, matched)
  BY DEF finish_append, Follows
<1>2. /\ call[n].kind = "append" /\ call[n].replies \in Seq(Replies) /\ Leads(n)
      /\ log[n] \in Seq(Entry) /\ Len(log[n]) \in Nat
      /\ \A p \in Nodes : next[n][p] \in Nat \ {0} /\ match[n][p] \in Nat
  <2>1. call[n] \in Calls /\ log[n] \in Seq(Entry) /\ call[n].kind = "append"
    BY DEF Inv, Types, finish_append, Ended
  <2> QED BY <2>1 DEF Inv, Types, Calls, Rounds
<1>3. Informed(n)
  BY <1>2 DEF Inv, Leaders, Informed
<1>4. ASSUME NEW p \in Nodes, p \in heard
      PROVE  \E k \in 1 .. Len(call[n].replies) : of(p) = call[n].replies[k] /\ call[n].replies[k].from = p
  <2>1. PICK r \in replies : r.from = p
    BY <1>4
  <2>2. of(p) \in replies /\ of(p).from = p
    BY <2>1
  <2>3. replies = {call[n].replies[k] : k \in 1 .. Len(call[n].replies)}
    BY <1>2 DEF ToSet
  <2> QED BY <2>2, <2>3
<1>5. ASSUME NEW p \in Nodes, p \in heard
      PROVE  /\ of(p).conflict_index \in Nat /\ of(p).conflict_index <= Len(log[n]) + 1
             /\ of(p).ok => \A i \in Nat : Acked(n, p, i)
  <2>1. PICK k \in 1 .. Len(call[n].replies) : of(p) = call[n].replies[k] /\ call[n].replies[k].from = p
    BY <1>4, <1>5
  <2>2. PICK r \in Replies : r = call[n].replies[k]
    BY <1>2
  <2>3. r.conflict_index \in Nat /\ r.conflict_index <= Len(log[n]) + 1 /\ r.from = p
    BY <1>3, <2>1, <2>2 DEF Informed, Replies
  <2>4. r.ok => \A i \in Nat : Acked(n, p, i)
    BY <1>2, <2>1, <2>2, <2>3 DEF Acked
  <2> QED BY <2>1, <2>2, <2>3, <2>4, Zenon
<1> HIDE DEF replies, of, heard
<1>6. ASSUME NEW p \in Nodes
      PROVE  /\ matched[p] \in Nat /\ matched[p] <= Len(log[n])
             /\ \A i \in 1 .. Len(log[n]) : matched[p] >= i => Acked(n, p, i)
  <2>1. CASE p \in heard /\ of(p).ok
    <3>1. matched[p] = Len(log[n])
      BY <2>1
    <3> QED BY <1>2, <1>5, <2>1, <3>1
  <2>2. CASE ~(p \in heard /\ of(p).ok)
    <3>1. matched[p] = match[n][p]
      BY <2>2
    <3> QED BY <1>2, <1>3, <3>1 DEF Informed, Acked
  <2> QED BY <2>1, <2>2
<1>7. ASSUME NEW p \in Nodes
      PROVE  nx[p] \in Nat \ {0} /\ nx[p] <= Len(log[n]) + 1
  <2>1. next[n][p] \in Nat \ {0} /\ next[n][p] <= Len(log[n]) + 1
    BY <1>2, <1>3 DEF Informed
  <2>2. CASE p \notin heard
    BY <2>1, <2>2
  <2>3. CASE p \in heard /\ of(p).ok
    <3>1. nx[p] = Len(log[n]) + 1
      BY <2>3
    <3> QED BY <1>2, <3>1
  <2>4. CASE p \in heard /\ ~of(p).ok /\ of(p).conflict_index > 0
    <3>1. nx[p] = of(p).conflict_index
      BY <2>4
    <3> QED BY <1>2, <1>5, <2>4, <3>1
  <2>5. CASE p \in heard /\ ~of(p).ok /\ ~(of(p).conflict_index > 0)
    <3>1. nx[p] = Max({next[n][p] - 1, 1})
      BY <2>5
    <3>2. PICK a \in Nat : a = next[n][p] - 1 /\ a <= Len(log[n])
      BY <1>2, <2>1
    <3>3. Max({a, 1}) = IF a >= 1 THEN a ELSE 1
      BY MaxOf
    <3> QED BY <1>2, <3>1, <3>2, <3>3
  <2> QED BY <2>2, <2>3, <2>4, <2>5
<1> HIDE DEF matched, nx
<1>8. matched \in [Nodes -> Nat] /\ nx \in [Nodes -> Nat \ {0}]
  BY <1>6, <1>7 DEF matched, nx
<1> QED BY <1>1, <1>6, <1>7, <1>8

\* The end of a round of appends in which no later term was heard of.
LEMMA FinishRound ==
  ASSUME NEW ll, Inv(ll), NEW n \in Nodes, finish_append(n), Outdated(n) = {}
  PROVE  Inv(ll)' /\ Extends(committed', committed)
<1>1. PICK matched \in [Nodes -> Nat], nx \in [Nodes -> Nat \ {0}] :
           /\ match' = [match EXCEPT ![n] = matched] /\ next' = [next EXCEPT ![n] = nx]
           /\ try_advance_commit(n, matched)
           /\ \A p \in Nodes : matched[p] <= Len(log[n]) /\ nx[p] <= Len(log[n]) + 1
           /\ \A q \in Nodes : \A i \in 1 .. Len(log[n]) : matched[q] >= i => Acked(n, q, i)
  BY RoundSays
<1>2. /\ call' = [call EXCEPT ![n] = Idle]
      /\ UNCHANGED <<term, vote, role, log, stale, elected, restarts>>
  BY DEF finish_append, Follows, bounds
<1>3. (call[n].via = "tick" /\ applied' = applied) \/ apply_committed(n)
  BY DEF finish_append, serving
<1>4. /\ call \in [Nodes -> Calls] /\ match \in [Nodes -> [Nodes -> Nat]] /\ Leads(n)
      /\ next \in [Nodes -> [Nodes -> Nat \ {0}]] /\ applied \in [Nodes -> Seq(Entry)]
      /\ log \in [Nodes -> Seq(Entry)] /\ term[n] \in Terms /\ log[n] = ll[term[n]] /\ term[n] \in Nat
  BY DEF Inv, Types, finish_append, Ended, Rounds, Leaders, Terms
<1>5. /\ commit' \in [Nodes -> Nat] /\ commit'[n] >= commit[n]
      /\ \A m \in Nodes : m # n => commit'[m] = commit[m]
      /\ committed' \in Seq(Entry) /\ Extends(committed', committed)
      /\ committed' # committed => /\ Chosen(ll, Len(committed'), term[n])
                                   /\ committed'[Len(committed')].term = term[n]
                                   /\ Extends(log[n], committed')
      /\ commit'[n] # commit[n] => /\ Chosen(ll, commit'[n], term[n])
                                   /\ Agree(log[n], committed', commit'[n])
  BY <1>1, <1>4, AdvanceCommits DEF Inv
<1>6. /\ call' \in [Nodes -> Calls] /\ call'[n] = Idle /\ \A c \in Nodes \ {n} : call'[c] = call[c]
      /\ match'[n] = matched /\ next'[n] = nx
      /\ \A c \in Nodes \ {n} : match'[c] = match[c] /\ next'[c] = next[c]
      /\ match' \in [Nodes -> [Nodes -> Nat]] /\ next' \in [Nodes -> [Nodes -> Nat \ {0}]]
  BY <1>1, <1>2, <1>4, IdleIs
<1>7. applied' \in [Nodes -> Seq(Entry)] /\ ApplyStep
  <2>1. CASE applied' = applied
    BY <1>4, <2>1 DEF ApplyStep
  <2>2. CASE apply_committed(n)
    <3>1. log' \in [Nodes -> Seq(Entry)] /\ commit' \in [Nodes -> Nat]
      BY <1>2, <1>4, <1>5
    <3> QED BY <2>2, <3>1, ApplyIs DEF Inv
  <2> QED BY <1>3, <2>1, <2>2
<1>8. Types'
  BY <1>2, <1>5, <1>6, <1>7 DEF Inv, Types
<1>9. Idle.kind = "none" /\ Len(Idle.replies) = 0 /\ \A i \in 1 .. Len(Idle.todo) : Idle.todo[i] # n
  BY IdleIs
<1>10. Rounds'
  BY <1>2, <1>6, <1>9 DEF Inv, Rounds, InVote, Leads
<1>11. \A c \in Nodes \ {n} : RoundSame(c)
  BY <1>6 DEF RoundSame
<1>12. VoteStep /\ StaleStep
  BY <1>2 DEF VoteStep, StaleStep
<1>13. RoundStep
  <2>1. ~InVote(n)'
    BY <1>6, <1>9 DEF InVote
  <2>2. \A c \in Nodes : term'[c] = term[c] /\ log'[c] = log[c]
    BY <1>2
  <2> QED BY <1>11, <2>1, <2>2, SameRound DEF RoundStep
<1>14. AckStep
  <2> SUFFICES ASSUME NEW c \in Nodes, NEW q \in Nodes, NEW i \in 1 .. Len(log'[c]), Leads(c)',
                      Acked(c, q, i)', q # c
               PROVE  Leads(c) /\ i <= Len(log[c]) /\ Acked(c, q, i)
    BY DEF AckStep
  <2>1. Leads(c) /\ i \in 1 .. Len(log[c]) /\ log[c] \in Seq(Entry)
    BY <1>2, <1>4 DEF Leads
  <2>2. i \in Nat /\ i <= Len(log[c])
    BY <2>1
  <2>3. CASE c = n
    <3>1. matched[q] >= i
      BY <1>6, <1>9, <2>3 DEF Acked
    <3> QED BY <1>1, <2>1, <2>2, <2>3, <3>1
  <2>4. CASE c # n
    BY <1>6, <1>11, <2>1, <2>2, <2>4, SameRound
  <2> QED BY <2>3, <2>4
<1>15. ASSUME NEW c \in Nodes, Leads(c)' PROVE Leads(c) /\ term'[c] = term[c] /\ Informed(c)'
  <2>1. Leads(c) /\ term'[c] = term[c] /\ log'[c] = log[c] /\ Informed(c)
    BY <1>2, <1>15 DEF Leads, Inv, Leaders, Informed
  <2>2. CASE c = n
    BY <1>1, <1>6, <1>9, <2>1, <2>2 DEF Informed
  <2>3. CASE c # n
    <3>1. call'[c] = call[c] /\ match'[c] = match[c] /\ next'[c] = next[c]
      BY <1>6, <2>3
    <3> QED BY <2>1, <3>1 DEF Informed
  <2> QED BY <2>1, <2>2, <2>3
<1>16. Step(ll, ll) /\ LeaderLogs(ll)' /\ Logs(ll)' /\ Leaders(ll)'
  <2>1. log' = log /\ elected' = elected
    BY <1>2
  <2> QED BY <1>8, <1>12, <1>13, <1>14, <1>15, <2>1, QuietStep
<1>17. \A j, t : Chosen(ll, j, t) => Chosen(ll, j, t)'
  BY <1>8, <1>16, ChosenStays DEF Inv
<1>18. committed' = committed \/ (Commits(ll)' /\ Extends(committed', committed))
  <2> SUFFICES ASSUME committed' # committed
               PROVE  Commits(ll)'
    BY <1>5
  <2>1. PICK t \in Terms : t = term[n]
    BY <1>4
  <2>2. PICK j : j = Len(committed')
    OBVIOUS
  <2>3. Chosen(ll, j, t)
    BY <1>5, <2>1, <2>2
  <2>4. Chosen(ll, j, t)'
    BY <1>17, <2>3
  <2>5. Extends(ll[t], committed') /\ committed'[j].term = t
    BY <1>4, <1>5, <2>1, <2>2
  <2> QED BY <2>2, <2>4, <2>5 DEF Commits
<1>19. restarts' = 0 => restarts = 0 /\ CommitStep(ll) /\ ApplyStep
  <2> SUFFICES ASSUME restarts = 0 PROVE CommitStep(ll)
    BY <1>2, <1>7
  <2>1. ASSUME NEW c \in Nodes, commit'[c] = commit[c] PROVE Agree(log'[c], log[c], commit[c])
    <3>1. Extends(log'[c], log[c])
      BY <1>2, <1>4, ExtendsSelf
    <3> QED BY <1>8, <2>1, <3>1, CommitSame
  <2>2. ASSUME commit'[n] # commit[n]
        PROVE  Known(ll, commit[n], term[n])' /\ Agree(log'[n], committed', commit'[n])
    <3>1. PICK k \in Nat : k = commit'[n]
      BY <1>5
    <3>2. Chosen(ll, k, term[n])' /\ Agree(log[n], committed', k)
      BY <1>2, <1>5, <1>17, <2>2, <3>1
    <3>3. k \in k .. Len(committed') /\ term[n] \in 1 .. term[n]
      BY <1>4, <1>5, <3>1, <3>2 DEF Agree, Terms
    <3>4. Agree(committed', ll[term[n]], k)
      BY <1>4, <3>2 DEF Agree
    <3> QED BY <1>2, <3>1, <3>2, <3>3, <3>4 DEF Known
  <2> QED BY <1>5, <2>1, <2>2 DEF CommitStep
<1>20. Inv(ll)'
  BY <1>8, <1>10, <1>12, <1>16, <1>18, <1>19, Combine
<1> QED BY <1>5, <1>20

\* The action finish_election keeps the invariant.
LEMMA FinishElection ==
  ASSUME NEW ll, Inv(ll), NEW n \in Nodes, finish_election(n)
  PROVE  \E ll2 : Inv(ll2)'
<1>1. Ended(n, "vote") /\ UNCHANGED <<commit, applied, stale, committed, restarts>>
  BY DEF finish_election, serving, bounds
<1>2. CASE Follows(n) /\ UNCHANGED <<log, next, match, elected>>
  <2>1. applied' \in [Nodes -> Seq(Entry)] /\ ApplyStep
    BY <1>1 DEF Inv, Types, ApplyStep
  <2>2. Inv(ll)'
    BY <1>1, <1>2, <2>1, FollowsStep
  <2> QED BY <2>2
<1>3. CASE Votes(n) >= quorum_size /\ become_leader(n) /\ UNCHANGED <<term, vote>>
  <2>1. UNCHANGED <<term, vote, commit, applied, stale, committed, restarts>>
    BY <1>1, <1>3
  <2> QED BY <1>1, <1>3, <2>1, BecomeLeader
<1>4. CASE /\ call' = [call EXCEPT ![n] = Idle]
           /\ UNCHANGED <<term, vote, log, role, next, match, elected>>
  <2>1. UNCHANGED <<term, vote, log, role, commit, next, match, applied, stale, committed, elected, restarts>>
    BY <1>1, <1>4
  <2>2. Inv(ll)'
    BY <1>1, <1>4, <2>1, LostElection
  <2> QED BY <2>2
<1> QED BY <1>2, <1>3, <1>4 DEF finish_election, leading, persistent

\* The action finish_append keeps the invariant.
LEMMA FinishAppend ==
  ASSUME NEW ll, Inv(ll), NEW n \in Nodes, finish_append(n)
  PROVE  Inv(ll)' /\ Extends(committed', committed)
<1>1. CASE Outdated(n) = {}
  BY <1>1, FinishRound
<1>2. CASE Outdated(n) # {}
  <2>1. /\ Follows(n) /\ UNCHANGED <<next, match, commit, committed, log, stale, elected, restarts>>
        /\ applied' = applied \/ apply_committed(n)
    BY <1>2 DEF finish_append, leading, serving, bounds
  <2>2. log' \in [Nodes -> Seq(Entry)] /\ commit' \in [Nodes -> Nat] /\ committed \in Seq(Entry)
    BY <2>1 DEF Inv, Types
  <2>3. applied' \in [Nodes -> Seq(Entry)] /\ ApplyStep
    <3>1. CASE applied' = applied
      BY <3>1 DEF Inv, Types, ApplyStep
    <3>2. CASE apply_committed(n)
      BY <2>2, <3>2, ApplyIs DEF Inv
    <3> QED BY <2>1, <3>1, <3>2
  <2>4. Inv(ll)'
    BY <2>1, <2>3, FollowsStep
  <2> QED BY <2>1, <2>2, <2>4, ExtendsSelf
<1> QED BY <1>1, <1>2
-----------------------------------------------------------------------------
(***************************************************************************)
(* handle_append_entries, with its local values as operators.              *)
(***************************************************************************)
Older(n, m) == m.term < term[n]
Missing(n, m) == m.prev_log_index > 0 /\ log_term_at(n, m.prev_log_index) = 0
Conflict(n, m) ==
  m.prev_log_index > 0 /\ ~Missing(n, m) /\ log_term_at(n, m.prev_log_index) # m.prev_log_term
Accepts(n, m) == ~Older(n, m) /\ ~Missing(n, m) /\ ~Conflict(n, m)
NewLog(n, m) ==
  CASE Accepts(n, m) -> Merged(n, m)
    [] ~Older(n, m) /\ Conflict(n, m) -> SubSeq(log[n], 1, m.prev_log_index - 1)
    [] OTHER -> log[n]
ConflictIndex(n, m) ==
  CASE ~Older(n, m) /\ Missing(n, m)  -> last_log_index(n) + 1
    [] ~Older(n, m) /\ Conflict(n, m) ->
         Min({i \in DOMAIN log[n] : log[n][i].term = log_term_at(n, m.prev_log_index)})
    [] OTHER                          -> 0

\* The log of a node that follows a leader keeps what the two have in common.
LEMMA NewLogIs ==
  ASSUME NEW ll, Inv(ll), NEW n \in Nodes, NEW m, m.term \in Terms, Sent(ll, m)
  PROVE  /\ NewLog(n, m) \in Seq(Entry)
         /\ Older(n, m) => NewLog(n, m) = log[n]
         /\ ~Older(n, m) => Keeps(log[n], ll[m.term], NewLog(n, m))
         /\ Ordered(NewLog(n, m)) /\ OfLeaders(ll, NewLog(n, m))
         /\ Accepts(n, m) => Agree(NewLog(n, m), ll[m.term], m.prev_log_index + Len(m.entries))
         /\ \A k \in 1 .. Len(NewLog(n, m)) :
              NewLog(n, m)[k].term <= IF Older(n, m) THEN term[n] ELSE m.term
<1>1. PICK L \in Seq(Entry) : L = log[n] /\ Ordered(L) /\ OfLeaders(ll, L) /\ \A k \in 1 .. Len(L) : L[k].term <= term[n]
  BY DEF Inv, Types, Logs
<1>2. PICK G \in Seq(Entry) : /\ G = ll[m.term] /\ Ordered(G) /\ OfLeaders(ll, G)
                              /\ G # <<>> /\ Has(G, Len(G), m.term)
  BY DEF Inv, LeaderLogs, Sent
<1>3. /\ m.prev_log_index \in Nat /\ Len(m.entries) \in Nat /\ m.term \in Nat /\ term[n] \in Nat
      /\ Len(L) \in Nat /\ Len(G) \in Nat /\ ll \in [Terms -> Seq(Entry)]
      /\ m.prev_log_index + Len(m.entries) <= Len(G)
  <2>1. m.entries \in Seq(Entry) /\ m.prev_log_index \in Nat /\ m.prev_log_index + Len(m.entries) <= Len(G)
    BY <1>2 DEF Sent
  <2>2. term[n] \in Nat /\ m.term \in Nat
    BY Limits DEF Inv, Types, Terms
  <2>3. ll \in [Terms -> Seq(Entry)]
    BY DEF Inv, LeaderLogs
  <2> QED BY <2>1, <2>2, <2>3
<1>4. \A k \in 1 .. Len(L) : L[k].term \in Nat
  BY TermsOf DEF Terms
<1>5. \A k \in 1 .. Len(G) : G[k].term \in Nat /\ G[k].term <= m.term
  BY <1>2, <1>3, TermsOf DEF Terms, Ordered, Has
<1>6. CASE Accepts(n, m)
  <2>1. PICK R : R = Merged(n, m)
    OBVIOUS
  <2>2. R = NewLog(n, m) /\ ~Older(n, m)
    BY <1>6, <2>1 DEF NewLog, Accepts
  <2>3. m.prev_log_index = 0 \/ log_term_at(n, m.prev_log_index) = m.prev_log_term
    BY <1>3, <1>6 DEF Accepts, Missing, Conflict
  <2>4. PICK top \in Nat : top = m.prev_log_index + Len(m.entries)
    BY <1>3
  <2>5. R \in Seq(Entry) /\ Agree(R, G, top) /\ Keeps(L, G, R) /\ (R = L \/ Len(R) = top)
    <3>1. OfLeaders(ll, log[n])
      BY <1>1
    <3>2. /\ Merged(n, m) \in Seq(Entry) /\ Agree(Merged(n, m), ll[m.term], m.prev_log_index + Len(m.entries))
          /\ Keeps(log[n], ll[m.term], Merged(n, m))
          /\ Merged(n, m) = log[n] \/ Len(Merged(n, m)) = m.prev_log_index + Len(m.entries)
      BY <2>3, <3>1, MergedIs DEF Inv
    <3> QED BY <1>1, <1>2, <2>1, <2>4, <3>2, Zenon
  <2>6. Ordered(R) /\ OfLeaders(ll, R) /\ \A k \in 1 .. Len(R) : R[k].term <= m.term
    <3>1. CASE R = L
      BY <1>1, <1>3, <1>4, <2>2, <3>1 DEF Older
    <3>2. CASE Len(R) = top
      <4>1. Extends(G, R)
        BY <2>5, <3>2 DEF Extends, Agree
      <4>2. Ordered(R) /\ OfLeaders(ll, R)
        BY <1>2, <1>3, <2>5, <4>1, PrefixOfLeaders
      <4>3. \A k \in 1 .. Len(R) : k \in 1 .. Len(G) /\ R[k] = G[k]
        BY <1>3, <2>5, <4>1 DEF Extends, Agree
      <4> QED BY <1>5, <4>2, <4>3
    <3> QED BY <2>5, <3>1, <3>2
  <2> QED BY <1>1, <1>2, <2>2, <2>4, <2>5, <2>6
<1>7. CASE ~Older(n, m) /\ Conflict(n, m)
  <2>1. ~Accepts(n, m) /\ m.prev_log_index \in 1 .. Len(L) /\ L[m.prev_log_index].term # m.prev_log_term
    BY <1>1, <1>3, <1>7 DEF Accepts, Conflict, Missing, log_term_at
  <2>2. PICK p \in 1 .. Len(L) : p = m.prev_log_index /\ p <= Len(G) /\ L[p].term # G[p].term
    <3>1. m.prev_log_index # 0 /\ m.prev_log_index <= Len(G)
      BY <1>3, <2>1
    <3>2. m.prev_log_term = G[m.prev_log_index].term
      BY <1>2, <3>1 DEF Sent
    <3> QED BY <2>1, <3>1, <3>2
  <2>3. PICK R : R = SubSeq(L, 1, p - 1)
    OBVIOUS
  <2>4. R = NewLog(n, m)
    BY <1>1, <1>7, <2>1, <2>2, <2>3 DEF NewLog
  <2>5. R \in Seq(Entry) /\ Len(R) = p - 1 /\ \A j \in 1 .. (p - 1) : R[j] = L[j]
    BY <1>3, <2>2, <2>3
  <2>6. Extends(L, R)
    BY <1>3, <2>5 DEF Extends, Agree
  <2>7. Ordered(R) /\ OfLeaders(ll, R)
    BY <1>1, <1>3, <2>5, <2>6, PrefixOfLeaders
  <2>8. Keeps(L, G, R)
    <3> SUFFICES ASSUME NEW i \in 1 .. Len(L), Has(G, i, L[i].term) PROVE Has(R, i, L[i].term)
      BY DEF Keeps
    <3>1. Has(L, i, L[i].term)
      BY DEF Has
    <3>2. Agree(L, G, i)
      BY <1>1, <1>2, <3>1, SameEntry
    <3>3. i < p
      BY <1>3, <2>2, <3>2 DEF Agree
    <3>4. i \in 1 .. (p - 1)
      BY <1>3, <3>3
    <3> QED BY <2>5, <3>4 DEF Has
  <2>9. \A k \in 1 .. Len(R) : R[k].term <= m.term
    <3> TAKE k \in 1 .. Len(R)
    <3>1. k \in 1 .. Len(L) /\ R[k] = L[k]
      BY <1>3, <2>5
    <3> QED BY <1>1, <1>3, <1>4, <1>7, <3>1 DEF Older
  <2> QED BY <1>1, <1>2, <1>7, <2>1, <2>4, <2>5, <2>7, <2>8, <2>9
<1>8. CASE ~Accepts(n, m) /\ ~(~Older(n, m) /\ Conflict(n, m))
  <2>1. NewLog(n, m) = L
    BY <1>1, <1>8 DEF NewLog
  <2>2. Keeps(L, G, L)
    BY DEF Keeps, Has
  <2>3. \A k \in 1 .. Len(L) : L[k].term <= IF Older(n, m) THEN term[n] ELSE m.term
    BY <1>1, <1>3, <1>4 DEF Older
  <2> QED BY <1>1, <1>2, <1>8, <2>1, <2>2, <2>3
<1> QED BY <1>6, <1>7, <1>8

\* What handle_append_entries assigns.
AppendAssigns(ll, n, m) ==
  /\ call[n] = Idle /\ m.kind = "append" /\ m.term \in Terms /\ Sent(ll, m) /\ m.from \in Nodes \ {n}
  /\ term'[n] = IF Older(n, m) THEN term[n] ELSE m.term
  /\ log'[n] = NewLog(n, m) /\ log' \in [Nodes -> Seq(Entry)]
  /\ Older(n, m) => vote'[n] = vote[n] /\ role'[n] = role[n]
  /\ ~Older(n, m) => role'[n] = "follower"
  /\ term[n] = m.term => vote'[n] = vote[n]
  /\ \A c \in Nodes \ {n} : /\ term'[c] = term[c] /\ vote'[c] = vote[c] /\ role'[c] = role[c]
                            /\ log'[c] = log[c] /\ commit'[c] = commit[c]
  /\ term' \in [Nodes -> 0 .. MaxTerm] /\ vote' \in [Nodes -> Nodes \cup {NoVote}]
  /\ role' \in [Nodes -> {"follower", "candidate", "leader"}]
  /\ commit'[n] = IF Accepts(n, m) /\ m.leader_commit > commit[n]
                  THEN Min({m.leader_commit, Len(log'[n])}) ELSE commit[n]
  /\ commit' \in [Nodes -> Nat]
  /\ apply_committed(n)
  /\ UNCHANGED <<next, match, committed, elected, restarts>>
  /\ \E resp \in Replies : /\ Reply(m, resp) /\ resp.from = n /\ resp.ok = Accepts(n, m)
                           /\ resp.conflict_index = ConflictIndex(n, m)

\* handle_append_entries assigns this.
LEMMA AppendIs ==
  ASSUME NEW ll, Inv(ll), NEW n \in Nodes, NEW m \in Inbox(n), handle_append_entries(n, m)
  PROVE  AppendAssigns(ll, n, m)
<1>1. /\ call[n] = Idle /\ m.kind = "append"
      /\ IF m.term > term[n] THEN become_follower(n, m.term)
         ELSE /\ role' = [role EXCEPT ![n] = IF Older(n, m) THEN @ ELSE "follower"]
              /\ UNCHANGED <<term, vote>>
      /\ apply_committed(n)
      /\ UNCHANGED <<next, match, committed, elected, restarts>>
  BY DEF handle_append_entries, Reads, Older, leading, bounds
<1>2. log' = [log EXCEPT ![n] = NewLog(n, m)]
  BY DEF handle_append_entries, NewLog, Accepts, Older, Missing, Conflict, Inv, Types
<1>3. commit' = [commit EXCEPT ![n] =
           IF Accepts(n, m) /\ m.leader_commit > @ THEN Min({m.leader_commit, Len(log'[n])}) ELSE @]
  BY DEF handle_append_entries, Accepts, Older, Missing, Conflict
<1>4. Reply(m, [from |-> n, term |-> term'[n], ok |-> Accepts(n, m), conflict_index |-> ConflictIndex(n, m)])
  BY DEF handle_append_entries, Accepts, Older, Missing, Conflict, ConflictIndex
<1>5. m.term \in Terms /\ Sent(ll, m) /\ m.from \in Nodes \ {n} /\ m.leader_commit \in Nat
  <2>1. Wellformed(ll, m) /\ m.term \in Terms /\ m.from \in Nodes \ {n}
    BY InboxIs
  <2> QED BY <1>1, <2>1 DEF Wellformed, Sent
<1>6. /\ term \in [Nodes -> 0 .. MaxTerm] /\ vote \in [Nodes -> Nodes \cup {NoVote}]
      /\ role \in [Nodes -> {"follower", "candidate", "leader"}] /\ commit \in [Nodes -> Nat]
      /\ log \in [Nodes -> Seq(Entry)] /\ m.term \in 0 .. MaxTerm /\ m.term \in Nat /\ term[n] \in Nat
  <2>1. /\ term \in [Nodes -> 0 .. MaxTerm] /\ vote \in [Nodes -> Nodes \cup {NoVote}]
        /\ role \in [Nodes -> {"follower", "candidate", "leader"}] /\ commit \in [Nodes -> Nat]
        /\ log \in [Nodes -> Seq(Entry)]
    BY DEF Inv, Types
  <2>2. m.term \in 0 .. MaxTerm /\ m.term \in Nat /\ term[n] \in Nat
    BY <1>5, <2>1, Limits DEF Terms
  <2> QED BY <2>1, <2>2
<1>7. /\ term'[n] = IF Older(n, m) THEN term[n] ELSE m.term
      /\ Older(n, m) => vote'[n] = vote[n] /\ role'[n] = role[n]
      /\ ~Older(n, m) => role'[n] = "follower"
      /\ term[n] = m.term => vote'[n] = vote[n]
      /\ \A c \in Nodes \ {n} : term'[c] = term[c] /\ vote'[c] = vote[c] /\ role'[c] = role[c]
      /\ term' \in [Nodes -> 0 .. MaxTerm] /\ vote' \in [Nodes -> Nodes \cup {NoVote}]
      /\ role' \in [Nodes -> {"follower", "candidate", "leader"}]
  <2>1. CASE m.term > term[n]
    <3>1. /\ term' = [term EXCEPT ![n] = m.term] /\ vote' = [vote EXCEPT ![n] = NoVote]
          /\ role' = [role EXCEPT ![n] = "follower"]
      BY <1>1, <2>1 DEF become_follower
    <3>2. ~Older(n, m) /\ term[n] # m.term
      BY <1>6, <2>1 DEF Older
    <3> QED BY <1>6, <3>1, <3>2
  <2>2. CASE ~(m.term > term[n])
    <3>1. /\ role' = [role EXCEPT ![n] = IF Older(n, m) THEN @ ELSE "follower"]
          /\ term' = term /\ vote' = vote
      BY <1>1, <2>2
    <3>2. Older(n, m) \/ term[n] = m.term
      BY <1>6, <2>2 DEF Older
    <3> QED BY <1>6, <3>1, <3>2
  <2> QED BY <2>1, <2>2
<1>8. NewLog(n, m) \in Seq(Entry)
  BY <1>5, NewLogIs
<1>9. log'[n] = NewLog(n, m) /\ log' \in [Nodes -> Seq(Entry)] /\ \A c \in Nodes \ {n} : log'[c] = log[c]
  BY <1>2, <1>6, <1>8
<1>10. Min({m.leader_commit, Len(log'[n])}) \in Nat
  <2>1. Len(log'[n]) \in Nat
    BY <1>8, <1>9
  <2> QED BY <1>5, <2>1, MinOf
<1>11. /\ commit'[n] = IF Accepts(n, m) /\ m.leader_commit > commit[n]
                       THEN Min({m.leader_commit, Len(log'[n])}) ELSE commit[n]
       /\ commit' \in [Nodes -> Nat] /\ \A c \in Nodes \ {n} : commit'[c] = commit[c]
  BY <1>3, <1>6, <1>10
<1>12. ConflictIndex(n, m) \in Nat
  <2>1. CASE Older(n, m)
    BY <2>1 DEF ConflictIndex
  <2>2. CASE ~Older(n, m) /\ Missing(n, m)
    <3>1. ConflictIndex(n, m) = Len(log[n]) + 1
      BY <2>2 DEF ConflictIndex, Conflict, last_log_index
    <3> QED BY <1>6, <3>1
  <2>3. CASE ~Older(n, m) /\ ~Missing(n, m) /\ Conflict(n, m)
    <3> DEFINE S == {i \in DOMAIN log[n] : log[n][i].term = log_term_at(n, m.prev_log_index)}
    <3>1. S \in SUBSET Nat
      BY <1>6
    <3>2. m.prev_log_index \in DOMAIN log[n]
      BY <2>3 DEF Missing, Conflict, log_term_at
    <3>3. m.prev_log_index \in S
      BY <3>2 DEF log_term_at
    <3>4. Min(S) \in S
      BY <3>1, <3>3, MinIs
    <3>5. ConflictIndex(n, m) = Min(S)
      BY <2>3 DEF ConflictIndex
    <3> QED BY <3>1, <3>4, <3>5
  <2>4. CASE ~Older(n, m) /\ ~Missing(n, m) /\ ~Conflict(n, m)
    BY <2>4 DEF ConflictIndex
  <2> QED BY <2>1, <2>2, <2>3, <2>4
<1>13. \E resp \in Replies : /\ Reply(m, resp) /\ resp.from = n /\ resp.ok = Accepts(n, m)
                             /\ resp.conflict_index = ConflictIndex(n, m)
  <2> DEFINE resp == [from |-> n, term |-> term'[n], ok |-> Accepts(n, m), conflict_index |-> ConflictIndex(n, m)]
  <2>1. term'[n] \in 0 .. MaxTerm /\ Accepts(n, m) \in BOOLEAN
    BY <1>7 DEF Accepts
  <2>2. resp \in Replies /\ resp.from = n /\ resp.ok = Accepts(n, m) /\ resp.conflict_index = ConflictIndex(n, m)
    BY <1>12, <2>1 DEF Replies
  <2>3. Reply(m, resp)
    BY <1>4
  <2> HIDE DEF resp
  <2> QED BY <2>2, <2>3
<1> QED BY <1>1, <1>5, <1>7, <1>9, <1>11, <1>13 DEF AppendAssigns

\* What a leader that waits for this answer will make of it.
LEMMA ConflictIndexIs ==
  ASSUME NEW ll, Inv(ll), NEW n \in Nodes, NEW m, m.term \in Terms, Sent(ll, m)
  PROVE  ConflictIndex(n, m) <= Len(ll[m.term]) + 1
<1>1. /\ log[n] \in Seq(Entry) /\ Len(log[n]) \in Nat /\ ll[m.term] \in Seq(Entry) /\ Len(ll[m.term]) \in Nat
      /\ m.prev_log_index \in Nat /\ m.prev_log_index <= Len(ll[m.term])
  <2>1. log[n] \in Seq(Entry) /\ ll[m.term] \in Seq(Entry) /\ m.entries \in Seq(Entry) /\ m.prev_log_index \in Nat
    BY DEF Inv, Types, LeaderLogs, Sent
  <2>2. m.prev_log_index + Len(m.entries) <= Len(ll[m.term])
    BY DEF Sent
  <2> QED BY <2>1, <2>2
<1>2. CASE Older(n, m) \/ (~Missing(n, m) /\ ~Conflict(n, m))
  <2>1. ConflictIndex(n, m) = 0
    BY <1>2 DEF ConflictIndex
  <2> QED BY <1>1, <2>1
<1>3. CASE ~Older(n, m) /\ Missing(n, m)
  <2>1. ConflictIndex(n, m) = Len(log[n]) + 1
    BY <1>3 DEF ConflictIndex, Conflict, last_log_index
  <2>2. m.prev_log_index \notin 1 .. Len(log[n]) /\ m.prev_log_index > 0
    <3>1. \A i \in 1 .. Len(log[n]) : log[n][i].term \in Nat \ {0}
      BY <1>1, TermsOf DEF Terms
    <3> QED BY <1>1, <1>3, <3>1 DEF Missing, log_term_at
  <2> QED BY <1>1, <2>1, <2>2
<1>4. CASE ~Older(n, m) /\ ~Missing(n, m) /\ Conflict(n, m)
  <2> DEFINE S == {i \in DOMAIN log[n] : log[n][i].term = log_term_at(n, m.prev_log_index)}
  <2>1. S \in SUBSET Nat
    BY <1>1
  <2>2. m.prev_log_index \in DOMAIN log[n]
    BY <1>4 DEF Missing, Conflict, log_term_at
  <2>3. m.prev_log_index \in S
    BY <2>2 DEF log_term_at
  <2>4. Min(S) \in S /\ Min(S) <= m.prev_log_index
    BY <2>1, <2>3, MinIs
  <2>5. ConflictIndex(n, m) = Min(S) /\ Min(S) \in Nat
    BY <1>4, <2>1, <2>4 DEF ConflictIndex
  <2> HIDE DEF S
  <2> QED BY <1>1, <2>4, <2>5
<1> QED BY <1>2, <1>3, <1>4

\* The commit index of a request is known to be committed, and covered by it.
LEMMA Offered ==
  ASSUME NEW ll, Inv(ll), restarts = 0, NEW n \in Nodes, NEW m \in Inbox(n), m.kind = "append"
  PROVE  Known(ll, m.leader_commit, m.term) /\ m.leader_commit <= m.prev_log_index + Len(m.entries)
<1>1. CASE m \in stale
  BY <1>1 DEF Inv, Applies
<1>2. CASE m \notin stale
  <2>1. PICK c \in Nodes : call[c].todo # <<>> /\ m = Invites(c)
    BY <1>2, InboxIs
  <2>2. /\ m.term = term[c] /\ m.leader_commit = commit[c] /\ m.prev_log_index + Len(m.entries) = Len(log[c])
    BY <2>1, RequestIs
  <2>3. Known(ll, commit[c], term[c]) /\ Agree(log[c], committed, commit[c])
    BY DEF Inv, Applies
  <2> QED BY <2>2, <2>3 DEF Agree
<1> QED BY <1>1, <1>2

\* What is known in a term is known in later ones.
LEMMA KnownLater ==
  ASSUME NEW ll, NEW k, NEW s \in Nat, NEW t \in Nat, s <= t, Known(ll, k, s)
  PROVE  Known(ll, k, t)
<1>1. 1 .. s \subseteq 1 .. t
  OBVIOUS
<1> QED BY <1>1 DEF Known

\* What a node has applied is not changed by what a leader sends it.
LEMMA CommitKept ==
  ASSUME NEW ll, Inv(ll), restarts = 0, NEW n \in Nodes, NEW m, m.term \in Terms, Sent(ll, m)
  PROVE  Agree(NewLog(n, m), log[n], commit[n])
<1>1. PICK L \in Seq(Entry) : L = log[n] /\ OfLeaders(ll, L)
  BY DEF Inv, Types, Logs
<1>2. PICK G \in Seq(Entry) : G = ll[m.term] /\ OfLeaders(ll, G) /\ G # <<>>
  BY DEF Inv, LeaderLogs, Sent
<1>3. PICK R \in Seq(Entry) : /\ R = NewLog(n, m) /\ OfLeaders(ll, R)
                              /\ Older(n, m) => R = L
                              /\ ~Older(n, m) => Keeps(L, G, R)
  BY <1>1, <1>2, NewLogIs
<1>4. PICK k \in Nat : k = commit[n] /\ Known(ll, k, term[n]) /\ Agree(L, committed, k)
  BY <1>1 DEF Inv, Types, Applies
<1>5. Len(L) \in Nat /\ Len(G) \in Nat /\ Len(R) \in Nat /\ term[n] \in Nat /\ m.term \in Nat /\ committed \in Seq(Entry)
  BY Limits DEF Inv, Types, Terms
<1>6. CASE Older(n, m)
  <2>1. Agree(L, L, k)
    BY <1>4 DEF Agree
  <2> QED BY <1>1, <1>3, <1>4, <1>6, <2>1
<1>7. CASE ~Older(n, m) /\ k = 0
  <2>1. Agree(R, L, 0)
    BY <1>5 DEF Agree
  <2> QED BY <1>1, <1>3, <1>4, <1>7, <2>1
<1>8. CASE ~Older(n, m) /\ k # 0
  <2>1. Known(ll, k, m.term)
    BY <1>4, <1>5, <1>8, KnownLater DEF Older
  <2>2. Agree(G, committed, k)
    BY <1>2, <2>1, KnownIn DEF Inv
  <2>3. k \in 1 .. k /\ k \in 1 .. Len(L) /\ k \in 1 .. Len(G) /\ L[k] = G[k]
    BY <1>4, <1>5, <1>8, <2>2 DEF Agree
  <2>4. Has(G, k, L[k].term) /\ Has(L, k, L[k].term)
    BY <2>3 DEF Has
  <2>5. Has(R, k, L[k].term)
    BY <1>3, <1>8, <2>3, <2>4 DEF Keeps
  <2>6. Agree(R, L, k)
    BY <1>1, <1>3, <2>4, <2>5, SameEntry
  <2> QED BY <1>1, <1>3, <1>4, <2>6
<1> QED BY <1>6, <1>7, <1>8

\* The action handle_append_entries keeps the invariant.
LEMMA HandleAppendEntries ==
  ASSUME NEW ll, Inv(ll), NEW n \in Nodes, NEW m \in Inbox(n), handle_append_entries(n, m)
  PROVE  Inv(ll)'
<1>0. AppendAssigns(ll, n, m)
  BY AppendIs
<1>1. /\ call[n] = Idle /\ m.kind = "append" /\ m.term \in Terms /\ Sent(ll, m) /\ m.from \in Nodes \ {n}
      /\ term'[n] = IF Older(n, m) THEN term[n] ELSE m.term
      /\ log'[n] = NewLog(n, m) /\ log' \in [Nodes -> Seq(Entry)]
      /\ Older(n, m) => vote'[n] = vote[n] /\ role'[n] = role[n]
      /\ ~Older(n, m) => role'[n] = "follower"
      /\ term[n] = m.term => vote'[n] = vote[n]
      /\ \A c \in Nodes \ {n} : /\ term'[c] = term[c] /\ vote'[c] = vote[c] /\ role'[c] = role[c]
                                /\ log'[c] = log[c] /\ commit'[c] = commit[c]
  BY <1>0 DEF AppendAssigns
<1>2. /\ term' \in [Nodes -> 0 .. MaxTerm] /\ vote' \in [Nodes -> Nodes \cup {NoVote}]
      /\ role' \in [Nodes -> {"follower", "candidate", "leader"}]
      /\ commit'[n] = IF Accepts(n, m) /\ m.leader_commit > commit[n]
                      THEN Min({m.leader_commit, Len(log'[n])}) ELSE commit[n]
      /\ commit' \in [Nodes -> Nat]
      /\ apply_committed(n)
      /\ next' = next /\ match' = match /\ committed' = committed /\ elected' = elected /\ restarts' = restarts
  BY <1>0 DEF AppendAssigns
<1>3. PICK resp \in Replies : /\ Reply(m, resp) /\ resp.from = n /\ resp.ok = Accepts(n, m)
                              /\ resp.conflict_index = ConflictIndex(n, m)
  BY <1>0 DEF AppendAssigns
<1>4. PICK t \in Terms : t = m.term /\ t \in Nat /\ term[n] \in Nat
  BY <1>1, Limits DEF Terms, Inv, Types
<1>5. PICK G \in Seq(Entry) : G = ll[t] /\ G # <<>>
  BY <1>1, <1>4 DEF Inv, LeaderLogs, Sent
<1>6. PICK R \in Seq(Entry) :
        /\ R = log'[n] /\ Ordered(R) /\ OfLeaders(ll, R)
        /\ Older(n, m) => R = log[n]
        /\ ~Older(n, m) => Keeps(log[n], G, R)
        /\ Accepts(n, m) => Agree(R, G, m.prev_log_index + Len(m.entries))
        /\ \A k \in 1 .. Len(R) : R[k].term <= term'[n]
  BY <1>1, <1>4, <1>5, NewLogIs
<1>7. applied' \in [Nodes -> Seq(Entry)] /\ ApplyStep
  BY <1>1, <1>2, ApplyIs DEF Inv
<1>8. Types'
  <2>1. call' \in [Nodes -> Calls]
    BY <1>3, ReplyIs
  <2> QED BY <1>1, <1>2, <1>7, <2>1 DEF Inv, Types
<1>9. term'[n] > term[n] \/ (term'[n] = term[n] /\ vote[n] \in {NoVote, vote'[n]})
  BY <1>1, <1>4 DEF Older
<1>10. Leads(n)' => Leads(n) /\ term'[n] = term[n] /\ log'[n] = log[n]
  BY <1>1, <1>6 DEF Leads
<1>11. ASSUME m \notin stale
       PROVE  /\ ~InVote(m.from) /\ (Accepts(n, m) => NewAck(m.from, n))
              /\ resp.conflict_index <= Len(log[m.from]) + 1
  <2>1. PICK c \in Nodes \ {n} : m.from = c /\ call[c].todo # <<>> /\ m = Invites(c)
    BY <1>11, InboxIs
  <2>2. /\ Leads(c) /\ call[c].kind = "append" /\ m.term = term[c]
        /\ m.prev_log_index + Len(m.entries) = Len(log[c])
    BY <1>1, <2>1, RequestIs
  <2>3. log[c] = G
    BY <1>4, <1>5, <2>2 DEF Inv, Leaders
  <2>4. ~InVote(c)
    BY <2>2 DEF InVote
  <2>5. ASSUME Accepts(n, m) PROVE NewAck(c, n)
    <3>1. term[n] <= term[c] /\ term'[n] = term[c]
      BY <1>1, <1>4, <2>2, <2>5 DEF Accepts, Older
    <3>2. Extends(log'[n], log[c])
      BY <1>6, <2>2, <2>3, <2>5 DEF Extends
    <3> QED BY <3>1, <3>2 DEF NewAck
  <2>6. ConflictIndex(n, m) <= Len(G) + 1
    BY <1>1, <1>4, <1>5, ConflictIndexIs
  <2> QED BY <1>3, <2>1, <2>3, <2>4, <2>5, <2>6
<1>12. /\ Rounds' /\ VoteStep /\ RoundStep /\ AckStep /\ LeadStep /\ StaleStep
       /\ \A c \in Nodes : Leads(c)' => /\ Leads(c) /\ term'[c] = term[c] /\ log'[c] = log[c]
                                        /\ Informed(c)'
  BY <1>1, <1>2, <1>3, <1>8, <1>9, <1>10, <1>11, AnswerStep
<1>13. LeaderLogs(ll)' /\ ElectStep(ll, ll)
  <2>1. \A u \in Terms : Extends(ll[u], ll[u])
    BY ExtendsSelf DEF Inv, LeaderLogs
  <2> QED BY <1>2, <2>1 DEF Inv, LeaderLogs, ElectStep
<1>14. LogStep(ll)
  <2>1. \A c \in Nodes : log[c] \in Seq(Entry)
    BY DEF Inv, Types
  <2>2. \A c \in Nodes \ {n} : Extends(log'[c], log[c])
    BY <1>1, <2>1, ExtendsSelf
  <2>3. CASE Older(n, m)
    BY <1>6, <2>1, <2>2, <2>3, ExtendsSelf DEF LogStep
  <2>4. CASE ~Older(n, m)
    <3>1. t >= term[n] /\ ll[t] # <<>> /\ Keeps(log[n], ll[t], log'[n])
      BY <1>4, <1>5, <1>6, <2>4 DEF Older
    <3> QED BY <2>2, <3>1 DEF LogStep
  <2> QED BY <2>3, <2>4
<1>15. Step(ll, ll)
  BY <1>12, <1>13, <1>14 DEF Step
<1>16. Logs(ll)'
  <2> SUFFICES ASSUME NEW c \in Nodes
               PROVE  /\ Ordered(log'[c]) /\ OfLeaders(ll, log'[c])
                      /\ \A k \in 1 .. Len(log'[c]) : log'[c][k].term <= term'[c]
    BY DEF Logs
  <2>1. CASE c = n
    BY <1>6, <2>1
  <2>2. CASE c # n
    BY <1>1, <2>2 DEF Inv, Logs
  <2> QED BY <2>1, <2>2
<1>17. Leaders(ll)'
  <2> SUFFICES ASSUME NEW c \in Nodes, Leads(c)'
               PROVE  /\ term'[c] \in Terms /\ c \in elected'[term'[c]] /\ log'[c] = ll[term'[c]]
                      /\ Informed(c)'
    BY DEF Leaders, Informed
  <2>1. Leads(c) /\ term'[c] = term[c] /\ log'[c] = log[c] /\ Informed(c)'
    BY <1>12
  <2> QED BY <1>2, <2>1 DEF Inv, Leaders
<1>18. ASSUME restarts = 0 PROVE CommitStep(ll)
  <2>1. ASSUME NEW c \in Nodes \ {n} PROVE commit'[c] = commit[c] /\ Agree(log'[c], log[c], commit[c])
    <3>1. Extends(log'[c], log[c])
      BY <1>1, ExtendsSelf DEF Inv, Types
    <3> QED BY <1>1, <1>8, <1>18, <3>1, CommitSame
  <2>2. Agree(log'[n], log[n], commit[n])
    BY <1>1, <1>18, CommitKept
  <2>3. CASE ~(Accepts(n, m) /\ m.leader_commit > commit[n])
    BY <1>2, <2>1, <2>2, <2>3 DEF CommitStep
  <2>4. CASE Accepts(n, m) /\ m.leader_commit > commit[n]
    <3>1. PICK k \in Nat : k = m.leader_commit
      BY <1>1 DEF Sent
    <3>2. PICK top \in Nat : top = m.prev_log_index + Len(m.entries)
      BY <1>1 DEF Sent
    <3>3. Known(ll, k, t) /\ k <= top
      BY <1>1, <1>4, <1>18, <3>1, <3>2, Offered
    <3>4. Agree(R, G, top)
      BY <1>6, <2>4, <3>2
    <3>5. Agree(G, committed, k)
      BY <1>5, <3>3, KnownIn DEF Inv
    <3>6. Agree(R, committed, k)
      <4>1. Agree(R, G, k) /\ committed \in Seq(Entry)
        BY <3>3, <3>4 DEF Agree, Inv, Types
      <4> QED BY <3>5, <4>1, AgreeTrans
    <3>7. commit'[n] = k
      <4>1. Len(R) \in Nat /\ k <= Len(R)
        BY <3>6 DEF Agree
      <4>2. Min({k, Len(R)}) = k
        BY <4>1, MinOf
      <4> QED BY <1>2, <1>6, <2>4, <3>1, <4>2
    <3>8. term'[n] = t
      BY <1>1, <1>4, <2>4 DEF Accepts
    <3>9. Extends(committed', committed)
      BY <1>2, ExtendsSelf DEF Inv, Types
    <3>10. Known(ll, k, t)'
      BY <1>4, <1>8, <1>13, <1>15, <3>3, <3>9, KnownStays DEF Inv
    <3>11. commit'[n] >= commit[n] /\ Known(ll, commit[n], term[n])' /\ Agree(log'[n], committed', commit'[n])
      <4>1. commit[n] \in Nat /\ k >= commit[n]
        BY <2>4, <3>1 DEF Inv, Types
      <4> QED BY <1>2, <1>6, <3>6, <3>7, <3>8, <3>10, <4>1
    <3> QED BY <2>1, <3>11 DEF CommitStep
  <2> QED BY <2>3, <2>4
<1> QED BY <1>2, <1>7, <1>8, <1>12, <1>13, <1>15, <1>16, <1>17, <1>18, Combine

-----------------------------------------------------------------------------
(***************************************************************************)
(* The invariant holds of every behaviour.                                 *)
(***************************************************************************)
IInv == \E ll : Inv(ll)

\* The invariant holds at the start, with no leader and no log.
LEMMA InitInv == Init => IInv
<1> SUFFICES ASSUME Init PROVE IInv
  OBVIOUS
<1>1. PICK ll : ll = [t \in Terms |-> <<>>]
  OBVIOUS
<1>2. <<>> \in Seq(Entry) /\ Len(<<>>) = 0 /\ \A k \in 1 .. 0 : FALSE
  OBVIOUS
<1>3. Idle \in Calls /\ Idle.kind = "none" /\ Idle.todo = <<>> /\ Idle.replies = <<>>
  BY IdleIs
<1>4. Types
  BY <1>2, <1>3, Limits DEF Types, Init, Terms
<1>5. \A n \in Nodes : /\ log[n] = <<>> /\ applied[n] = <<>> /\ call[n] = Idle /\ role[n] = "follower"
                       /\ commit[n] = 0 /\ term[n] = 0
  BY DEF Init
<1>6. committed = <<>> /\ stale = {} /\ \A t \in Terms : elected[t] = {} /\ ll[t] = <<>>
  BY <1>1 DEF Init, Terms
<1>7. \A n \in Nodes : ~InVote(n) /\ ~Leads(n)
  BY <1>3, <1>5 DEF InVote, Leads
<1>8. Rounds /\ Candidates /\ Elected
  BY <1>2, <1>3, <1>5, <1>6, <1>7 DEF Rounds, Candidates, Elected, InVote
<1>9. Ordered(<<>>) /\ OfLeaders(ll, <<>>) /\ \A L \in Seq(Entry) : Agree(<<>>, L, 0) /\ Extends(L, <<>>)
  <2>1. \A L \in Seq(Entry) : Len(L) \in Nat
    OBVIOUS
  <2> QED BY <1>2, <2>1 DEF Ordered, OfLeaders, Agree, Extends
<1>10. LeaderLogs(ll)
  <2>1. ll \in [Terms -> Seq(Entry)]
    BY <1>1, <1>2
  <2> QED BY <1>6, <1>9, <2>1 DEF LeaderLogs
<1>11. Logs(ll) /\ Leaders(ll) /\ Messages(ll) /\ Kept(ll) /\ Commits(ll)
  <2>1. \A n \in Nodes : \A k \in 1 .. Len(log[n]) : FALSE
    BY <1>2, <1>5
  <2>2. Kept(ll)
    BY <2>1 DEF Kept
  <2>3. Logs(ll)
    BY <1>5, <1>9, <2>1 DEF Logs
  <2>4. Leaders(ll) /\ Messages(ll) /\ Commits(ll)
    BY <1>6, <1>7 DEF Leaders, Messages, Commits
  <2> QED BY <2>2, <2>3, <2>4
<1>12. Applies(ll)
  <2>1. ASSUME NEW n \in Nodes
        PROVE  /\ Known(ll, commit[n], term[n]) /\ Agree(log[n], committed, commit[n])
               /\ Len(applied[n]) <= commit[n] /\ Extends(committed, applied[n])
    <3>1. log[n] = <<>> /\ applied[n] = <<>> /\ commit[n] = 0 /\ committed = <<>>
      BY <1>5, <1>6
    <3>2. Agree(<<>>, <<>>, 0) /\ Extends(<<>>, <<>>)
      BY <1>2, <1>9
    <3> QED BY <1>2, <3>1, <3>2 DEF Known
  <2> QED BY <1>6, <2>1 DEF Applies
<1> QED BY <1>4, <1>8, <1>10, <1>11, <1>12 DEF Inv, IInv

\* Stuttering keeps the invariant.
LEMMA StutterInv ==
  ASSUME NEW ll, Inv(ll), UNCHANGED vars
  PROVE  Inv(ll)'
<1>1. UNCHANGED <<term, vote, log, role, commit, next, match, applied, call, stale, committed, elected, restarts>>
  BY DEF vars, persistent, leading, serving, bounds
<1>2. Types' /\ Rounds'
  BY <1>1 DEF Inv, Types, Rounds, InVote, Leads
<1>3. \A c \in Nodes : RoundSame(c)
  BY <1>1 DEF RoundSame
<1>4. VoteStep /\ StaleStep /\ ApplyStep
  BY <1>1 DEF VoteStep, StaleStep, ApplyStep
<1>5. RoundStep
  BY <1>1, <1>3, SameRound DEF RoundStep
<1>6. AckStep
  BY <1>1, <1>3, SameRound DEF AckStep, Leads
<1>7. \A n \in Nodes : Leads(n)' => Leads(n) /\ term'[n] = term[n] /\ Informed(n)'
  BY <1>1 DEF Leads, Inv, Leaders, Informed
<1> QED BY <1>1, <1>2, <1>4, <1>5, <1>6, <1>7, CombineQuiet

\* Every step keeps the invariant.
LEMMA NextInv == IInv /\ [Next]_vars => IInv'
<1> SUFFICES ASSUME IInv, [Next]_vars PROVE IInv'
  OBVIOUS
<1>1. PICK ll : Inv(ll)
  BY DEF IInv
<1> SUFFICES \E ll2 : Inv(ll2)'
  BY DEF IInv
<1>2. CASE UNCHANGED vars
  BY <1>1, <1>2, StutterInv
<1>3. ASSUME NEW n \in Nodes, start_election(n) PROVE \E ll2 : Inv(ll2)'
  BY <1>1, <1>3, StartElection
<1>4. ASSUME NEW n \in Nodes, finish_election(n) PROVE \E ll2 : Inv(ll2)'
  BY <1>1, <1>4, FinishElection
<1>5. ASSUME NEW n \in Nodes, send_heartbeats(n) PROVE \E ll2 : Inv(ll2)'
  BY <1>1, <1>5, SendHeartbeats
<1>6. ASSUME NEW n \in Nodes, finish_append(n) PROVE \E ll2 : Inv(ll2)'
  BY <1>1, <1>6, FinishAppend
<1>7. ASSUME NEW n \in Nodes, NEW c \in Commands, handle_propose(n, c) PROVE \E ll2 : Inv(ll2)'
  BY <1>1, <1>7, HandlePropose
<1>8. ASSUME NEW n \in Nodes, NEW m \in Inbox(n), handle_request_vote(n, m) PROVE \E ll2 : Inv(ll2)'
  BY <1>1, <1>8, HandleRequestVote
<1>9. ASSUME NEW n \in Nodes, NEW m \in Inbox(n), handle_append_entries(n, m) PROVE \E ll2 : Inv(ll2)'
  BY <1>1, <1>9, HandleAppendEntries
<1>10. ASSUME NEW n \in Nodes, lose(n) PROVE \E ll2 : Inv(ll2)'
  BY <1>1, <1>10, Lose
<1>11. ASSUME NEW n \in Nodes, restart(n) PROVE \E ll2 : Inv(ll2)'
  BY <1>1, <1>11, Restart
<1> QED BY <1>2, <1>3, <1>4, <1>5, <1>6, <1>7, <1>8, <1>9, <1>10, <1>11 DEF Next

\* The invariant holds always.
LEMMA SpecInv == Spec => []IInv
  BY InitInv, NextInv, PTL DEF Spec

\* No term has two leaders: a candidate counts votes that were given before
\* a restart, and requests that are read after their sender gave up do not
\* make a node vote twice in a term (handle_request_vote, start_election).
THEOREM OneLeader == Spec => []ElectionSafety
<1>1. ASSUME NEW ll, Inv(ll) PROVE ElectionSafety
  <2> SUFFICES ASSUME NEW t \in 1 .. MaxTerm PROVE Cardinality(elected[t]) <= 1
    BY DEF ElectionSafety
  <2>1. CASE elected[t] = {}
    BY <2>1, FS_EmptySet
  <2>2. CASE elected[t] # {}
    <3>1. PICK n : n \in elected[t]
      BY <2>2
    <3>2. elected[t] = {n}
      BY <1>1, <3>1 DEF Inv, Elected, Terms
    <3>3. Cardinality({n}) = 1
      BY FS_Singleton
    <3> QED BY <3>2, <3>3
  <2> QED BY <2>1, <2>2
<1>2. IInv => ElectionSafety
  BY <1>1 DEF IInv
<1> QED BY <1>2, SpecInv, PTL

\* Two logs that have an entry of the same index and term are the same up to
\* it, whatever handle_append_entries has truncated and merged.
THEOREM LogsMatch == Spec => []LogMatching
<1>1. ASSUME NEW ll, Inv(ll) PROVE LogMatching
  <2> SUFFICES ASSUME NEW m \in Nodes, NEW n \in Nodes, NEW i \in DOMAIN log[m] \cap DOMAIN log[n],
                      log[m][i].term = log[n][i].term
               PROVE  SubSeq(log[m], 1, i) = SubSeq(log[n], 1, i)
    BY DEF LogMatching
  <2>1. PICK L \in Seq(Entry), M \in Seq(Entry) : /\ L = log[m] /\ M = log[n]
                                                  /\ OfLeaders(ll, L) /\ OfLeaders(ll, M)
    BY <1>1 DEF Inv, Types, Logs
  <2>2. i \in 1 .. Len(L) /\ i \in 1 .. Len(M) /\ i \in Nat
    BY <2>1
  <2>3. Has(L, i, L[i].term) /\ Has(M, i, L[i].term)
    BY <2>1, <2>2 DEF Has
  <2>4. Agree(L, M, i)
    BY <2>1, <2>3, SameEntry
  <2>5. \A j \in 1 .. i : L[j] = M[j]
    BY <2>4 DEF Agree
  <2>6. SubSeq(L, 1, i) = SubSeq(M, 1, i)
    BY <2>2, <2>5
  <2> QED BY <2>1, <2>6
<1>2. IInv => LogMatching
  BY <1>1 DEF IInv
<1> QED BY <1>2, SpecInv, PTL

\* The newest leader has every entry that any leader counted as committed:
\* is_candidate_log_ok and try_advance_commit's restriction to its own term
\* together keep a node without them from being elected.
THEOREM LeadersComplete == Spec => []LeaderCompleteness
<1>1. ASSUME NEW ll, Inv(ll) PROVE LeaderCompleteness
  <2> SUFFICES ASSUME NEW n \in Nodes, role[n] = "leader",
                      \A t \in (term[n] + 1) .. MaxTerm : elected[t] = {}
               PROVE  IsPrefix(committed, log[n])
    BY DEF LeaderCompleteness
  <2>1. PICK t \in Terms : t = term[n] /\ log[n] = ll[t] /\ n \in elected[t] /\ t \in Nat
    BY <1>1 DEF Inv, Leaders, Leads, Terms
  <2>2. ll[t] # <<>> /\ ll[t] \in Seq(Entry) /\ committed \in Seq(Entry)
    BY <1>1, <2>1 DEF Inv, LeaderLogs, Types
  <2>3. ASSUME committed # <<>> PROVE committed[Len(committed)].term <= t
    <3>1. PICK u : u = committed[Len(committed)].term
      OBVIOUS
    <3>2. u \in Terms /\ Has(ll[u], Len(committed), u)
      BY <1>1, <2>3, <3>1 DEF Inv, Commits, Chosen
    <3>3. ll[u] # <<>>
      BY <3>2 DEF Has
    <3>4. elected[u] # {}
      BY <1>1, <3>2, <3>3 DEF Inv, LeaderLogs
    <3>5. u \in Nat /\ u <= MaxTerm /\ MaxTerm \in Nat
      BY <3>2, Limits DEF Terms
    <3> QED BY <2>1, <3>1, <3>4, <3>5
  <2>4. Extends(ll[t], committed)
    BY <1>1, <2>2, <2>3, CommittedIn DEF Inv
  <2> QED BY <2>1, <2>2, <2>4, PrefixExtends
<1>2. IInv => LeaderCompleteness
  BY <1>1 DEF IInv
<1> QED BY <1>2, SpecInv, PTL

\* Until a node restarts, the catalogs hold committed entries only, in the
\* order of the log (apply_committed).
THEOREM AppliedWasCommitted == Spec => []AppliedIsCommitted
<1>1. ASSUME NEW ll, Inv(ll) PROVE AppliedIsCommitted
  <2> SUFFICES ASSUME restarts = 0, NEW n \in Nodes PROVE IsPrefix(applied[n], committed)
    BY DEF AppliedIsCommitted
  <2>1. Extends(committed, applied[n]) /\ committed \in Seq(Entry) /\ applied[n] \in Seq(Entry)
    BY <1>1 DEF Inv, Applies, Types
  <2> QED BY <2>1, PrefixExtends
<1>2. IInv => AppliedIsCommitted
  BY <1>1 DEF IInv
<1> QED BY <1>2, SpecInv, PTL

\* What a leader has committed is never committed differently, by any later
\* leader (try_advance_commit).
THEOREM CommittedStays == Spec => NeverRewritten
<1>1. ASSUME IInv, [Next]_vars, NEW n \in Nodes, finish_append(n) PROVE IsPrefix(committed, committed')
  <2>1. PICK ll : Inv(ll)
    BY <1>1 DEF IInv
  <2>2. Extends(committed', committed) /\ Inv(ll)'
    BY <1>1, <2>1, FinishAppend
  <2>3. committed \in Seq(Entry) /\ committed' \in Seq(Entry)
    BY <2>1, <2>2 DEF Inv, Types
  <2> QED BY <2>2, <2>3, PrefixExtends
<1>2. ASSUME Next, ~\E n \in Nodes : finish_append(n) PROVE UNCHANGED committed
  <2>1. ASSUME NEW n \in Nodes, start_election(n) \/ finish_election(n) \/ send_heartbeats(n)
        PROVE  UNCHANGED committed
    BY <2>1 DEF start_election, finish_election, send_heartbeats
  <2>2. ASSUME NEW n \in Nodes, NEW c \in Commands, handle_propose(n, c) PROVE UNCHANGED committed
    BY <2>2 DEF handle_propose
  <2>3. ASSUME NEW n \in Nodes, NEW m, handle_request_vote(n, m) PROVE UNCHANGED committed
    BY <2>3 DEF handle_request_vote
  <2>4. ASSUME NEW n \in Nodes, NEW m, handle_append_entries(n, m) PROVE UNCHANGED committed
    BY <2>4 DEF handle_append_entries
  <2>5. ASSUME NEW n \in Nodes, lose(n) \/ restart(n) PROVE UNCHANGED committed
    BY <2>5 DEF lose, restart
  <2> QED BY <1>2, <2>1, <2>2, <2>3, <2>4, <2>5 DEF Next
<1>3. UNCHANGED vars => UNCHANGED committed
  BY DEF vars
<1>4. IInv /\ [Next]_vars => [IsPrefix(committed, committed')]_committed
  BY <1>1, <1>2, <1>3
<1> QED BY <1>4, SpecInv, PTL DEF Spec, NeverRewritten

(***************************************************************************)
(* Proposals: the ones that are answered have been made.                   *)
(***************************************************************************)
\* Pending and answered commands have been proposed.
Proposals ==
  /\ pending \in [Nodes -> SUBSET [index : Nat, command : proposed]]
  /\ acked \subseteq proposed /\ proposed \subseteq Commands

\* apply_committed answers proposals that were made.
LEMMA ApplyProposals ==
  ASSUME Proposals, NEW n \in Nodes, apply_committed(n), proposed' = proposed
  PROVE  Proposals'
<1>1. PICK done \in SUBSET pending[n] : /\ pending' = [pending EXCEPT ![n] = @ \ done]
                                        /\ acked' = acked \cup {p.command : p \in done}
  <2> DEFINE done == {p \in pending[n] : p.index <= commit'[n]}
  <2>1. /\ pending' = [pending EXCEPT ![n] = @ \ done]
        /\ acked' = acked \cup {p.command : p \in done}
    BY DEF apply_committed
  <2>2. done \in SUBSET pending[n]
    OBVIOUS
  <2> HIDE DEF done
  <2> QED BY <2>1, <2>2
<1>2. \A p \in done : p.command \in proposed
  BY DEF Proposals
<1> QED BY <1>1, <1>2 DEF Proposals

\* Every step keeps the proposals' part.
LEMMA ProposalsStep ==
  ASSUME Types, Proposals, [Next]_vars
  PROVE  Proposals'
<1>1. ASSUME UNCHANGED <<serving, proposed>> PROVE Proposals'
  BY <1>1 DEF Proposals, serving
<1>2. CASE UNCHANGED vars
  BY <1>1, <1>2 DEF vars, bounds
<1>3. ASSUME NEW n \in Nodes, start_election(n) \/ finish_election(n) \/ send_heartbeats(n) \/ lose(n)
      PROVE  Proposals'
  BY <1>1, <1>3 DEF start_election, finish_election, send_heartbeats, lose, bounds
<1>4. ASSUME NEW n \in Nodes, NEW m, handle_request_vote(n, m) PROVE Proposals'
  BY <1>1, <1>4 DEF handle_request_vote, bounds
<1>5. ASSUME NEW n \in Nodes, NEW m, handle_append_entries(n, m) PROVE Proposals'
  <2>1. apply_committed(n) /\ proposed' = proposed
    BY <1>5 DEF handle_append_entries, bounds
  <2> QED BY <2>1, ApplyProposals
<1>6. ASSUME NEW n \in Nodes, finish_append(n) PROVE Proposals'
  <2>1. proposed' = proposed /\ (UNCHANGED serving \/ apply_committed(n))
    BY <1>6 DEF finish_append, bounds
  <2> QED BY <1>1, <2>1, ApplyProposals
<1>7. ASSUME NEW n \in Nodes, NEW c \in Commands, handle_propose(n, c) PROVE Proposals'
  <2>1. PICK k : k = Len(log'[n])
    OBVIOUS
  <2>2. /\ proposed' = proposed \cup {c} /\ acked' = acked
        /\ pending' = [pending EXCEPT ![n] = {p \in @ : p.index # k} \cup {[index |-> k, command |-> c]}]
    BY <1>7, <2>1 DEF handle_propose
  <2>3. k \in Nat
    <3>1. log \in [Nodes -> Seq(Entry)] /\ log[n] \in Seq(Entry)
      BY DEF Types
    <3>2. log'[n] = Append(log[n], [term |-> term[n], command |-> c])
      BY <1>7, <3>1 DEF handle_propose
    <3>3. Len(log'[n]) = Len(log[n]) + 1
      BY <3>1, <3>2
    <3> QED BY <2>1, <3>1, <3>3
  <2>4. pending' \in [Nodes -> SUBSET [index : Nat, command : proposed']]
    <3>1. PICK new : new = [index |-> k, command |-> c]
      OBVIOUS
    <3>2. new \in [index : Nat, command : proposed']
      BY <2>2, <2>3, <3>1
    <3>3. \A q \in Nodes : \A p \in pending[q] : p \in [index : Nat, command : proposed']
      BY <2>2 DEF Proposals
    <3>4. PICK kept \in SUBSET pending[n] : pending' = [pending EXCEPT ![n] = kept \cup {new}]
      BY <2>2, <3>1
    <3> QED BY <3>2, <3>3, <3>4 DEF Proposals
  <2> QED BY <2>2, <2>4 DEF Proposals
<1>8. ASSUME NEW n \in Nodes, restart(n) PROVE Proposals'
  BY <1>8 DEF restart, Proposals
<1> QED BY <1>2, <1>3, <1>4, <1>5, <1>6, <1>7, <1>8 DEF Next

\* The type invariant, which also says that a node in a round is the candidate
\* or the leader that started it, and that what is answered was proposed.
THEOREM TypeCorrect == Spec => []TypeOK
<1>1. Init => Proposals
  <2> SUFFICES ASSUME Init PROVE Proposals
    OBVIOUS
  <2>1. pending = [n \in Nodes |-> {}] /\ acked = {} /\ proposed = {}
    BY DEF Init
  <2> QED BY <2>1 DEF Proposals
<1>2. IInv => Types
  BY DEF IInv, Inv
<1>3. IInv /\ Proposals /\ [Next]_vars => Proposals'
  BY <1>2, ProposalsStep
<1>4. ASSUME NEW ll, Inv(ll), Proposals PROVE TypeOK
  <2>1. /\ term \in [Nodes -> 0 .. MaxTerm] /\ vote \in [Nodes -> Nodes \cup {NoVote}]
        /\ \A n \in Nodes : log[n] \in Seq(Entry) /\ applied[n] \in Seq(Entry)
        /\ role \in [Nodes -> {"follower", "candidate", "leader"}]
        /\ \A n \in Nodes : commit[n] \in Nat /\ \A p \in Nodes : next[n][p] \in Nat \ {0}
        /\ committed \in Seq(Entry)
    BY <1>4 DEF Inv, Types
  <2>2. \A n \in Nodes : \A p \in pending[n] : p.index \in Nat /\ p.command \in Commands
    BY <1>4 DEF Proposals
  <2>3. \A n \in Nodes : /\ call[n].kind = "vote" => role[n] = "candidate"
                         /\ call[n].kind = "append" => role[n] = "leader"
    BY <1>4 DEF Inv, Rounds, InVote, Leads
  <2> QED BY <1>4, <2>1, <2>2, <2>3 DEF TypeOK, Proposals
<1>5. IInv /\ Proposals => TypeOK
  BY <1>4 DEF IInv
<1> QED BY <1>1, <1>3, <1>5, SpecInv, PTL DEF Spec

=============================================================================
