----------------------------- MODULE RaftGroup -----------------------------
(***************************************************************************)
(* The Raft group that replicates the collection catalog                   *)
(* (chirondb-server/src/raft.rs, raft_grpc.rs).                            *)
(*                                                                         *)
(* Each node is one event loop.  While it asks its peers for votes or      *)
(* sends them entries it asks one after the other, without a timeout, and  *)
(* reads no input: what it sends depends on state that cannot change in    *)
(* the meantime, so a request that is under way is not stored but derived  *)
(* from its sender (Request).  A sender whose connection breaks goes on;   *)
(* the request may still be read, at any later time (stale).               *)
(*                                                                         *)
(* Term, vote and log are written before a node answers; a failed write is *)
(* logged and ignored by the code and does not happen here.                *)
(***************************************************************************)
EXTENDS Naturals, Sequences, FiniteSets, SequencesExt, FiniteSetsExt

CONSTANTS
  Nodes,         \* the members of the group
  Peers,         \* the other members, in the order of each configuration
  Commands,      \* the catalog commands clients propose
  MaxTerm,       \* bound on the elections
  MaxLost,       \* bound on the connections that break
  MaxRestarts    \* bound on the restarts

ASSUME ConstantsAssumption ==
  /\ IsFiniteSet(Nodes) /\ "none" \notin Nodes
  /\ Peers \in [Nodes -> Seq(Nodes)]
  /\ \A n \in Nodes : {Peers[n][i] : i \in DOMAIN Peers[n]} = Nodes \ {n}
  /\ MaxTerm \in Nat /\ MaxLost \in Nat /\ MaxRestarts \in Nat

VARIABLES
  term, vote, log,      \* what a node has on disk
  role, commit,         \* its role and commit_index
  next, match,          \* a leader's next_index and match_index
  pending,              \* the proposals a node will answer, with their index
  applied,              \* the entries its state machine has applied
  call,                 \* the round of requests it is in
  stale,                \* requests whose sender has given up
  committed, elected, acked,    \* history: the entries leaders have committed,
                                \* the leaders of each term, the commands that
                                \* were answered with success
  proposed, lost, restarts      \* what has been used of the bounds

persistent == <<term, vote, log>>
leading == <<next, match>>
serving == <<pending, applied, acked>>
bounds == <<proposed, lost, restarts>>
vars == <<persistent, role, commit, leading, serving, call, stale, committed, elected, bounds>>

Noop == "noop"
NoVote == "none"
Idle == [kind |-> "none", via |-> "none", todo |-> <<>>, replies |-> <<>>]
Round(n, kind, via) == [kind |-> kind, via |-> via, todo |-> Peers[n], replies |-> <<>>]

last_log_index(n) == Len(log[n])
log_term_at(n, i) == IF i \in DOMAIN log[n] THEN log[n][i].term ELSE 0
\* Mutant of quorum_size: half of the nodes are enough.
quorum_size_half == Cardinality(Nodes) \div 2

quorum_size == (Cardinality(Nodes) \div 2) + 1

Init ==
  /\ term = [n \in Nodes |-> 0] /\ vote = [n \in Nodes |-> NoVote]
  /\ log = [n \in Nodes |-> <<>>]
  /\ role = [n \in Nodes |-> "follower"] /\ commit = [n \in Nodes |-> 0]
  /\ next = [n \in Nodes |-> [p \in Nodes |-> 1]] /\ match = [n \in Nodes |-> [p \in Nodes |-> 0]]
  /\ pending = [n \in Nodes |-> {}] /\ applied = [n \in Nodes |-> <<>>]
  /\ call = [n \in Nodes |-> Idle] /\ stale = {}
  /\ committed = <<>> /\ elected = [t \in 1 .. MaxTerm |-> {}] /\ acked = {}
  /\ proposed = {} /\ lost = 0 /\ restarts = 0
-----------------------------------------------------------------------------
(***************************************************************************)
(* Requests and the rounds they belong to.                                 *)
(***************************************************************************)
RequestVote(n, p) ==
  [kind |-> "vote", from |-> n, to |-> p, term |-> term[n],
   last_log_index |-> last_log_index(n), last_log_term |-> log_term_at(n, last_log_index(n))]

\* Mutant of AppendEntries: the last index is sent as the commit index.
AppendEntries_uncommitted(n, p) ==
  [kind |-> "append", from |-> n, to |-> p, term |-> term[n],
   prev_log_index |-> next[n][p] - 1, prev_log_term |-> log_term_at(n, next[n][p] - 1),
   entries |-> SubSeq(log[n], next[n][p], Len(log[n])), leader_commit |-> Len(log[n])]

AppendEntries(n, p) ==
  [kind |-> "append", from |-> n, to |-> p, term |-> term[n],
   prev_log_index |-> next[n][p] - 1, prev_log_term |-> log_term_at(n, next[n][p] - 1),
   entries |-> SubSeq(log[n], next[n][p], Len(log[n])), leader_commit |-> commit[n]]

Request(n, p) == IF call[n].kind = "vote" THEN RequestVote(n, p) ELSE AppendEntries(n, p)

Asks(n, p) == call[n].todo # <<>> /\ Head(call[n].todo) = p

\* What node n may read next: a request its sender waits for, or a stale one.
\* Its loop reads nothing while it is in a round itself.
Inbox(n) == {Request(m, n) : m \in {q \in Nodes : Asks(q, n)}} \cup {r \in stale : r.to = n}

Reads(n, m, kind) == call[n] = Idle /\ m.kind = kind

Reply(m, resp) ==
  IF m \in stale
  THEN stale' = stale \ {m} /\ UNCHANGED call
  ELSE /\ call' = [call EXCEPT ![m.from].todo = Tail(@), ![m.from].replies = Append(@, resp)]
       /\ UNCHANGED stale

\* The connection of a request breaks: its sender skips the peer.
lose(n) ==
  /\ call[n].todo # <<>>
  /\ lost < MaxLost /\ lost' = lost + 1
  /\ stale' = stale \cup {Request(n, Head(call[n].todo))}
  /\ call' = [call EXCEPT ![n].todo = Tail(@)]
  /\ UNCHANGED <<persistent, role, commit, leading, serving, committed, elected, proposed, restarts>>
-----------------------------------------------------------------------------
\* apply_committed, with notify_committed_proposals at its end: entries up to
\* commit_index are applied, and proposals at or below it are answered.
apply_committed(n) ==
  LET upto == Min({commit'[n], Len(log'[n])})
      done == {p \in pending[n] : p.index <= commit'[n]}
  IN  /\ applied' = [applied EXCEPT ![n] = @ \o SubSeq(log'[n], Len(@) + 1, upto)]
      /\ pending' = [pending EXCEPT ![n] = @ \ done]
      /\ acked' = acked \cup {p.command : p \in done}

\* Mutant of Commitable: a peer counts for the entry after its last.
Commitable_off_by_one(n, matched) ==
  {i \in (commit[n] + 1) .. Len(log[n]) :
     /\ log[n][i].term = term[n]
     /\ Cardinality({p \in Nodes \ {n} : matched[p] + 1 >= i}) + 1 >= quorum_size}

\* The entries that a quorum has stored in the leader's own term, by the
\* match_index that results from a round.
Commitable(n, matched) ==
  {i \in (commit[n] + 1) .. Len(log[n]) :
     /\ log[n][i].term = term[n]
     /\ Cardinality({p \in Nodes \ {n} : matched[p] >= i}) + 1 >= quorum_size}

try_advance_commit(n, matched) ==
  LET advanced == Max(Commitable(n, matched) \cup {commit[n]})
  IN  /\ commit' = [commit EXCEPT ![n] = advanced]
      /\ committed' = IF Commitable(n, matched) # {} /\ advanced > Len(committed)
                      THEN SubSeq(log[n], 1, advanced) ELSE committed

become_follower(n, t) ==
  /\ term' = [term EXCEPT ![n] = t] /\ vote' = [vote EXCEPT ![n] = NoVote]
  /\ role' = [role EXCEPT ![n] = "follower"]
-----------------------------------------------------------------------------
(***************************************************************************)
(* The handlers of the two requests.                                       *)
(***************************************************************************)
\* Mutant of is_candidate_log_ok: only the length of the log is compared.
is_candidate_log_ok_length(n, m) == m.last_log_index >= last_log_index(n)

is_candidate_log_ok(n, m) ==
  LET ours == log_term_at(n, last_log_index(n))
  IN  IF m.last_log_term # ours THEN m.last_log_term > ours
      ELSE m.last_log_index >= last_log_index(n)

handle_request_vote(n, m) ==
  LET newer == m.term > term[n]
      voted == IF newer THEN NoVote ELSE vote[n]
      grant == m.term >= term[n] /\ voted \in {NoVote, m.from} /\ is_candidate_log_ok(n, m)
  IN  /\ Reads(n, m, "vote")
      /\ term' = [term EXCEPT ![n] = Max({@, m.term})]
      /\ vote' = [vote EXCEPT ![n] = IF grant THEN m.from ELSE voted]
      /\ role' = [role EXCEPT ![n] = IF newer THEN "follower" ELSE @]
      /\ Reply(m, [from |-> n, term |-> term'[n], ok |-> grant, conflict_index |-> 0])
      /\ UNCHANGED <<log, commit, leading, serving, committed, elected, bounds>>

\* Mutant of Merged: an entry that differs is not truncated.
Merged_keeps(n, m) ==
  log[n] \o SubSeq(m.entries, Len(log[n]) + 1 - m.prev_log_index, Len(m.entries))

\* The entries of a request are merged into the log: those that agree with it
\* are skipped, and from the first that does not the log is replaced.
Merged(n, m) ==
  LET at(k) == m.prev_log_index + k
      agreeing == {k \in 0 .. Len(m.entries) :
                     \A j \in 1 .. k : log_term_at(n, at(j)) = m.entries[j].term}
      k == Max(agreeing)
  IN  IF k = Len(m.entries) THEN log[n]
      ELSE SubSeq(log[n], 1, at(k)) \o SubSeq(m.entries, k + 1, Len(m.entries))

handle_append_entries(n, m) ==
  LET older == m.term < term[n]
      our_term == log_term_at(n, m.prev_log_index)
      missing == m.prev_log_index > 0 /\ our_term = 0
      conflict == m.prev_log_index > 0 /\ ~missing /\ our_term # m.prev_log_term
      success == ~older /\ ~missing /\ ~conflict
      conflict_index ==
        CASE ~older /\ missing  -> last_log_index(n) + 1
          [] ~older /\ conflict -> Min({i \in DOMAIN log[n] : log[n][i].term = our_term})
          [] OTHER              -> 0
  IN  /\ Reads(n, m, "append")
      /\ IF m.term > term[n] THEN become_follower(n, m.term)
         ELSE /\ role' = [role EXCEPT ![n] = IF older THEN @ ELSE "follower"]
              /\ UNCHANGED <<term, vote>>
      /\ log' = [log EXCEPT ![n] = CASE success -> Merged(n, m)
                                     [] ~older /\ conflict -> SubSeq(@, 1, m.prev_log_index - 1)
                                     [] OTHER -> @]
      /\ commit' = [commit EXCEPT ![n] =
           IF success /\ m.leader_commit > @ THEN Min({m.leader_commit, Len(log'[n])}) ELSE @]
      /\ Reply(m, [from |-> n, term |-> term'[n], ok |-> success,
                   conflict_index |-> conflict_index])
      /\ apply_committed(n)
      /\ UNCHANGED <<leading, committed, elected, bounds>>
-----------------------------------------------------------------------------
(***************************************************************************)
(* What a node starts by itself, and how a round ends.                     *)
(***************************************************************************)
Ended(n, kind) == call[n].kind = kind /\ call[n].todo = <<>>

\* The first reply of a later term ends a round: the node follows.
Outdated(n) == {i \in DOMAIN call[n].replies : call[n].replies[i].term > term[n]}
Follows(n) ==
  /\ Outdated(n) # {}
  /\ become_follower(n, call[n].replies[Min(Outdated(n))].term)
  /\ call' = [call EXCEPT ![n] = Idle]

start_election(n) ==
  /\ call[n] = Idle /\ role[n] # "leader" /\ term[n] < MaxTerm
  /\ term' = [term EXCEPT ![n] = @ + 1] /\ vote' = [vote EXCEPT ![n] = n]
  /\ role' = [role EXCEPT ![n] = "candidate"]
  /\ call' = [call EXCEPT ![n] = Round(n, "vote", "none")]
  /\ UNCHANGED <<log, commit, leading, serving, stale, committed, elected, bounds>>

\* votes_received: the node itself and the peers that granted their vote.
Voters(n) ==
  {n} \cup {call[n].replies[i].from : i \in {j \in DOMAIN call[n].replies : call[n].replies[j].ok}}
Votes(n) == Cardinality(Voters(n))

become_leader(n) ==
  /\ next' = [next EXCEPT ![n] = [p \in Nodes |-> last_log_index(n) + 1]]
  /\ match' = [match EXCEPT ![n] = [p \in Nodes |-> 0]]
  /\ role' = [role EXCEPT ![n] = "leader"]
  /\ log' = [log EXCEPT ![n] = Append(@, [term |-> term[n], command |-> Noop])]
  /\ elected' = [elected EXCEPT ![term[n]] = @ \cup {n}]
  /\ call' = [call EXCEPT ![n] = Round(n, "append", "elected")]

finish_election(n) ==
  /\ Ended(n, "vote")
  /\ UNCHANGED <<commit, serving, stale, committed, bounds>>
  /\ \/ Follows(n) /\ UNCHANGED <<log, leading, elected>>
     \/ /\ Outdated(n) = {} /\ Votes(n) >= quorum_size
        /\ become_leader(n) /\ UNCHANGED <<term, vote>>
     \/ /\ Outdated(n) = {} /\ Votes(n) < quorum_size
        /\ call' = [call EXCEPT ![n] = Idle]
        /\ UNCHANGED <<persistent, role, leading, elected>>

send_heartbeats(n) ==
  /\ call[n] = Idle /\ role[n] = "leader"
  /\ call' = [call EXCEPT ![n] = Round(n, "append", "tick")]
  /\ UNCHANGED <<persistent, role, commit, leading, serving, stale, committed, elected, bounds>>

\* A proposal to a node that does not lead is refused and changes nothing.
\* The answer of an older proposal at the same index is dropped.
handle_propose(n, c) ==
  /\ call[n] = Idle /\ role[n] = "leader"
  /\ c \notin proposed /\ proposed' = proposed \cup {c}
  /\ log' = [log EXCEPT ![n] = Append(@, [term |-> term[n], command |-> c])]
  /\ pending' = [pending EXCEPT ![n] =
       {p \in @ : p.index # Len(log'[n])} \cup {[index |-> Len(log'[n]), command |-> c]}]
  /\ call' = [call EXCEPT ![n] = Round(n, "append", "propose")]
  /\ UNCHANGED <<term, vote, role, commit, leading, applied, acked, stale, committed, elected,
                 lost, restarts>>

\* The replies of a round update what the leader knows of its peers.  A tick
\* advances commit_index and leaves applying and answering to a later input.
finish_append(n) ==
  LET replies == ToSet(call[n].replies)
      of(p) == CHOOSE r \in replies : r.from = p
      heard == {r.from : r \in replies}
      matched == [p \in Nodes |-> IF p \in heard /\ of(p).ok THEN Len(log[n]) ELSE match[n][p]]
  IN  /\ Ended(n, "append")
      /\ \/ /\ Follows(n)
            /\ UNCHANGED <<leading, commit, committed>>
         \/ /\ Outdated(n) = {}
            /\ match' = [match EXCEPT ![n] = matched]
            /\ next' = [next EXCEPT ![n] = [p \in Nodes |->
                 CASE p \notin heard -> next[n][p]
                   [] p \in heard /\ of(p).ok -> Len(log[n]) + 1
                   [] p \in heard /\ ~of(p).ok /\ of(p).conflict_index > 0 -> of(p).conflict_index
                   [] OTHER -> Max({next[n][p] - 1, 1})]]
            /\ try_advance_commit(n, matched)
            /\ call' = [call EXCEPT ![n] = Idle]
            /\ UNCHANGED <<term, vote, role>>
      /\ UNCHANGED log
      /\ IF call[n].via = "tick" THEN UNCHANGED serving ELSE apply_committed(n)
      /\ UNCHANGED <<stale, elected, bounds>>

\* The process ends and starts again.  The log is read back and commit_index
\* set to its last entry; the state machine starts empty.
restart(n) ==
  /\ restarts < MaxRestarts /\ restarts' = restarts + 1
  /\ role' = [role EXCEPT ![n] = "follower"]
  /\ commit' = [commit EXCEPT ![n] = last_log_index(n)]
  /\ next' = [next EXCEPT ![n] = [p \in Nodes |-> 1]]
  /\ match' = [match EXCEPT ![n] = [p \in Nodes |-> 0]]
  /\ pending' = [pending EXCEPT ![n] = {}] /\ applied' = [applied EXCEPT ![n] = <<>>]
  /\ stale' = {r \in stale : r.to # n}
              \cup (IF call[n].todo = <<>> THEN {} ELSE {Request(n, Head(call[n].todo))})
  /\ call' = [m \in Nodes |-> IF m = n THEN Idle
                ELSE IF Asks(m, n) THEN [call[m] EXCEPT !.todo = Tail(@)] ELSE call[m]]
  /\ UNCHANGED <<persistent, acked, committed, elected, proposed, lost>>

Next ==
  \E n \in Nodes :
    \/ start_election(n) \/ finish_election(n)
    \/ send_heartbeats(n) \/ finish_append(n)
    \/ \E c \in Commands : handle_propose(n, c)
    \/ \E m \in Inbox(n) : handle_request_vote(n, m) \/ handle_append_entries(n, m)
    \/ lose(n) \/ restart(n)

Spec == Init /\ [][Next]_vars
-----------------------------------------------------------------------------
Entry == [term : 1 .. MaxTerm, command : Commands \cup {Noop}]

\* Every variable has its type, and a node in a round is the candidate or the
\* leader that started it.
TypeOK ==
  /\ term \in [Nodes -> 0 .. MaxTerm] /\ vote \in [Nodes -> Nodes \cup {NoVote}]
  /\ \A n \in Nodes : log[n] \in Seq(Entry) /\ applied[n] \in Seq(Entry)
  /\ role \in [Nodes -> {"follower", "candidate", "leader"}]
  /\ \A n \in Nodes : commit[n] \in Nat /\ \A p \in Nodes : next[n][p] \in Nat \ {0}
  /\ \A n \in Nodes : \A p \in pending[n] : p.index \in Nat /\ p.command \in Commands
  /\ \A n \in Nodes : /\ call[n].kind = "vote" => role[n] = "candidate"
                      /\ call[n].kind = "append" => role[n] = "leader"
  /\ committed \in Seq(Entry) /\ acked \subseteq proposed /\ proposed \subseteq Commands

\* No term has two leaders, with votes counted from replies that were given
\* before a restart and requests read long after their sender gave up.
ElectionSafety == \A t \in 1 .. MaxTerm : Cardinality(elected[t]) <= 1

\* Two logs with an entry of the same index and term agree up to that entry.
LogMatching ==
  \A m, n \in Nodes : \A i \in DOMAIN log[m] \cap DOMAIN log[n] :
    log[m][i].term = log[n][i].term => SubSeq(log[m], 1, i) = SubSeq(log[n], 1, i)

\* The newest leader holds every entry that any leader has committed.
LeaderCompleteness ==
  \A n \in Nodes :
    role[n] = "leader" /\ (\A t \in (term[n] + 1) .. MaxTerm : elected[t] = {}) =>
      IsPrefix(committed, log[n])

\* What has been committed is never committed differently.
NeverRewritten == [][IsPrefix(committed, committed')]_committed

\* The catalogs of the nodes hold committed entries only, in the order of the
\* log, as long as no node has been restarted.
AppliedIsCommitted ==
  restarts = 0 => \A n \in Nodes : IsPrefix(applied[n], committed)

\* RaftHandle::propose: it "blocks until committed or returns error".
AckedIsCommitted ==
  \A c \in acked : \E i \in DOMAIN committed : committed[i].command = c
=============================================================================
