----------------------------- MODULE MCElection -----------------------------
(* A small instance of Election for TLC.                                     *)
EXTENDS Election, TLC

CONSTANTS
  MaxCalls,       \* bound on the calls in progress at the same time
  MaxAppends,     \* bound on the AppendEntries among them
  MaxRestarted,   \* bound on the servers that are restarted
  PlainTerm       \* for this term, nothing restarts, no log grows and only
                  \* its RequestVotes overlap

Symmetry == Permutations(Server \ Electable) \cup Permutations(Electable)

CallBound ==
  /\ Cardinality(rpcs) <= MaxCalls
  /\ Cardinality({m \in rpcs : m.kind = "append"}) <= MaxAppends

Restarted == {s \in Server : incarnation[s] > 0}

RestartBound == Cardinality(Restarted) <= MaxRestarted

Plain ==
  /\ Restarted = {}
  /\ \A s \in Server : lastId[s] = <<0, 0>>

RequestVotesOnly == \A m \in rpcs : m.kind = "vote" /\ m.term = PlainTerm

PlainBound ==
  /\ (\E m \in rpcs : m.term >= PlainTerm) => Plain
  /\ (\E s \in Server : term[s] >= PlainTerm)
       => Plain /\ (Cardinality(rpcs) <= 1 \/ RequestVotesOnly)
=============================================================================
