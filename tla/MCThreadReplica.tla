-------------------------- MODULE MCThreadReplica --------------------------
EXTENDS ThreadReplica, TLC

CONSTANTS x, y, p

\* all peers are devices of one account
OneAccount == [r \in Peer |-> x]

\* the creator has an account of its own
TwoAccounts == [r \in Peer |-> IF r = p THEN x ELSE y]

\* as many goroutines as there are slots
EverySlot == [r \in Peer |-> Cardinality(Slot)]

\* One invite, messages, and nothing fails: two of them where the creator has one
\* goroutine at work, one where it has two; or one goroutine there and four blocks,
\* one of them an update, with a restart or a failure and one invite, or with two
\* invites. The other peer has two goroutines.
RaceOrFaults ==
  LET blocks == {b \in Block : content[b].kind # "none"}
      updates == {b \in blocks : content[b].kind \in UpdateKind}
      oneBusy == \E s \in Slot : task[p][s] = Idle
  IN \/ /\ crashes + failures = 0 /\ invites <= 1
        /\ \A b \in updates : content[b].kind = "message"
        /\ oneBusy \/ (Cardinality(blocks) <= 4 /\ Cardinality(updates) <= 1)
     \/ /\ crashes + failures = 0 \/ (crashes + failures = 1 /\ invites <= 1)
        /\ Cardinality(blocks) <= 4 /\ Cardinality(updates) <= 1
        /\ oneBusy

SlotSymmetry == Permutations(Slot)
=============================================================================
