------------------------- MODULE SimplexNode_proofs -------------------------
(***************************************************************************)
(* The FSM of one validator, fed with votes, certificates, candidates and  *)
(* timeouts in any order, implements the abstract voting rules, keeps its  *)
(* vote ledger exact and never accuses an honest validator: for every      *)
(* number of validators, slots and candidates and every leader window.     *)
(***************************************************************************)
EXTENDS SimplexProgress_proofs, SimplexVoting_proofs

(***************************************************************************)
(* Certificates: from accumulated votes, or received.                      *)
(***************************************************************************)

\* Voters that are honest voters or faulty certify what they vote for once
\* their weight reaches threshold_66.
LEMMA EnoughWeight ==
    ASSUME NEW A \in SUBSET Honest, NEW Q \in SUBSET Validator, Q \subseteq A \cup Faulty,
           WeightOf(Q) >= threshold_66(TotalWeight)
    PROVE  Certified(A)
<1>1. A \cup Faulty \in SUBSET Validator
  BY FaultyBelowThird, Zenon DEF Honest
<1>2. WeightOf(Q) <= WeightOf(A \cup Faulty)
  BY <1>1, WeightMonotone, Zenon
<1>3. WeightOf(Q) \in Nat /\ WeightOf(A \cup Faulty) \in Nat /\ threshold_66(TotalWeight) \in Int
  <2>1. TotalWeight \in Nat
    BY WeightIsMeasure, Zenon DEF TotalWeight
  <2> QED BY <1>1, <2>1, WeightIsMeasure DEF threshold_66
<1> QED BY <1>1, <1>2, <1>3 DEF Certified, Quorum

\* check_thresholds_and_trigger: an accumulator above the threshold means
\* that the certificate exists.
LEMMA ThresholdCertifies ==
    ASSUME NEW st, Ledger(st)
    PROVE  /\ \A c \in Candidate :
                 /\ st.notarize_weight[c] >= threshold_66(TotalWeight) => NotarCert(c)
                 /\ st.finalize_weight[c] >= threshold_66(TotalWeight) => FinalCert(c)
           /\ \A s \in Tracked :
                 st.skip_weight[s] >= threshold_66(TotalWeight) => SkipCert(s)
<1>1. ASSUME NEW c \in Candidate, st.notarize_weight[c] >= threshold_66(TotalWeight)
      PROVE  NotarCert(c)
  <2> DEFINE A == {v \in Honest : c \in notarized[v]}
             Q == Notarizers(st, c)
  <2>1. slotOf[c] \in Tracked /\ c # Unknown
    BY Ids, Zenon
  <2>2. A \in SUBSET Honest /\ Q \in SUBSET Validator
    BY Zenon DEF Notarizers
  <2>3. ASSUME NEW v \in Q PROVE v \in A \cup Faulty
    <3>1. v \in Validator /\ st.votes[slotOf[c]][v].notarize = c
      BY Zenon DEF Notarizers
    <3>2. Signed(st.votes[slotOf[c]][v], slotOf[c], v)
      BY <2>1, <3>1, Zenon DEF Ledger, RecordedAreSigned
    <3> QED BY <2>1, <3>1, <3>2, Zenon DEF Signed, Honest
  <2>4. WeightOf(Q) >= threshold_66(TotalWeight)
    BY <1>1, Zenon DEF Ledger, WeightsExact
  <2>5. Q \subseteq A \cup Faulty
    BY <2>3, Zenon
  <2> HIDE DEF A, Q
  <2>6. Certified(A)
    BY <2>2, <2>4, <2>5, EnoughWeight, Zenon
  <2> QED BY <2>6, Zenon DEF NotarCert, A
<1>2. ASSUME NEW c \in Candidate, st.finalize_weight[c] >= threshold_66(TotalWeight)
      PROVE  FinalCert(c)
  <2> DEFINE A == {v \in Honest : c \in finalized[v]}
             Q == Finalizers(st, c)
  <2>1. slotOf[c] \in Tracked /\ c # Unknown
    BY Ids, Zenon
  <2>2. A \in SUBSET Honest /\ Q \in SUBSET Validator
    BY Zenon DEF Finalizers
  <2>3. ASSUME NEW v \in Q PROVE v \in A \cup Faulty
    <3>1. v \in Validator /\ st.votes[slotOf[c]][v].finalize = c
      BY Zenon DEF Finalizers
    <3>2. Signed(st.votes[slotOf[c]][v], slotOf[c], v)
      BY <2>1, <3>1, Zenon DEF Ledger, RecordedAreSigned
    <3> QED BY <2>1, <3>1, <3>2, Zenon DEF Signed, Honest
  <2>4. WeightOf(Q) >= threshold_66(TotalWeight)
    BY <1>2, Zenon DEF Ledger, WeightsExact
  <2>5. Q \subseteq A \cup Faulty
    BY <2>3, Zenon
  <2> HIDE DEF A, Q
  <2>6. Certified(A)
    BY <2>2, <2>4, <2>5, EnoughWeight, Zenon
  <2> QED BY <2>6, Zenon DEF FinalCert, A
<1>3. ASSUME NEW s \in Tracked, st.skip_weight[s] >= threshold_66(TotalWeight)
      PROVE  SkipCert(s)
  <2> DEFINE A == {v \in Honest : s \in skipped[v]}
             Q == Skippers(st, s)
  <2>1. A \in SUBSET Honest /\ Q \in SUBSET Validator
    BY Zenon DEF Skippers
  <2>2. ASSUME NEW v \in Q PROVE v \in A \cup Faulty
    <3>1. v \in Validator /\ st.votes[s][v].skip
      BY Zenon DEF Skippers
    <3>2. Signed(st.votes[s][v], s, v)
      BY <3>1, Zenon DEF Ledger, RecordedAreSigned
    <3> QED BY <3>1, <3>2, Zenon DEF Signed, Honest
  <2>3. WeightOf(Q) >= threshold_66(TotalWeight)
    BY <1>3, Zenon DEF Ledger, WeightsExact
  <2>4. Q \subseteq A \cup Faulty
    BY <2>2, Zenon
  <2> HIDE DEF A, Q
  <2>5. Certified(A)
    BY <2>1, <2>3, <2>4, EnoughWeight, Zenon
  <2> QED BY <2>5, Zenon DEF SkipCert, A
<1> QED BY <1>1, <1>2, <1>3, Zenon

\* A verified certificate (a quorum of signers) certifies.
LEMMA SignersCertify ==
    ASSUME NEW signers \in Quorum
    PROVE  /\ \A c \in Candidate :
                 /\ Certifies(signers, [kind |-> "notarize", id |-> c]) => NotarCert(c)
                 /\ Certifies(signers, [kind |-> "finalize", id |-> c]) => FinalCert(c)
           /\ \A s \in Slot : Certifies(signers, [kind |-> "skip", id |-> <<s, 0>>]) => SkipCert(s)
<1>1. signers \in SUBSET Validator /\ WeightOf(signers) >= threshold_66(TotalWeight)
  BY Zenon DEF Quorum
<1>2. ASSUME NEW c \in Candidate, Certifies(signers, [kind |-> "notarize", id |-> c])
      PROVE  NotarCert(c)
  <2> DEFINE A == {v \in Honest : c \in notarized[v]}
  <2>1. signers \subseteq A \cup Faulty /\ A \in SUBSET Honest
    BY <1>1, <1>2, Zenon DEF Certifies, SignedBy, Honest
  <2> HIDE DEF A
  <2>2. Certified(A)
    BY <1>1, <2>1, EnoughWeight, Zenon
  <2> QED BY <2>2, Zenon DEF NotarCert, A
<1>3. ASSUME NEW c \in Candidate, Certifies(signers, [kind |-> "finalize", id |-> c])
      PROVE  FinalCert(c)
  <2> DEFINE A == {v \in Honest : c \in finalized[v]}
  <2>1. signers \subseteq A \cup Faulty /\ A \in SUBSET Honest
    BY <1>1, <1>3, Zenon DEF Certifies, SignedBy, Honest
  <2> HIDE DEF A
  <2>2. Certified(A)
    BY <1>1, <2>1, EnoughWeight, Zenon
  <2> QED BY <2>2, Zenon DEF FinalCert, A
<1>4. ASSUME NEW s \in Slot, Certifies(signers, [kind |-> "skip", id |-> <<s, 0>>])
      PROVE  SkipCert(s)
  <2> DEFINE A == {v \in Honest : s \in skipped[v]}
  <2>1. signers \subseteq A \cup Faulty /\ A \in SUBSET Honest
    BY <1>1, <1>4, Zenon DEF Certifies, SignedBy, Honest
  <2> HIDE DEF A
  <2>2. Certified(A)
    BY <1>1, <2>1, EnoughWeight, Zenon
  <2> QED BY <2>2, Zenon DEF SkipCert, A
<1> QED BY <1>2, <1>3, <1>4, Zenon

\* A skip certificate is stored for an open slot.
LEMMA StoreSkip ==
    ASSUME NEW st, FsmInv(st), NEW s \in Slot, st.fnf <= s, SkipCert(s)
    PROVE  LET t == [st EXCEPT !.skip_cert[s] = TRUE, !.skip_events = @ \cup {s}]
           IN  /\ SkipStored(t, s)
               /\ t.fnf = st.fnf
               /\ t.votes = st.votes
<1> DEFINE f == [st.skip_cert EXCEPT ![s] = TRUE]
           t == [st EXCEPT !.skip_cert = f, !.skip_events = @ \cup {s}]
<1>1. st \in FsmState /\ s \in Tracked /\ st.skip_cert \in [Tracked -> BOOLEAN]
  BY Ids, ZenonT(30) DEF FsmInv, FsmState
<1>2. f \in [Tracked -> BOOLEAN] /\ f[s] /\ \A r \in Tracked : r # s => f[r] = st.skip_cert[r]
  BY <1>1, Zenon
<1> HIDE DEF f
<1>3. /\ t \in FsmState /\ t.skip_cert = f /\ t.fnf = st.fnf /\ t.slots = st.slots
      /\ t.outbox = st.outbox /\ t.skip_intervals = st.skip_intervals /\ SameLedger(st, t)
  BY <1>1, <1>2, ZenonT(30) DEF FsmState, SameLedger
<1> HIDE DEF t
<1>4. OwnVotes(t)
  <2>1. SameFlags(st, t)
    BY <1>3, Zenon DEF SameFlags
  <2> QED BY <1>3, <2>1, OwnVotesKept, Zenon DEF FsmInv
<1>5. Beliefs(t)
  <2>1. Beliefs(st)
    BY Zenon DEF FsmInv
  <2> QED BY <1>2, <1>3, <2>1 DEF Beliefs
<1>6. Ledger(t)
  BY <1>3, LedgerKept, Zenon DEF FsmInv
<1>7. ASSUME NEW r \in Slot \ {s}, t.fnf <= r PROVE IndexedAt(t, r)
  <2>1. r \in Tracked /\ r + 1 \in Tracked
    BY Ids, Zenon
  <2>2. IndexedAt(st, r)
    BY <1>3, <1>7, Zenon DEF FsmInv, Indexed
  <2> QED BY <1>2, <1>3, <1>7, <2>1, <2>2, Zenon DEF IndexedAt
<1>8. SkipStored(t, s)
  BY <1>2, <1>3, <1>4, <1>5, <1>6, <1>7, Zenon DEF SkipStored
<1>9. t.votes = st.votes
  BY <1>3, Zenon DEF SameLedger
<1> QED BY <1>3, <1>8, <1>9, Zenon DEF t, f

\* Votes may be recorded while a skip certificate is being stored.
LEMMA SkipStoredRecord ==
    ASSUME NEW st, NEW t, NEW s, SkipStored(st, s), SameButLedger(st, t), Ledger(t)
    PROVE  SkipStored(t, s) /\ t.fnf = st.fnf
<1>1. SameFlags(st, t)
  BY Zenon DEF SameButLedger, SameFlags
<1>2. OwnVotes(t)
  BY <1>1, OwnVotesKept, Zenon DEF SkipStored, SameButLedger
<1>3. Beliefs(t)
  BY DEF SkipStored, SameButLedger, Beliefs
<1> QED BY <1>2, <1>3, Zenon DEF SkipStored, SameButLedger, IndexedAt

\* first_non_finalized_slot moves behind slot s and the index is pruned.
LEMMA FinalizeUpTo ==
    ASSUME NEW st, FsmInv(st), NEW s \in Slot, st.fnf <= s
    PROVE  LET t == prune_skip_intervals_before([st EXCEPT !.fnf = s + 1], s + 1)
           IN  FsmInv(t) /\ t.fnf = s + 1
<1> DEFINE I == {b \in st.skip_intervals : b >= s + 1}
           t == [st EXCEPT !.fnf = s + 1, !.skip_intervals = I]
<1>1. /\ st \in FsmState /\ s \in Nat /\ s + 1 \in Cursor /\ s + 1 \in Nat
      /\ st.fnf \in Nat /\ st.skip_intervals \subseteq Cursor
  BY Ids, Cursors, ZenonT(30) DEF FsmInv, FsmState
<1>2. I \in SUBSET Cursor /\ \A r \in Slot : s + 1 <= r /\ r + 1 \in st.skip_intervals => r + 1 \in I
  BY <1>1, Ids
<1> HIDE DEF I
<1>3. /\ t \in FsmState /\ t.fnf = s + 1 /\ t.skip_intervals = I /\ t.slots = st.slots
      /\ t.outbox = st.outbox /\ t.skip_cert = st.skip_cert /\ SameLedger(st, t)
  BY <1>1, <1>2, ZenonT(30) DEF FsmState, SameLedger
<1>4. prune_skip_intervals_before([st EXCEPT !.fnf = s + 1], s + 1) = t
  BY <1>1, Zenon DEF prune_skip_intervals_before, I, FsmState
<1> HIDE DEF t
<1>5. OwnVotes(t)
  <2>1. MyNotarize(t) = MyNotarize(st) /\ MyFinalize(t) = MyFinalize(st) /\ MySkip(t) = MySkip(st)
    BY <1>3, Zenon DEF MyNotarize, MyFinalize, MySkip
  <2>2. ASSUME NEW r \in Tracked, Live(t, r) PROVE Live(st, r)
    <3>1. /\ WindowIdx(st.fnf) <= WindowIdx(s + 1) /\ WindowIdx(s + 1) <= WindowIdx(r)
          /\ WindowIdx(st.fnf) \in Nat /\ WindowIdx(s + 1) \in Nat /\ WindowIdx(r) \in Nat
      <4>1. st.fnf <= s + 1 /\ r \in Nat
        BY <1>1, Ids
      <4>2. WindowIdx(st.fnf) <= WindowIdx(s + 1)
        BY <1>1, <4>1, WindowMonotone, Zenon
      <4>3. WindowIdx(s + 1) <= WindowIdx(r)
        BY <1>3, <2>2, Zenon DEF Live
      <4> QED BY <1>1, <4>1, <4>2, <4>3, WindowBounds, Zenon
    <3> QED BY <3>1 DEF Live
  <2>3. FlagsRemember(t)
    BY <1>3, <2>1, <2>2 DEF FsmInv, OwnVotes, FlagsRemember
  <2>4. VotesAgree(t)
    BY <2>1, Zenon DEF FsmInv, OwnVotes, VotesAgree
  <2>5. OutboxIsDue(t)
    BY <1>3, ZenonT(30) DEF FsmInv, OwnVotes, OutboxIsDue
  <2> QED BY <2>3, <2>4, <2>5, Zenon DEF OwnVotes
<1>6. Beliefs(t)
  <2>1. Beliefs(st)
    BY Zenon DEF FsmInv
  <2>2. ASSUME NEW r \in Tracked, s + 1 <= r PROVE st.fnf <= r
    <3>1. r \in Nat
      BY Ids, Zenon
    <3> QED BY <1>1, <2>2, <3>1
  <2>3. \A r \in Tracked : st.slots[r].skipped /\ s + 1 <= r => st.skip_cert[r]
    BY <2>1, <2>2, Zenon DEF Beliefs
  <2> QED BY <1>3, <2>1, <2>3 DEF Beliefs
<1>7. Indexed(t)
  <2>1. \A r \in Slot : s + 1 <= r => st.fnf <= r
    BY <1>1, Ids
  <2> QED BY <1>2, <1>3, <2>1, Zenon DEF FsmInv, Indexed, IndexedAt
<1>8. Ledger(t)
  BY <1>3, LedgerKept, Zenon DEF FsmInv
<1> QED BY <1>3, <1>4, <1>5, <1>6, <1>7, <1>8, Zenon DEF FsmInv

\* check_thresholds_and_trigger, notarization: the block that reached the
\* threshold is notarized.
LEMMA NotarizeThresholdKeeps ==
    ASSUME NEW st, FsmInv(st), VotingTypeOK, NEW s \in Slot
    PROVE  Keeps(st, NotarizeThreshold(st, s))
<1> DEFINE reached == {c \in Candidate : /\ slotOf[c] = s
                                         /\ st.notarize_weight[c] >= threshold_66(TotalWeight)}
           c == CHOOSE x \in reached : TRUE
           a == [st EXCEPT !.notar_cert[s] = c]
           t == on_block_notarized(a, c)
           p == [t EXCEPT !.panic = "notarize cert conflict"]
<1>1. CASE st.notar_cert[s] # Unknown \/ reached = {}
  <2>1. NotarizeThreshold(st, s) = st
    BY <1>1, ZenonT(30) DEF NotarizeThreshold
  <2> QED BY <2>1, Zenon DEF Keeps
<1>2. CASE ~ (st.notar_cert[s] # Unknown \/ reached = {})
  <2>1. c \in reached
    BY <1>2, Zenon
  <2>2. NotarizeThreshold(st, s) = IF reached = {c} THEN t ELSE p
    BY <1>2, Zenon DEF NotarizeThreshold
  <2>3. c \in Candidate /\ NotarCert(c)
    BY <2>1, ThresholdCertifies, ZenonT(30) DEF FsmInv
  <2> HIDE DEF c, reached
  <2>4. Keeps(st, a)
    <3>1. st \in FsmState /\ s \in Tracked /\ c \in BlockId
      BY <2>3, Ids, Zenon DEF FsmInv, BlockId
    <3>2. SameCore(st, a)
      BY <3>1, SetSmallField, ZenonT(30)
    <3> QED BY <3>2, CoreKeeps, Zenon
  <2> HIDE DEF a
  <2>5. Keeps(a, t)
    BY <2>3, <2>4, OnNotarizedKeeps, Zenon DEF Keeps
  <2> HIDE DEF t
  <2>6. Keeps(t, p)
    <3>1. "notarize cert conflict" \in PanicReason
      BY Zenon DEF PanicReason
    <3>2. t \in FsmState /\ FsmInv(t)
      BY <2>5, Zenon DEF Keeps, FsmInv
    <3>3. SameCore(t, p)
      BY <3>1, <3>2, SetSmallField, ZenonT(30)
    <3> QED BY <3>2, <3>3, CoreKeeps, ZenonT(30)
  <2> HIDE DEF p
  <2> QED BY <2>2, <2>4, <2>5, <2>6, Zenon DEF Keeps
<1> QED BY <1>1, <1>2, Zenon

\* What follows a finalization: the cursor jumps and moves on, a leader
\* window may be entered.
LEMMA AfterFinalKeeps ==
    ASSUME NEW st, FsmInv(st), NEW s \in Slot
    PROVE  Keeps(st, advance_leader_window_on_progress_cursor(advance_progress_cursor(
                         maybe_jump_progress_cursor_after_finalization(st, s))))
<1> DEFINE j == maybe_jump_progress_cursor_after_finalization(st, s)
           a == advance_progress_cursor(j)
<1>1. Keeps(st, j)
  BY JumpKeeps, CoreKeeps, Zenon DEF FsmInv
<1> HIDE DEF j
<1>2. Keeps(j, a)
  BY <1>1, AdvanceCursorKeeps, CoreKeeps, Zenon DEF Keeps
<1> HIDE DEF a
<1>3. Keeps(a, advance_leader_window_on_progress_cursor(a))
  BY <1>2, EnterWindowKeeps, Zenon DEF Keeps
<1> QED BY <1>1, <1>2, <1>3, Zenon DEF Keeps, a, j

\* check_thresholds_and_trigger, finalization.
LEMMA FinalizeThresholdKeeps ==
    ASSUME NEW st, FsmInv(st), VotingInv, NEW s \in Slot, st.fnf <= s
    PROVE  FsmInv(FinalizeThreshold(st, s))
<1> DEFINE reached == {c \in Candidate : /\ slotOf[c] = s
                                         /\ st.finalize_weight[c] >= threshold_66(TotalWeight)}
           c == CHOOSE x \in reached : TRUE
           a == [st EXCEPT !.final_cert[s] = c]
           t == prune_skip_intervals_before([a EXCEPT !.fnf = s + 1], s + 1)
           u == propagate_base_after_notarization(t, c)
           f == advance_leader_window_on_progress_cursor(advance_progress_cursor(
                    maybe_jump_progress_cursor_after_finalization(u, s)))
<1>1. CASE st.final_cert[s] # Unknown \/ reached = {}
  BY <1>1, Zenon DEF FinalizeThreshold
<1>2. CASE ~ (st.final_cert[s] # Unknown \/ reached = {})
  <2>1. c \in reached
    BY <1>2, Zenon
  <2>2. [st EXCEPT !.final_cert[s] = c, !.fnf = s + 1] = [a EXCEPT !.fnf = s + 1]
    BY Zenon DEF FsmInv, FsmState
  <2>3. FinalizeThreshold(st, s) = IF t.fnp > s THEN u ELSE f
    BY <1>2, <2>2, Zenon DEF FinalizeThreshold
  <2>4. c \in Candidate /\ slotOf[c] = s /\ FinalCert(c)
    BY <2>1, ThresholdCertifies, ZenonT(30) DEF FsmInv
  <2> HIDE DEF c, reached
  <2>5. NotarCert(c)
    BY <2>4, FinalIsNotarized, Zenon
  <2>6. Keeps(st, a)
    <3>1. st \in FsmState /\ s \in Tracked /\ c \in BlockId
      BY <2>4, Ids, Zenon DEF FsmInv, BlockId
    <3>2. SameCore(st, a)
      BY <3>1, SetSmallField, ZenonT(30)
    <3> QED BY <3>2, CoreKeeps, Zenon
  <2> HIDE DEF a
  <2>7. FsmInv(t) /\ t.fnf = s + 1
    BY <2>6, FinalizeUpTo, Zenon DEF Keeps
  <2> HIDE DEF t
  <2>8. FsmInv(u)
    <3>1. t.fnf <= slotOf[c] + 1
      BY <2>4, <2>7, Ids
    <3>2. VotingTypeOK
      BY Zenon DEF VotingInv
    <3> QED BY <2>4, <2>5, <2>7, <3>1, <3>2, PropagateNotarKeeps, Zenon DEF Keeps
  <2> HIDE DEF u
  <2>9. FsmInv(f)
    BY <2>8, AfterFinalKeeps, Zenon DEF Keeps
  <2> HIDE DEF f
  <2> QED BY <2>3, <2>8, <2>9, Zenon
<1> QED BY <1>1, <1>2, Zenon

\* check_thresholds_and_trigger as a whole.
LEMMA ThresholdsKeep ==
    ASSUME NEW st, FsmInv(st), VotingInv, NEW s \in Slot, st.fnf <= s
    PROVE  FsmInv(check_thresholds_and_trigger(st, s))
<1> DEFINE n == NotarizeThreshold(st, s)
           t == FinalizeThreshold(n, s)
           k == [t EXCEPT !.skip_cert[s] = TRUE, !.skip_events = @ \cup {s}]
<1>1. VotingTypeOK /\ s \in Tracked
  BY Ids, Zenon DEF VotingInv
<1>2. FsmInv(n) /\ n.fnf <= s
  BY <1>1, NotarizeThresholdKeeps, Zenon DEF Keeps
<1> HIDE DEF n
<1>3. FsmInv(t)
  BY <1>2, FinalizeThresholdKeeps, Zenon
<1> HIDE DEF t
<1>4. ASSUME s >= t.fnf, st.skip_weight[s] >= threshold_66(TotalWeight)
      PROVE  FsmInv(SkipProgress(k, s))
  <2>1. SkipCert(s)
    BY <1>1, <1>4, ThresholdCertifies, Zenon DEF FsmInv
  <2>2. t.fnf <= s
    BY <1>3, <1>4, Cursors, Ids, Zenon DEF FsmInv
  <2>3. SkipStored(k, s)
    BY <1>3, <2>1, <2>2, StoreSkip, ZenonT(30)
  <2> HIDE DEF k
  <2> QED BY <1>1, <2>3, SkipProgressKeeps, Zenon DEF Keeps
<1> QED BY <1>3, <1>4, Zenon DEF check_thresholds_and_trigger, t, n

\* The votes of the FSM.
LEMMA VoteCases ==
    ASSUME NEW vote \in Vote
    PROVE  \/ vote.kind = "notarize" /\ vote.id \in Candidate
           \/ vote.kind = "finalize" /\ vote.id \in Candidate
           \/ vote.kind = "skip" /\ \E s \in Tracked : vote.id = <<s, 0>>
BY Zenon DEF Vote

\* on_vote: a signed vote is recorded, unless it is stale, repeated or
\* conflicts, and the thresholds are checked.
LEMMA OnVoteKeeps ==
    ASSUME NEW st, FsmInv(st), VotingInv, NEW v \in Validator, NEW vote \in Vote,
           vote.id[1] <= LastSlot, SignedBy(v, vote)
    PROVE  FsmInv(on_vote(st, v, vote))
<1> DEFINE s == vote.id[1]
           mine == st.votes[s][v]
<1>1. CASE VoteResult(st, v, vote) # "Applied"
  BY <1>1, Zenon DEF on_vote
<1>2. CASE VoteResult(st, v, vote) = "Applied"
  <2>1. s \in Slot /\ s \in Nat /\ st \in FsmState /\ Ledger(st) /\ st.fnf \in Nat
    <3>1. CASE vote.id \in Candidate
      BY <3>1, Ids, Cursors, Zenon DEF FsmInv
    <3>2. CASE \E r \in Tracked : vote.id = <<r, 0>>
      <4>1. PICK r \in Tracked : vote.id = <<r, 0>>
        BY <3>2, Zenon
      <4>2. s = r /\ r \in Nat
        BY <4>1, Ids
      <4>3. s \in Slot
        BY <4>2, Ids
      <4> QED BY <4>2, <4>3, Cursors, Zenon DEF FsmInv
    <3> QED BY <3>1, <3>2, VoteCases, Zenon
  <2>2. st.fnf <= s
    <3>1. ~ (s < st.fnf)
      BY <1>2, ZenonT(30) DEF VoteResult
    <3> HIDE DEF s
    <3> QED BY <2>1, <3>1, SMTT(60)
  <2>3. ASSUME NEW t, SameButLedger(st, t), Ledger(t)
        PROVE  FsmInv(check_thresholds_and_trigger(t, s))
    <3>1. FsmInv(t) /\ t.fnf = st.fnf
      BY <2>3, RecordKeeps, Zenon DEF Keeps
    <3> HIDE DEF s
    <3> QED BY <2>1, <2>2, <3>1, ThresholdsKeep, Zenon
  <2>4. CASE vote.kind = "notarize" /\ vote.id \in Candidate
    <3> DEFINE c == vote.id
               t == RecordNotarize(st, c, {v})
    <3>1. s = slotOf[c] /\ c \in Candidate
      BY <2>4, Ids, Zenon
    <3>2. mine.notarize = Unknown /\ mine.finalize \in {Unknown, c}
      BY <1>2, <2>4, Zenon DEF VoteResult
    <3>3. v \in Honest => c \in notarized[v]
      BY <2>4, Zenon DEF SignedBy
    <3>4. on_vote(st, v, vote) = check_thresholds_and_trigger(t, s)
      BY <1>2, <2>4, Zenon DEF on_vote
    <3>5. SameButLedger(st, t) /\ Ledger(t)
      <4>1. \A x \in {v} : /\ st.votes[slotOf[c]][x].notarize = Unknown
                           /\ st.votes[slotOf[c]][x].finalize \in {Unknown, c}
                           /\ x \in Honest => c \in notarized[x]
        BY <3>1, <3>2, <3>3, Zenon
      <4> HIDE DEF c
      <4> QED BY <2>1, <3>1, <4>1, RecordNotarizeKeeps, Zenon
    <3> HIDE DEF t
    <3> QED BY <2>3, <3>4, <3>5, Zenon
  <2>5. CASE vote.kind = "finalize" /\ vote.id \in Candidate
    <3> DEFINE c == vote.id
               t == RecordFinalize(st, c, {v})
    <3>1. s = slotOf[c] /\ c \in Candidate
      BY <2>5, Ids, Zenon
    <3>2. mine.finalize = Unknown /\ mine.notarize \in {Unknown, c} /\ ~ mine.skip
      BY <1>2, <2>5, ZenonT(30) DEF VoteResult
    <3>3. v \in Honest => c \in finalized[v]
      BY <2>5, Zenon DEF SignedBy
    <3>4. on_vote(st, v, vote) = check_thresholds_and_trigger(t, s)
      BY <1>2, <2>5, Zenon DEF on_vote
    <3>5. SameButLedger(st, t) /\ Ledger(t)
      <4>1. \A x \in {v} : /\ st.votes[slotOf[c]][x].finalize = Unknown
                           /\ st.votes[slotOf[c]][x].notarize \in {Unknown, c}
                           /\ ~ st.votes[slotOf[c]][x].skip
                           /\ x \in Honest => c \in finalized[x]
        BY <3>1, <3>2, <3>3, ZenonT(30)
      <4> HIDE DEF c
      <4> QED BY <2>1, <3>1, <4>1, RecordFinalizeKeeps, Zenon
    <3> HIDE DEF t
    <3> QED BY <2>3, <3>4, <3>5, Zenon
  <2>6. CASE vote.kind = "skip"
    <3> DEFINE t == RecordSkip(st, s, {v})
    <3>1. ~ mine.skip /\ mine.finalize = Unknown
      BY <1>2, <2>6, Zenon DEF VoteResult
    <3>2. v \in Honest => s \in skipped[v]
      BY <2>6, Zenon DEF SignedBy
    <3>3. on_vote(st, v, vote) = check_thresholds_and_trigger(t, s)
      BY <1>2, <2>6, Zenon DEF on_vote
    <3>4. SameButLedger(st, t) /\ Ledger(t)
      <4>1. \A x \in {v} : /\ ~ st.votes[s][x].skip
                           /\ st.votes[s][x].finalize = Unknown
                           /\ x \in Honest => s \in skipped[x]
        BY <3>1, <3>2, Zenon
      <4> HIDE DEF s
      <4> QED BY <2>1, <4>1, RecordSkipKeeps, Zenon
    <3> HIDE DEF t
    <3> QED BY <2>3, <3>3, <3>4, Zenon
  <2> QED BY <2>4, <2>5, <2>6, VoteCases, Zenon
<1> QED BY <1>1, <1>2, Zenon

\* set_notarize_certificate.
LEMMA SetNotarizeCertKeeps ==
    ASSUME NEW st, FsmInv(st), VotingTypeOK, NEW c \in Candidate, NEW signers \in Quorum,
           Certifies(signers, [kind |-> "notarize", id |-> c])
    PROVE  FsmInv(set_notarize_certificate(st, c, signers))
<1> DEFINE s == slotOf[c]
           a == [st EXCEPT !.notar_cert[s] = c]
           new == {v \in signers : /\ st.votes[s][v].notarize = Unknown
                                   /\ st.votes[s][v].finalize \in {Unknown, c}}
           t == RecordNotarize(a, c, new)
<1>1. st \in FsmState /\ s \in Tracked /\ c \in BlockId /\ new \in SUBSET Validator
  BY Ids, Zenon DEF FsmInv, BlockId, Quorum
<1>2. SameCore(st, a)
  BY <1>1, SetSmallField, ZenonT(30)
<1> HIDE DEF a
<1>3. FsmInv(a) /\ a \in FsmState /\ Ledger(a) /\ a.votes = st.votes
  BY <1>2, CoreKeeps, Zenon DEF Keeps, FsmInv, SameCore, SameLedger
<1>4. \A v \in new : /\ a.votes[s][v].notarize = Unknown
                     /\ a.votes[s][v].finalize \in {Unknown, c}
                     /\ v \in Honest => c \in notarized[v]
  BY <1>3, Zenon DEF Certifies, SignedBy
<1> HIDE DEF new
<1>5. SameButLedger(a, t) /\ Ledger(t)
  BY <1>1, <1>3, <1>4, RecordNotarizeKeeps, Zenon
<1>6. set_notarize_certificate(st, c, signers) =
          IF st.notar_cert[s] # Unknown THEN st
          ELSE IF s < st.fnf THEN t ELSE on_block_notarized(t, c)
  BY Zenon DEF set_notarize_certificate, new, a
<1> HIDE DEF t
<1>7. FsmInv(t)
  BY <1>3, <1>5, RecordKeeps, Zenon DEF Keeps
<1>8. NotarCert(c)
  BY SignersCertify, ZenonT(30)
<1>9. FsmInv(on_block_notarized(t, c))
  BY <1>7, <1>8, OnNotarizedKeeps, Zenon DEF Keeps
<1> QED BY <1>6, <1>7, <1>9, Zenon

\* apply_final_cert_parent_chain_for_verified_certificate: a finalized block
\* is a base like any notarized one.
LEMMA FinalParentChainKeeps ==
    ASSUME NEW st, FsmInv(st), VotingTypeOK, NEW c \in Candidate, NotarCert(c),
           st.fnf <= slotOf[c]
    PROVE  Keeps(st, FinalParentChain(st, c))
<1> DEFINE s == slotOf[c]
           t == EnsureSlot(st, s, "verified")
           slot == [t.slots[s] EXCEPT !.observed_notar = c]
           o == [t EXCEPT !.slots[s] = slot]
           u == IF t.slots[s].observed_notar = Unknown THEN o ELSE t
           next == find_next_nonskipped_slot(u, s)
           w == EnsureSlot(u, next, "verified")
           x == add_available_base_max(w, next, c)
<1>1. s \in Slot /\ s \in Nat /\ s \in Tracked /\ st \in FsmState /\ st.fnf \in Nat
  BY Ids, Cursors, Zenon DEF FsmInv
<1>2. Keeps(st, t) /\ t \in FsmState
  BY <1>1, EnsureSlotKeeps, CoreKeeps, Zenon DEF Keeps, FsmInv
<1> HIDE DEF t
<1>3. t.slots[s] \in SlotState
  BY <1>1, <1>2, Zenon DEF FsmState
<1>4. /\ slot \in SlotState
      /\ slot.observed_notar = c
      /\ slot.pending_block = t.slots[s].pending_block
      /\ slot.voted_notar = t.slots[s].voted_notar
      /\ slot.available_base = t.slots[s].available_base
      /\ slot.voted_final = t.slots[s].voted_final
      /\ slot.voted_skip = t.slots[s].voted_skip
      /\ slot.skipped = t.slots[s].skipped
  BY <1>3, Zenon DEF SlotState, BlockId
<1> HIDE DEF slot
<1>5. /\ o \in FsmState /\ o.slots[s] = slot
      /\ \A y \in Tracked : y # s => o.slots[y] = t.slots[y]
      /\ o.fnf = t.fnf /\ o.outbox = t.outbox /\ o.skip_cert = t.skip_cert
      /\ o.skip_intervals = t.skip_intervals /\ SameLedger(t, o)
  <2>1. t \in FsmState /\ s \in Tracked /\ slot \in SlotState
    BY <1>1, <1>2, <1>4, Zenon
  <2> HIDE DEF s
  <2> QED BY <2>1, PutSlot
<1>6. [t EXCEPT !.slots[s].observed_notar = c] = o
  BY Zenon DEF slot
<1> HIDE DEF o
<1>7. FsmInv(t)
  BY <1>2, Zenon DEF Keeps
<1>8. FsmInv(o)
  <2>1. SameFlags(t, o)
    BY <1>4, <1>5, Zenon DEF SameFlags
  <2>2. OwnVotes(o)
    BY <1>5, <1>7, <2>1, OwnVotesKept, Zenon DEF FsmInv
  <2>3. Beliefs(t)
    BY <1>7, Zenon DEF FsmInv
  <2>4. Beliefs(o)
    <3>1. /\ o.slots[s].observed_notar = c /\ slotOf[c] = s
          /\ o.slots[s].pending_block = t.slots[s].pending_block
          /\ o.slots[s].available_base = t.slots[s].available_base
          /\ o.slots[s].skipped = t.slots[s].skipped
      BY <1>4, <1>5, ZenonT(30)
    <3>2. t.slots[s].pending_block # Unknown => slotOf[t.slots[s].pending_block] = s
      BY <1>1, <2>3, ZenonT(30) DEF Beliefs
    <3> HIDE DEF s
    <3> QED BY <1>1, <1>5, <2>3, <3>1, <3>2, BeliefsOfSlot, Zenon
  <2>5. Indexed(o) /\ Ledger(o)
    BY <1>5, <1>7, IndexKept, LedgerKept, Zenon DEF FsmInv
  <2> QED BY <1>5, <2>2, <2>4, <2>5, Zenon DEF FsmInv
<1>9. FsmInv(u) /\ u.fnf = st.fnf
  <2>1. o.fnf = st.fnf /\ t.fnf = st.fnf
    BY <1>2, <1>5, Zenon DEF Keeps
  <2> QED BY <1>7, <1>8, <2>1, Zenon
<1>10. FinalParentChain(st, c) = check_pending_blocks(x)
  BY <1>6, Zenon DEF FinalParentChain, t
<1> HIDE DEF u
<1>11. /\ next \in Cursor /\ s < next
       /\ \A r \in Slot : s < r /\ r < next => SkipCert(r)
  <2>1. \A r \in Slot : s < r => IndexedAt(u, r)
    BY <1>1, <1>9, Ids DEF FsmInv, Indexed
  <2>2. u.fnf <= s + 1 /\ u \in FsmState /\ Beliefs(u)
    BY <1>1, <1>9 DEF FsmInv
  <2> QED BY <1>1, <2>1, <2>2, NextNonSkipped, Zenon
<1> HIDE DEF next
<1>12. next \in Tracked /\ next \in Nat
  BY <1>11, Ids, ZenonT(30)
<1>13. BaseFor(c, next)
  BY <1>11, Ids, Zenon DEF BaseFor, SlotOf
<1>14. Keeps(u, w)
  BY <1>9, <1>12, EnsureSlotKeeps, CoreKeeps, Zenon DEF FsmInv
<1> HIDE DEF w
<1>15. Keeps(w, x)
  BY <1>12, <1>13, <1>14, AddBaseKeeps, Zenon DEF Keeps
<1> HIDE DEF x
<1>16. Keeps(x, check_pending_blocks(x))
  BY <1>15, CheckPendingKeeps, Zenon DEF Keeps
<1> QED BY <1>9, <1>10, <1>14, <1>15, <1>16, Zenon DEF Keeps

\* set_finalize_certificate.
LEMMA SetFinalizeCertKeeps ==
    ASSUME NEW st, FsmInv(st), VotingInv, NEW c \in Candidate, NEW signers \in Quorum,
           Certifies(signers, [kind |-> "finalize", id |-> c])
    PROVE  FsmInv(set_finalize_certificate(st, c, signers))
<1> DEFINE s == slotOf[c]
           a == [st EXCEPT !.final_cert[s] = c]
           new == NewFinalizers(st, c, signers)
           r == RecordFinalize(a, c, new)
           t == FinalParentChain(r, c)
           u == prune_skip_intervals_before([t EXCEPT !.fnf = s + 1], s + 1)
           f == advance_leader_window_on_progress_cursor(advance_progress_cursor(
                    maybe_jump_progress_cursor_after_finalization(u, s)))
<1>1. /\ st \in FsmState /\ s \in Slot /\ s \in Tracked /\ s \in Nat /\ st.fnf \in Nat
      /\ c \in BlockId /\ new \in SUBSET Validator /\ VotingTypeOK
  BY Ids, Cursors, Zenon DEF FsmInv, BlockId, Quorum, NewFinalizers, VotingInv
<1>2. SameCore(st, a)
  BY <1>1, SetSmallField, ZenonT(30)
<1> HIDE DEF a
<1>3. FsmInv(a) /\ a \in FsmState /\ Ledger(a) /\ a.votes = st.votes /\ a.fnf = st.fnf
  BY <1>2, CoreKeeps, Zenon DEF Keeps, FsmInv, SameCore, SameLedger
<1>4. \A v \in new : /\ a.votes[s][v].finalize = Unknown
                     /\ a.votes[s][v].notarize \in {Unknown, c}
                     /\ ~ a.votes[s][v].skip
                     /\ v \in Honest => c \in finalized[v]
  BY <1>3, Zenon DEF Certifies, SignedBy, NewFinalizers
<1> HIDE DEF new
<1>5. SameButLedger(a, r) /\ Ledger(r)
  BY <1>1, <1>3, <1>4, RecordFinalizeKeeps, Zenon
<1>6. set_finalize_certificate(st, c, signers) =
          IF s < st.fnf \/ st.final_cert[s] # Unknown THEN st
          ELSE IF st.fnp > s THEN u ELSE f
  BY Zenon DEF set_finalize_certificate, new, a
<1> HIDE DEF r
<1>7. FsmInv(r) /\ r.fnf = st.fnf
  BY <1>3, <1>5, RecordKeeps, Zenon DEF Keeps
<1>8. NotarCert(c)
  BY SignersCertify, FinalIsNotarized, ZenonT(30)
<1>9. CASE s < st.fnf
  BY <1>6, <1>9, Zenon
<1>10. CASE ~ (s < st.fnf)
  <2>1. st.fnf <= s
    BY <1>1, <1>10
  <2>2. FsmInv(t) /\ t.fnf = st.fnf
    BY <1>1, <1>7, <1>8, <2>1, FinalParentChainKeeps, Zenon DEF Keeps
  <2> HIDE DEF t
  <2>3. FsmInv(u)
    BY <1>1, <2>1, <2>2, FinalizeUpTo, Zenon
  <2> HIDE DEF u
  <2>4. FsmInv(f)
    BY <1>1, <2>3, AfterFinalKeeps, Zenon DEF Keeps
  <2> HIDE DEF f
  <2> QED BY <1>6, <2>3, <2>4, Zenon
<1> QED BY <1>9, <1>10, Zenon

\* set_skip_certificate.
LEMMA SetSkipCertKeeps ==
    ASSUME NEW st, FsmInv(st), VotingTypeOK, NEW s \in Slot, NEW signers \in Quorum,
           Certifies(signers, [kind |-> "skip", id |-> <<s, 0>>])
    PROVE  FsmInv(set_skip_certificate(st, s, signers))
<1> DEFINE k == [st EXCEPT !.skip_cert[s] = TRUE, !.skip_events = @ \cup {s}]
           new == {v \in signers : ~ st.votes[s][v].skip /\ st.votes[s][v].finalize = Unknown}
           r == RecordSkip(k, s, new)
           t == EnsureSlot(r, s, "bounded")
<1>1. s \in Nat /\ st.fnf \in Nat /\ new \in SUBSET Validator /\ SkipCert(s)
  BY Ids, Cursors, SignersCertify, Zenon DEF FsmInv, Quorum
<1>2. set_skip_certificate(st, s, signers) =
          IF s < st.fnf \/ st.skip_cert[s] THEN st ELSE SkipProgress(t, s)
  BY Zenon DEF set_skip_certificate
<1>3. CASE s < st.fnf
  BY <1>2, <1>3, Zenon
<1>4. CASE ~ (s < st.fnf)
  <2>1. st.fnf <= s
    BY <1>1, <1>4, SMTT(60)
  <2>2. SkipStored(k, s) /\ k.votes = st.votes
    BY <1>1, <2>1, StoreSkip, ZenonT(30)
  <2> HIDE DEF k
  <2>3. \A v \in new : /\ ~ k.votes[s][v].skip
                       /\ k.votes[s][v].finalize = Unknown
                       /\ v \in Honest => s \in skipped[v]
    BY <2>2, Zenon DEF Certifies, SignedBy
  <2> HIDE DEF new
  <2>4. SameButLedger(k, r) /\ Ledger(r)
    BY <1>1, <2>2, <2>3, RecordSkipKeeps, Zenon DEF SkipStored
  <2> HIDE DEF r
  <2>5. SkipStored(r, s) /\ r \in FsmState
    BY <2>2, <2>4, SkipStoredRecord, Zenon DEF SkipStored
  <2>6. SkipStored(t, s)
    BY <1>1, <2>5, EnsureSlotKeeps, SkipStoredCore, Zenon
  <2> HIDE DEF t
  <2>7. FsmInv(SkipProgress(t, s))
    BY <2>6, SkipProgressKeeps, Zenon DEF Keeps
  <2> QED BY <1>2, <2>7, Zenon
<1> QED BY <1>3, <1>4, Zenon

(***************************************************************************)
(* The invariant of the FSM while votes are put on the wire.               *)
(***************************************************************************)

\* What ties the FSM to the votes of everybody.
NodeInv == FsmInv(fsm) /\ VotingInv

\* No validator withdraws a vote: what is certified stays certified.
LEMMA CertsPersist ==
    ASSUME VotesGrow
    PROVE  /\ \A c \in Candidate : NotarCert(c) => NotarCert(c)'
           /\ \A c \in Candidate : Justified(c) => Justified(c)'
           /\ \A s \in Slot : SkipCert(s) => SkipCert(s)'
<1>1. ASSUME NEW s \in Slot, SkipCert(s) PROVE SkipCert(s)'
  BY <1>1, CertifiedMonotone, Zenon DEF VotesGrow, SkipCert
<1> QED BY <1>1, JustificationPersists, Zenon

\* What the FSM believes of the session stays true when votes are added.
LEMMA BeliefsPersist ==
    ASSUME VotesGrow, fsm' \in FsmState, Beliefs(fsm')
    PROVE  Beliefs(fsm)'
<1>1. ASSUME NEW s \in Tracked, fsm'.slots[s].observed_notar # Unknown
      PROVE  /\ slotOf[fsm'.slots[s].observed_notar] = s
             /\ NotarCert(fsm.slots[s].observed_notar)'
  <2>1. fsm'.slots[s].observed_notar \in Candidate
    BY <1>1 DEF FsmState, SlotState, BlockId
  <2>2. slotOf[fsm'.slots[s].observed_notar] = s /\ NotarCert(fsm'.slots[s].observed_notar)
    BY <1>1, Zenon DEF Beliefs
  <2> QED BY <2>1, <2>2, CertsPersist, Zenon DEF NotarCert
<1>2. ASSUME NEW s \in Tracked, fsm'.slots[s].available_base # Unknown
      PROVE  BaseFor(fsm.slots[s].available_base, s)'
  <2>1. BaseFor(fsm'.slots[s].available_base, s)
    BY <1>2, Zenon DEF Beliefs
  <2> QED BY <2>1, CertsPersist, Zenon DEF BaseFor, NotarCert
<1>3. ASSUME NEW s \in Tracked, fsm'.skip_cert[s] PROVE s \in Slot /\ SkipCert(s)'
  BY <1>3, CertsPersist, Zenon DEF Beliefs
<1>4. ASSUME NEW s \in Tracked
      PROVE  /\ fsm'.slots[s].pending_block # Unknown => slotOf[fsm'.slots[s].pending_block] = s
             /\ fsm'.slots[s].skipped /\ fsm'.fnf <= s => fsm'.skip_cert[s]
  BY Zenon DEF Beliefs
<1> QED BY <1>1, <1>2, <1>3, <1>4, Zenon DEF Beliefs

\* A recorded vote stays signed when votes are added.
LEMMA LedgerPersists ==
    ASSUME VotesGrow, Ledger(fsm')
    PROVE  Ledger(fsm)'
<1>1. RecordedAreSigned(fsm)'
  BY DEF Ledger, RecordedAreSigned, Signed, VotesGrow
<1>2. WeightsExact(fsm)'
  BY ZenonT(30) DEF Ledger, WeightsExact, Notarizers, Finalizers, Skippers, Progressers
<1> QED BY <1>1, <1>2, Zenon DEF Ledger

\* The parts of the invariant that do not speak of our own votes.
LEMMA OthersPersist ==
    ASSUME VotesGrow, fsm' \in FsmState, Beliefs(fsm'), Indexed(fsm'), Ledger(fsm')
    PROVE  (fsm \in FsmState)' /\ Beliefs(fsm)' /\ Indexed(fsm)' /\ Ledger(fsm)'
<1>1. Indexed(fsm)'
  BY Zenon DEF Indexed, IndexedAt
<1>2. (fsm \in FsmState)'
  BY Zenon
<1> QED BY <1>1, <1>2, BeliefsPersist, LedgerPersists, Zenon

\* While we send nothing, a method that keeps the invariant for the votes on
\* the wire now keeps it for those on the wire afterwards.
LEMMA FsmInvPersists ==
    ASSUME VotesGrow, FsmInv(fsm'), VotingTypeOK,
           notarized'[Me] = notarized[Me], finalized'[Me] = finalized[Me],
           skipped'[Me] = skipped[Me]
    PROVE  FsmInv(fsm)'
<1>1. OwnVotes(fsm')
  BY Zenon DEF FsmInv
<1>2. /\ MyNotarize(fsm)' = MyNotarize(fsm')
      /\ MyFinalize(fsm)' = MyFinalize(fsm')
      /\ MySkip(fsm)' = MySkip(fsm')
  BY Zenon DEF MyNotarize, MyFinalize, MySkip
<1>3. FlagsRemember(fsm)'
  BY <1>1, <1>2, Zenon DEF OwnVotes, FlagsRemember, Live
<1>4. VotesAgree(fsm)'
  BY <1>1, <1>2, Zenon DEF OwnVotes, VotesAgree
<1>5. OutboxIsDue(fsm)'
  BY <1>1, CertsPersist, ZenonT(30) DEF OwnVotes, OutboxIsDue
<1> QED BY <1>3, <1>4, <1>5, OthersPersist, Zenon DEF FsmInv, OwnVotes

\* A step of the session thread.
LEMMA RunKeeps ==
    ASSUME NodeInv, NEW st, FsmInv(st), Run(st)
    PROVE  NodeInv' /\ [VotingNext]_votingVars
<1>1. fsm' = process_simplex_events(st) /\ UNCHANGED votingVars
  BY Zenon DEF Run
<1>2. FsmInv(fsm')
  BY <1>1, EventsKeep, Zenon
<1>3. notarized' = notarized /\ finalized' = finalized /\ skipped' = skipped
  BY <1>1, Zenon DEF votingVars
<1>4. VotesGrow
  BY <1>3, Zenon DEF VotesGrow
<1>5. FsmInv(fsm)'
  BY <1>2, <1>3, <1>4, FsmInvPersists, Zenon DEF NodeInv, VotingInv
<1>6. [VotingNext]_votingVars
  BY <1>1, Zenon
<1> QED BY <1>5, <1>6, VotingInvStep, Zenon DEF NodeInv

(***************************************************************************)
(* The receiver thread.                                                    *)
(***************************************************************************)

\* A vote leaves the outbox.
LEMMA OutboxShrinks ==
    ASSUME FsmInv(fsm), NEW vote \in Vote, fsm' = [fsm EXCEPT !.outbox = @ \ {vote}]
    PROVE  /\ fsm' \in FsmState /\ Beliefs(fsm') /\ Indexed(fsm') /\ Ledger(fsm')
           /\ fsm'.fnf = fsm.fnf /\ fsm'.slots = fsm.slots
           /\ fsm'.outbox = fsm.outbox \ {vote}
<1>1. fsm \in FsmState /\ fsm.outbox \ {vote} \in SUBSET Vote
  BY Zenon DEF FsmInv, FsmState
<1>2. /\ fsm' \in FsmState /\ fsm'.outbox = fsm.outbox \ {vote} /\ fsm'.fnf = fsm.fnf
      /\ fsm'.slots = fsm.slots /\ fsm'.skip_cert = fsm.skip_cert
      /\ fsm'.skip_intervals = fsm.skip_intervals /\ SameLedger(fsm, fsm')
  BY <1>1, SetOutbox, Zenon
<1>3. Beliefs(fsm')
  BY <1>2 DEF FsmInv, Beliefs
<1>4. Indexed(fsm') /\ Ledger(fsm')
  BY <1>2, IndexKept, LedgerKept, ZenonT(30) DEF FsmInv
<1> QED BY <1>2, <1>3, <1>4, Zenon

\* DropVote: a vote that is given up constrains nothing.
LEMMA DropKeeps ==
    ASSUME NodeInv, NEW vote \in Vote, DropVote(vote)
    PROVE  NodeInv' /\ [VotingNext]_votingVars
<1>1. /\ fsm' = [fsm EXCEPT !.outbox = @ \ {vote}]
      /\ notarized' = notarized /\ finalized' = finalized /\ skipped' = skipped
      /\ UNCHANGED votingVars
  BY Zenon DEF DropVote, votingVars
<1>2. /\ fsm' \in FsmState /\ Beliefs(fsm') /\ Indexed(fsm') /\ Ledger(fsm')
      /\ fsm'.fnf = fsm.fnf /\ fsm'.slots = fsm.slots
      /\ fsm'.outbox = fsm.outbox \ {vote}
  BY <1>1, OutboxShrinks, Zenon DEF NodeInv
<1>3. VotesGrow
  BY <1>1, Zenon DEF VotesGrow
<1>4. /\ MyNotarize(fsm)' \subseteq MyNotarize(fsm)
      /\ MyFinalize(fsm)' \subseteq MyFinalize(fsm)
      /\ MySkip(fsm)' \subseteq MySkip(fsm)
  BY <1>1, <1>2, Zenon DEF MyNotarize, MyFinalize, MySkip
<1>5. FlagsRemember(fsm)'
  BY <1>2, <1>4 DEF NodeInv, FsmInv, OwnVotes, FlagsRemember, Live
<1>6. VotesAgree(fsm)'
  BY <1>4, Zenon DEF NodeInv, FsmInv, OwnVotes, VotesAgree
<1>7. OutboxIsDue(fsm)'
  BY <1>1, <1>2, <1>3, CertsPersist, ZenonT(30) DEF NodeInv, FsmInv, OwnVotes, OutboxIsDue
<1>8. FsmInv(fsm)'
  BY <1>2, <1>3, <1>5, <1>6, <1>7, OthersPersist, Zenon DEF FsmInv, OwnVotes
<1>9. [VotingNext]_votingVars
  BY <1>1, Zenon
<1> QED BY <1>8, <1>9, VotingInvStep, Zenon DEF NodeInv

\* SendVote: a vote moves from the outbox to the wire, within the rules.
LEMMA SendKeeps ==
    ASSUME NodeInv, NEW vote \in Vote, SendVote(vote)
    PROVE  NodeInv' /\ [VotingNext]_votingVars
<1> DEFINE MyVotes == /\ MyNotarize(fsm)' = MyNotarize(fsm)
                      /\ MyFinalize(fsm)' = MyFinalize(fsm)
                      /\ MySkip(fsm)' = MySkip(fsm)
           Fresh == \A c \in Candidate :
                       /\ [kind |-> "notarize", id |-> c] \in fsm'.outbox => c \notin notarized'[Me]
                       /\ [kind |-> "finalize", id |-> c] \in fsm'.outbox => c \notin finalized'[Me]
<1>1. vote \in fsm.outbox /\ fsm' = [fsm EXCEPT !.outbox = @ \ {vote}]
  BY Zenon DEF SendVote
<1>2. /\ fsm' \in FsmState /\ Beliefs(fsm') /\ Indexed(fsm') /\ Ledger(fsm')
      /\ fsm'.fnf = fsm.fnf /\ fsm'.slots = fsm.slots
      /\ fsm'.outbox = fsm.outbox \ {vote}
  BY <1>1, OutboxShrinks, Zenon DEF NodeInv
<1>3. /\ VotingTypeOK /\ VotesAgree(fsm) /\ OutboxIsDue(fsm) /\ FlagsRemember(fsm)
      /\ Me \in Honest
  BY NodeAssumption, Zenon DEF NodeInv, VotingInv, FsmInv, OwnVotes
<1>4. ASSUME vote.kind = "notarize", vote.id \in Candidate
      PROVE  VotingNext /\ MyVotes /\ Fresh
  <2> DEFINE c == vote.id
  <2>1. /\ notarized' = [notarized EXCEPT ![Me] = @ \cup {c}]
        /\ finalized' = finalized /\ skipped' = skipped
    BY <1>4, Zenon DEF SendVote
  <2>2. vote = [kind |-> "notarize", id |-> c]
    BY <1>4, Zenon DEF Vote
  <2>3. c \in MyNotarize(fsm) /\ Justified(c) /\ c \notin notarized[Me]
    BY <1>1, <1>3, <1>4, <2>2, ZenonT(30) DEF MyNotarize, OutboxIsDue
  <2>4. NoRival(Me, c)
    BY <2>3, <1>3, ZenonT(30) DEF VotesAgree, NoRival, MyNotarize, MyFinalize
  <2>5. Notarize(Me, c)
    BY <2>1, <2>3, <2>4, Zenon DEF Notarize
  <2>6. VotingNext
    BY <1>3, <1>4, <2>5, Zenon DEF VotingNext
  <2>7. notarized'[Me] = notarized[Me] \cup {c}
    BY <1>3, <2>1, Zenon DEF VotingTypeOK
  <2>8. \A x : /\ [kind |-> "notarize", id |-> x] \in fsm'.outbox <=>
                    [kind |-> "notarize", id |-> x] \in fsm.outbox /\ x # c
               /\ [kind |-> "finalize", id |-> x] \in fsm'.outbox <=>
                    [kind |-> "finalize", id |-> x] \in fsm.outbox
               /\ [kind |-> "skip", id |-> x] \in fsm'.outbox <=>
                    [kind |-> "skip", id |-> x] \in fsm.outbox
    BY <1>2, <2>2, VoteIdentity
  <2>9. MyVotes
    BY <1>1, <1>4, <2>1, <2>2, <2>7, <2>8, SMTT(60) DEF MyNotarize, MyFinalize, MySkip
  <2>10. Fresh
    BY <1>3, <2>1, <2>7, <2>8, ZenonT(30) DEF OutboxIsDue
  <2> QED BY <2>6, <2>9, <2>10, Zenon
<1>5. ASSUME vote.kind = "finalize", vote.id \in Candidate
      PROVE  VotingNext /\ MyVotes /\ Fresh
  <2> DEFINE c == vote.id
  <2>1. /\ finalized' = [finalized EXCEPT ![Me] = @ \cup {c}]
        /\ notarized' = notarized /\ skipped' = skipped
    BY <1>5, Zenon DEF SendVote
  <2>2. vote = [kind |-> "finalize", id |-> c]
    BY <1>5, Zenon DEF Vote
  <2>3. c \in MyFinalize(fsm) /\ NotarCert(c) /\ c \notin finalized[Me]
    BY <1>1, <1>3, <1>5, <2>2, ZenonT(30) DEF MyFinalize, OutboxIsDue
  <2>4. NoRival(Me, c) /\ slotOf[c] \notin skipped[Me]
    BY <2>3, <1>3, ZenonT(30) DEF VotesAgree, NoRival, MyNotarize, MyFinalize, MySkip
  <2>5. Finalize(Me, c)
    BY <2>1, <2>3, <2>4, Zenon DEF Finalize
  <2>6. VotingNext
    BY <1>3, <1>5, <2>5, Zenon DEF VotingNext
  <2>7. finalized'[Me] = finalized[Me] \cup {c}
    BY <1>3, <2>1, Zenon DEF VotingTypeOK
  <2>8. \A x : /\ [kind |-> "notarize", id |-> x] \in fsm'.outbox <=>
                    [kind |-> "notarize", id |-> x] \in fsm.outbox
               /\ [kind |-> "finalize", id |-> x] \in fsm'.outbox <=>
                    [kind |-> "finalize", id |-> x] \in fsm.outbox /\ x # c
               /\ [kind |-> "skip", id |-> x] \in fsm'.outbox <=>
                    [kind |-> "skip", id |-> x] \in fsm.outbox
    BY <1>2, <2>2, VoteIdentity
  <2>9. MyVotes
    BY <1>1, <1>5, <2>1, <2>2, <2>7, <2>8, Zenon DEF MyNotarize, MyFinalize, MySkip
  <2>10. Fresh
    BY <1>3, <2>1, <2>7, <2>8, ZenonT(30) DEF OutboxIsDue
  <2> QED BY <2>6, <2>9, <2>10, Zenon
<1>6. ASSUME vote.kind = "skip", \E s \in Tracked : vote.id = <<s, 0>>
      PROVE  [VotingNext]_votingVars /\ MyVotes /\ Fresh
  <2>1. PICK s \in Tracked : vote.id = <<s, 0>>
    BY <1>6, Zenon
  <2>2. /\ skipped' = [skipped EXCEPT ![Me] = @ \cup {s}]
        /\ notarized' = notarized /\ finalized' = finalized
    BY <1>6, <2>1 DEF SendVote
  <2>3. vote = [kind |-> "skip", id |-> <<s, 0>>]
    BY <1>6, <2>1, Zenon DEF Vote
  <2>4. s \in MySkip(fsm)
    BY <1>1, <2>3, Zenon DEF MySkip
  <2>5. s \in Slot /\ \A c \in finalized[Me] : slotOf[c] # s
    BY <1>3, <2>4, ZenonT(30) DEF VotesAgree, MyFinalize
  <2>6. skipped'[Me] = skipped[Me] \cup {s}
    BY <1>3, <2>2, Zenon DEF VotingTypeOK
  <2>7. [VotingNext]_votingVars
    <3>1. CASE s \in skipped[Me]
      BY <1>3, <2>2, <3>1, Zenon DEF VotingTypeOK, votingVars
    <3>2. CASE s \notin skipped[Me]
      <4>1. Skip(Me, s)
        BY <2>2, <2>5, <3>2, Zenon DEF Skip
      <4> QED BY <1>3, <2>5, <4>1, Zenon DEF VotingNext
    <3> QED BY <3>1, <3>2, Zenon
  <2>8. /\ \A x : /\ [kind |-> "notarize", id |-> x] \in fsm'.outbox <=>
                       [kind |-> "notarize", id |-> x] \in fsm.outbox
                  /\ [kind |-> "finalize", id |-> x] \in fsm'.outbox <=>
                       [kind |-> "finalize", id |-> x] \in fsm.outbox
        /\ \A x : [kind |-> "skip", id |-> <<x, 0>>] \in fsm'.outbox <=>
                       [kind |-> "skip", id |-> <<x, 0>>] \in fsm.outbox /\ x # s
    <3>1. ASSUME NEW x, [kind |-> "skip", id |-> <<x, 0>>] = [kind |-> "skip", id |-> <<s, 0>>]
          PROVE  x = s
      <4>1. <<x, 0>> = <<s, 0>>
        BY <3>1, VoteIdentity, Zenon
      <4> QED BY <4>1, Zenon
    <3> QED BY <1>2, <2>3, <3>1, VoteIdentity, Zenon
  <2>9. MyVotes
    BY <1>1, <2>2, <2>3, <2>6, <2>8, Zenon DEF MyNotarize, MyFinalize, MySkip
  <2>10. Fresh
    BY <1>3, <2>2, <2>8, ZenonT(30) DEF OutboxIsDue
  <2> QED BY <2>7, <2>9, <2>10, Zenon
<1>7. [VotingNext]_votingVars /\ MyVotes /\ Fresh
  BY <1>4, <1>5, <1>6, VoteCases, Zenon
<1>8. VotesGrow
  BY <1>3, <1>7, StepGrows, Zenon
<1>9. FlagsRemember(fsm)'
  BY <1>2, <1>3, <1>7, SMTT(60) DEF FlagsRemember, Live
<1>10. VotesAgree(fsm)'
  BY <1>3, <1>7, Zenon DEF VotesAgree
<1>11. OutboxIsDue(fsm)'
  BY <1>2, <1>3, <1>7, <1>8, CertsPersist, ZenonT(30) DEF OutboxIsDue
<1>12. FsmInv(fsm)'
  BY <1>2, <1>8, <1>9, <1>10, <1>11, OthersPersist, Zenon DEF FsmInv, OwnVotes
<1> QED BY <1>7, <1>12, VotingInvStep, Zenon DEF NodeInv

\* OtherVotes: the others vote within the rules.
LEMMA OthersKeep ==
    ASSUME NodeInv, OtherVotes
    PROVE  NodeInv' /\ [VotingNext]_votingVars
<1>1. PICK v \in Honest \ {Me} : \/ \E c \in Candidate : Notarize(v, c) \/ Finalize(v, c)
                                 \/ \E s \in Slot : Skip(v, s)
  BY Zenon DEF OtherVotes
<1>2. VotingNext /\ fsm' = fsm
  BY <1>1, Zenon DEF VotingNext, OtherVotes
<1>3. VotingTypeOK /\ FsmInv(fsm)
  BY Zenon DEF NodeInv, VotingInv
<1>4. /\ notarized'[Me] = notarized[Me] /\ finalized'[Me] = finalized[Me]
      /\ skipped'[Me] = skipped[Me]
  BY <1>1, <1>3, NodeAssumption, Zenon DEF VotingTypeOK, Notarize, Finalize, Skip
<1>5. VotesGrow
  BY <1>2, <1>3, StepGrows, Zenon
<1>6. FsmInv(fsm')
  BY <1>2, <1>3, Zenon
<1>7. FsmInv(fsm)'
  BY <1>3, <1>4, <1>5, <1>6, FsmInvPersists, Zenon
<1> QED BY <1>2, <1>7, VotingInvStep, Zenon DEF NodeInv

(***************************************************************************)
(* Every step.                                                             *)
(***************************************************************************)

\* SimplexState::new, and a vote book without votes.
LEMMA NewStateInv ==
    ASSUME VotingInit
    PROVE  FsmInv(NewState)
<1> DEFINE first == [NewSlot EXCEPT !.available_base = Genesis]
           slots == [s \in Tracked |-> IF s = 0 THEN first ELSE NewSlot]
           votes == [s \in Tracked |-> [v \in Validator |-> NoVotes]]
<1>1. NewSlot \in SlotState /\ first \in SlotState /\ NoVotes \in SlotVotes
  BY ZenonT(30) DEF NewSlot, SlotState, Base, BlockId, NoVotes, SlotVotes
<1>2. /\ first.available_base = Genesis /\ first.pending_block = Unknown
      /\ first.voted_notar = Unknown /\ first.voted_skip = FALSE /\ first.voted_final = FALSE
      /\ first.observed_notar = Unknown /\ first.skipped = FALSE
  BY Zenon DEF NewSlot
<1> HIDE DEF first
<1>3. slots \in [Tracked -> SlotState] /\ votes \in [Tracked -> [Validator -> SlotVotes]]
  BY <1>1, Zenon
<1>4. \A s \in Tracked : /\ s = 0 => slots[s] = first
                         /\ s # 0 => slots[s] = NewSlot
                         /\ \A v \in Validator : votes[s][v] = NoVotes
  BY Zenon
<1>5. /\ NewState.slots = slots /\ NewState.votes = votes /\ NewState.fnf = 0
      /\ NewState.notarize_weight = [c \in Candidate |-> 0]
      /\ NewState.finalize_weight = [c \in Candidate |-> 0]
      /\ NewState.skip_weight = [s \in Tracked |-> 0]
      /\ NewState.notarize_or_skip_weight = [s \in Tracked |-> 0]
      /\ NewState.skip_cert = [s \in Tracked |-> FALSE]
      /\ NewState.outbox = {} /\ NewState.skip_intervals = {}
  BY Zenon DEF NewState, first
<1> HIDE DEF slots, votes
<1>6. NewState \in FsmState
  <2>1. 0 \in Cursor /\ "none" \in PanicReason /\ Unknown \in BlockId
    BY Ids DEF Cursor, PanicReason, BlockId
  <2>2. NewState =
          [fnf |-> 0, fnp |-> 0, window |-> 0, w_lo |-> 0, w_hi |-> 1,
           slots |-> slots, votes |-> votes,
           notarize_weight |-> [c \in Candidate |-> 0],
           finalize_weight |-> [c \in Candidate |-> 0],
           skip_weight |-> [s \in Tracked |-> 0],
           notarize_or_skip_weight |-> [s \in Tracked |-> 0],
           notar_cert |-> [s \in Tracked |-> Unknown],
           final_cert |-> [s \in Tracked |-> Unknown],
           skip_cert |-> [s \in Tracked |-> FALSE],
           pending_slots |-> {}, skip_intervals |-> {}, skip_slot |-> 0,
           armed |-> FALSE, replay |-> FALSE, outbox |-> {}, skip_events |-> {},
           panic |-> "none"]
    BY Zenon DEF NewState, slots, votes, first
  <2> QED BY <1>3, <2>1, <2>2, Zenon DEF FsmState
<1>7. /\ notarized[Me] = {} /\ finalized[Me] = {} /\ skipped[Me] = {}
  BY NodeAssumption, Zenon DEF VotingInit
<1>8. MyNotarize(NewState) = {} /\ MyFinalize(NewState) = {} /\ MySkip(NewState) = {}
  BY <1>5, <1>7, Zenon DEF MyNotarize, MyFinalize, MySkip
<1>9. OwnVotes(NewState)
  <2>1. \A s \in Tracked : ~ slots[s].voted_final
    BY <1>2, <1>4 DEF NewSlot
  <2>2. FlagsRemember(NewState)
    BY <1>5, <1>8, <2>1, Zenon DEF FlagsRemember
  <2>3. VotesAgree(NewState)
    BY <1>8, Zenon DEF VotesAgree
  <2>4. OutboxIsDue(NewState)
    BY <1>5, Zenon DEF OutboxIsDue
  <2> QED BY <2>2, <2>3, <2>4, Zenon DEF OwnVotes
<1>10. Beliefs(NewState)
  <2>1. BaseFor(Genesis, 0)
    BY Ids DEF BaseFor
  <2>2. ASSUME NEW s \in Tracked
        PROVE  /\ slots[s].observed_notar = Unknown /\ slots[s].pending_block = Unknown
               /\ ~ slots[s].skipped
               /\ slots[s].available_base # Unknown => BaseFor(slots[s].available_base, s)
    <3>1. CASE s = 0
      BY <1>2, <1>4, <2>1, <3>1, Zenon
    <3>2. CASE s # 0
      BY <1>4, <3>2 DEF NewSlot
    <3> QED BY <3>1, <3>2, Zenon
  <2> QED BY <1>5, <2>2, Zenon DEF Beliefs
<1>11. Indexed(NewState)
  BY <1>5, Ids, Zenon DEF Indexed, IndexedAt
<1>12. Ledger(NewState)
  <2>1. RecordedAreSigned(NewState)
    BY <1>4, <1>5 DEF RecordedAreSigned, Signed, NoVotes
  <2>2. ASSUME NEW c \in Candidate
        PROVE  Notarizers(NewState, c) = {} /\ Finalizers(NewState, c) = {}
    BY <1>4, <1>5, Ids DEF Notarizers, Finalizers, NoVotes
  <2>3. ASSUME NEW s \in Tracked
        PROVE  Skippers(NewState, s) = {} /\ Progressers(NewState, s) = {}
    BY <1>4, <1>5 DEF Skippers, Progressers, NoVotes
  <2>4. WeightsExact(NewState)
    <3>1. WeightOf({}) = 0
      BY WeightIsMeasure, Zenon
    <3> QED BY <1>5, <2>2, <2>3, <3>1, ZenonT(30) DEF WeightsExact
  <2> QED BY <2>1, <2>4, Zenon DEF Ledger
<1> QED BY <1>6, <1>9, <1>10, <1>11, <1>12, Zenon DEF FsmInv

\* The FSM starts with its invariant.
LEMMA NodeInvInit == NodeInit => NodeInv
<1> SUFFICES ASSUME NodeInit PROVE NodeInv
  BY Zenon
<1>1. FsmInv(NewState)
  BY NewStateInv, Zenon DEF NodeInit
<1>2. FsmInv(reset_timeouts_on_start(NewState))
  BY <1>1, TimeoutsKeep, CoreKeeps, Zenon DEF Keeps, FsmInv, reset_timeouts_on_start
<1> QED BY <1>2, VotingInvInit, Zenon DEF NodeInit, NodeInv

\* Whatever a step does, the FSM keeps its invariant, and what it puts on the
\* wire is a step of the voting rules.
LEMMA NodeStep ==
    ASSUME NodeInv, [NodeNext]_vars
    PROVE  NodeInv' /\ [VotingNext]_votingVars
<1>1. FsmInv(fsm) /\ VotingInv /\ VotingTypeOK
  BY Zenon DEF NodeInv, VotingInv
<1>2. ASSUME NEW u \in DirectVoters, NEW vote \in Vote, vote.id[1] <= LastSlot, RecvVote(u, vote)
      PROVE  NodeInv' /\ [VotingNext]_votingVars
  <2>1. u \in Validator /\ SignedBy(u, vote) /\ Run(on_vote(fsm, u, vote))
    BY <1>2, NodeAssumption, Zenon DEF RecvVote
  <2>2. FsmInv(on_vote(fsm, u, vote))
    BY <1>1, <1>2, <2>1, OnVoteKeeps, Zenon
  <2> QED BY <2>1, <2>2, RunKeeps, Zenon
<1>3. ASSUME NEW c \in Candidate, NEW signers \in CertSigners, RecvNotarizeCert(c, signers)
      PROVE  NodeInv' /\ [VotingNext]_votingVars
  <2>1. /\ signers \in Quorum /\ Certifies(signers, [kind |-> "notarize", id |-> c])
        /\ Run(set_notarize_certificate(fsm, c, signers))
    BY <1>3, NodeAssumption, Zenon DEF RecvNotarizeCert
  <2>2. FsmInv(set_notarize_certificate(fsm, c, signers))
    BY <1>1, <2>1, SetNotarizeCertKeeps, Zenon
  <2> QED BY <2>1, <2>2, RunKeeps, Zenon
<1>4. ASSUME NEW c \in Candidate, NEW signers \in CertSigners, RecvFinalizeCert(c, signers)
      PROVE  NodeInv' /\ [VotingNext]_votingVars
  <2>1. /\ signers \in Quorum /\ Certifies(signers, [kind |-> "finalize", id |-> c])
        /\ Run(set_finalize_certificate(fsm, c, signers))
    BY <1>4, NodeAssumption, Zenon DEF RecvFinalizeCert
  <2>2. FsmInv(set_finalize_certificate(fsm, c, signers))
    BY <1>1, <2>1, SetFinalizeCertKeeps, Zenon
  <2> QED BY <2>1, <2>2, RunKeeps, Zenon
<1>5. ASSUME NEW s \in Slot, NEW signers \in CertSigners, RecvSkipCert(s, signers)
      PROVE  NodeInv' /\ [VotingNext]_votingVars
  <2>1. /\ signers \in Quorum /\ Certifies(signers, [kind |-> "skip", id |-> <<s, 0>>])
        /\ Run(set_skip_certificate(fsm, s, signers))
    BY <1>5, NodeAssumption, Zenon DEF RecvSkipCert
  <2>2. FsmInv(set_skip_certificate(fsm, s, signers))
    BY <1>1, <2>1, SetSkipCertKeeps, Zenon
  <2> QED BY <2>1, <2>2, RunKeeps, Zenon
<1>6. ASSUME NEW c \in Candidate, RecvCandidate(c)
      PROVE  NodeInv' /\ [VotingNext]_votingVars
  <2>1. FsmInv(on_candidate(fsm, c))
    BY <1>1, OnCandidateKeeps, Zenon DEF Keeps
  <2> QED BY <1>6, <2>1, RunKeeps, Zenon DEF RecvCandidate
<1>7. ASSUME Timeout
      PROVE  NodeInv' /\ [VotingNext]_votingVars
  <2>1. FsmInv(process_timeouts(fsm))
    BY <1>1, <1>7, TimeoutKeeps, Zenon DEF Timeout
  <2> QED BY <1>7, <2>1, RunKeeps, Zenon DEF Timeout
<1>8. ASSUME UNCHANGED vars
      PROVE  NodeInv' /\ [VotingNext]_votingVars
  <2>1. /\ fsm' = fsm /\ notarized' = notarized /\ finalized' = finalized
        /\ skipped' = skipped /\ UNCHANGED votingVars
    BY <1>8, Zenon DEF vars, votingVars
  <2>2. VotesGrow /\ FsmInv(fsm')
    BY <1>1, <2>1, Zenon DEF VotesGrow
  <2>3. FsmInv(fsm)'
    BY <1>1, <2>1, <2>2, FsmInvPersists, Zenon
  <2>4. [VotingNext]_votingVars
    BY <2>1, Zenon
  <2> QED BY <1>1, <2>3, <2>4, VotingInvStep, Zenon DEF NodeInv
<1> QED
  BY <1>2, <1>3, <1>4, <1>5, <1>6, <1>7, <1>8, OthersKeep, SendKeeps, DropKeeps, Zenon DEF NodeNext

\* The invariant of the FSM holds in every reachable state.
THEOREM NodeInvariant == NodeSpec => []NodeInv
<1>1. NodeInv /\ [NodeNext]_vars => NodeInv'
  BY NodeStep, Zenon
<1> QED
  BY NodeInvInit, <1>1, PTL DEF NodeSpec

(***************************************************************************)
(* What the FSM guarantees.                                                *)
(***************************************************************************)

\* The record of the FSM stays sound, whatever it receives in whatever order.
THEOREM FsmStaysSound == NodeSpec => []FsmIsSound
<1>1. NodeInv => FsmIsSound
  BY Zenon DEF NodeInv, FsmIsSound
<1> QED BY NodeInvariant, <1>1, PTL

\* try_notar, try_final and try_skip_window implement the abstract voting
\* rules, whatever the FSM receives in whatever order.
THEOREM NodeObeysVotingRules == NodeSpec => VotingRules
<1>1. NodeInit => VotingInit
  BY Zenon DEF NodeInit
<1>2. NodeInv /\ [NodeNext]_vars => [VotingNext]_votingVars
  BY NodeStep, Zenon
<1> QED
  BY NodeInvariant, <1>1, <1>2, PTL DEF NodeSpec, VotingRules, VotingSpec

\* Agreement holds among validators one of which runs the FSM as it is.
THEOREM NodeAgreement == NodeSpec => []Consistency
BY NodeObeysVotingRules, Agreement, PTL DEF VotingRules

\* check_invariants holds whatever votes and certificates arrive.
THEOREM RecordedVotesNeverConflict == NodeSpec => []check_invariants
<1>1. NodeInv => check_invariants
  BY SMTT(60) DEF NodeInv, FsmInv, Ledger, RecordedAreSigned, Signed, check_invariants
<1> QED BY NodeInvariant, <1>1, PTL

\* The accumulators that decide on certificates equal the recorded weights.
THEOREM WeightsAreExact == NodeSpec => []WeightsMatchVotes
<1>1. NodeInv => WeightsMatchVotes
  BY ZenonT(30) DEF NodeInv, FsmInv, Ledger, WeightsExact, WeightsMatchVotes,
         Notarizers, Finalizers, Skippers, Progressers
<1> QED BY NodeInvariant, <1>1, PTL

\* on_vote never reports an honest validator for misbehavior.
THEOREM HonestAreNeverAccused == NodeSpec => []HonestNotAccused
<1>1. NodeInv => HonestNotAccused
  <2> SUFFICES ASSUME NodeInv, NEW u \in Honest, NEW vote \in Vote, SignedBy(u, vote),
                      VoteResult(fsm, u, vote) = "Misbehavior"
               PROVE  FALSE
    BY Zenon DEF HonestNotAccused
  <2> DEFINE s == vote.id[1]
             mine == fsm.votes[s][u]
  <2>1. /\ OneBlockPerSlot /\ FinalizeExcludesSkip /\ u \in Validator
        /\ RecordedAreSigned(fsm) /\ fsm \in FsmState
    BY Zenon DEF NodeInv, VotingInv, FsmInv, Ledger, Honest
  <2>2. s \in Tracked /\ (vote.id \in Candidate => slotOf[vote.id] = s)
    <3>1. CASE vote.id \in Candidate
      BY <3>1, Ids, Zenon
    <3>2. CASE vote.id \notin Candidate
      <4>1. PICK r \in Tracked : vote.id = <<r, 0>>
        BY <3>2, VoteCases, Zenon
      <4> QED BY <3>2, <4>1
    <3> QED BY <3>1, <3>2, Zenon
  <2>3. Signed(mine, s, u)
    BY <2>1, <2>2, Zenon DEF RecordedAreSigned
  <2>4. ASSUME NEW c \in Candidate, slotOf[c] = s, c \in notarized[u] \cup finalized[u]
        PROVE  mine.notarize \in {Unknown, c} /\ mine.finalize \in {Unknown, c}
    <3> HIDE DEF mine, s
    <3>1. \A d \in notarized[u] \cup finalized[u] : slotOf[d] = s => d = c
      BY <2>1, <2>4, Zenon DEF OneBlockPerSlot
    <3> QED BY <2>3, <3>1, Zenon DEF Signed
  <2>5. CASE vote.kind = "notarize" /\ vote.id \in Candidate
    <3>1. vote.id \in notarized[u]
      BY <2>5, Zenon DEF SignedBy
    <3>2. mine.notarize \in {Unknown, vote.id} /\ mine.finalize \in {Unknown, vote.id}
      BY <2>2, <2>5, <2>4, <3>1, Zenon
    <3> QED BY <2>5, <3>2, ZenonT(30) DEF VoteResult
  <2>6. CASE vote.kind = "finalize" /\ vote.id \in Candidate
    <3>1. vote.id \in finalized[u]
      BY <2>6, Zenon DEF SignedBy
    <3>2. mine.notarize \in {Unknown, vote.id} /\ mine.finalize \in {Unknown, vote.id}
      BY <2>2, <2>6, <2>4, <3>1, Zenon
    <3>3. ~ mine.skip
      BY <2>1, <2>2, <2>3, <2>6, <3>1, ZenonT(30) DEF Signed, FinalizeExcludesSkip
    <3> QED BY <2>6, <3>2, <3>3, Zenon DEF VoteResult
  <2>7. CASE vote.kind = "skip"
    <3>1. s \in skipped[u]
      BY <2>7, Zenon DEF SignedBy
    <3>2. mine.finalize = Unknown
      BY <2>1, <2>2, <2>3, <3>1, ZenonT(30) DEF Signed, FinalizeExcludesSkip
    <3> QED BY <2>7, <3>2, Zenon DEF VoteResult
  <2> QED BY <2>5, <2>6, <2>7, VoteCases, Zenon
<1> QED BY NodeInvariant, <1>1, PTL
=============================================================================
