------------------------ MODULE SimplexVoting_proofs ------------------------
(***************************************************************************)
(* Safety of the Simplex voting rules for every set of validators, every   *)
(* distribution of weights with less than a third of it faulty, and every  *)
(* tree of candidates; and the accounting of the votes that a node records.*)
(***************************************************************************)
EXTENDS SimplexInvariant, WellFoundedInduction, TLAPS

(***************************************************************************)
(* Thresholds and quorums.                                                 *)
(***************************************************************************)

\* utils.rs threshold_66 and threshold_33: two weights that reach
\* threshold_66 of a total overlap in at least threshold_33 of it.
LEMMA ThresholdOverlap ==
    ASSUME NEW total \in Nat, NEW w \in Nat, NEW x \in Nat,
           w >= threshold_66(total), x >= threshold_66(total), total > 0
    PROVE  w + x - total >= threshold_33(total)
BY DEF threshold_66, threshold_33

\* A larger set of validators weighs at least as much (get_node_weight is
\* never negative).
LEMMA WeightMonotone ==
    ASSUME NEW S \in SUBSET Validator, NEW T \in SUBSET Validator, S \subseteq T
    PROVE  WeightOf(S) <= WeightOf(T)
<1>1. S \cup (T \ S) = T /\ S \cap (T \ S) = {} /\ T \ S \in SUBSET Validator
  BY Zenon
<1>2. WeightOf(S \cup (T \ S)) + WeightOf(S \cap (T \ S)) = WeightOf(S) + WeightOf(T \ S)
  BY <1>1, WeightIsMeasure, ZenonT(30)
<1>3. WeightOf(S) \in Nat /\ WeightOf(T) \in Nat /\ WeightOf(T \ S) \in Nat
  BY <1>1, WeightIsMeasure, Zenon
<1> QED
  BY <1>1, <1>2, <1>3, WeightIsMeasure

\* Two sets of voters that a certificate can be built from share an honest
\* validator: the reason threshold_66 is what check_thresholds_and_trigger
\* compares every vote weight with.
LEMMA QuorumsShareHonest ==
    ASSUME NEW A \in SUBSET Honest, NEW B \in SUBSET Honest,
           Certified(A), Certified(B)
    PROVE  \E v \in Honest : v \in A /\ v \in B
<1> DEFINE Q == A \cup Faulty
           R == B \cup Faulty
<1>1. /\ Q \in SUBSET Validator /\ WeightOf(Q) >= threshold_66(TotalWeight)
      /\ R \in SUBSET Validator /\ WeightOf(R) >= threshold_66(TotalWeight)
  BY Zenon DEF Certified, Quorum
<1>2. /\ WeightOf(Q) \in Nat /\ WeightOf(R) \in Nat /\ TotalWeight \in Nat
      /\ WeightOf(Q \cup R) \in Nat /\ WeightOf(Q \cap R) \in Nat
      /\ WeightOf(Faulty) \in Nat
  BY <1>1, WeightIsMeasure, FaultyBelowThird, Zenon DEF TotalWeight
<1>3. TotalWeight > 0
  BY <1>2, FaultyBelowThird DEF threshold_33
<1>4. WeightOf(Q \cup R) <= TotalWeight
  BY <1>1, WeightMonotone, Zenon DEF TotalWeight
<1>5. WeightOf(Q \cup R) + WeightOf(Q \cap R) = WeightOf(Q) + WeightOf(R)
  BY <1>1, WeightIsMeasure, Zenon
<1>6. threshold_33(TotalWeight) \in Nat
  BY <1>2 DEF threshold_33
<1>7. WeightOf(Q) + WeightOf(R) - TotalWeight >= threshold_33(TotalWeight)
  BY <1>1, <1>2, <1>3, ThresholdOverlap, Zenon
<1>8. WeightOf(Q \cap R) > WeightOf(Faulty)
  BY <1>2, <1>4, <1>5, <1>6, <1>7, FaultyBelowThird
<1>9. ~ (Q \cap R \subseteq Faulty)
  BY <1>1, <1>2, <1>8, WeightMonotone, FaultyBelowThird
<1> QED
  BY <1>9, Zenon DEF Honest

(***************************************************************************)
(* The inductive invariant: each honest validator keeps its own rules, and *)
(* every vote stays justified by certificates that exist.                  *)
(***************************************************************************)

OneBlockPerSlot ==
    \A v \in Honest : \A c, d \in notarized[v] \cup finalized[v] : slotOf[c] = slotOf[d] => c = d

FinalizeExcludesSkip ==
    \A v \in Honest : \A c \in finalized[v] : slotOf[c] \notin skipped[v]

NotarizeIsJustified ==
    \A v \in Honest : \A c \in notarized[v] : Justified(c)

FinalizeIsNotarized ==
    \A v \in Honest : \A c \in finalized[v] : NotarCert(c)

VotingInv ==
    /\ VotingTypeOK
    /\ OneBlockPerSlot
    /\ FinalizeExcludesSkip
    /\ NotarizeIsJustified
    /\ FinalizeIsNotarized

\* A certificate outlives every later vote.
LEMMA CertifiedMonotone ==
    ASSUME NEW A \in SUBSET Honest, NEW B \in SUBSET Honest, A \subseteq B, Certified(A)
    PROVE  Certified(B)
<1>1. /\ A \cup Faulty \in SUBSET Validator
      /\ B \cup Faulty \in SUBSET Validator
      /\ A \cup Faulty \subseteq B \cup Faulty
  BY FaultyBelowThird, Zenon DEF Honest
<1>2. WeightOf(A \cup Faulty) <= WeightOf(B \cup Faulty)
  BY <1>1, WeightMonotone, Zenon
<1>3. WeightOf(A \cup Faulty) >= threshold_66(TotalWeight)
  BY Zenon DEF Certified, Quorum
<1>4. /\ WeightOf(A \cup Faulty) \in Nat /\ WeightOf(B \cup Faulty) \in Nat
      /\ threshold_66(TotalWeight) \in Nat
  BY <1>1, WeightIsMeasure DEF threshold_66, TotalWeight
<1> QED
  BY <1>1, <1>2, <1>3, <1>4 DEF Certified, Quorum

\* Votes are never withdrawn.
VotesGrow ==
    \A v \in Honest : /\ notarized[v] \subseteq notarized'[v]
                      /\ finalized[v] \subseteq finalized'[v]
                      /\ skipped[v] \subseteq skipped'[v]

\* No action of the FSM withdraws a vote.
LEMMA StepGrows ==
    ASSUME VotingTypeOK, [VotingNext]_votingVars
    PROVE  VotesGrow
BY Zenon DEF VotingTypeOK, VotingNext, votingVars, Notarize, Finalize, Skip, VotesGrow

\* What justified a vote keeps justifying it.
LEMMA JustificationPersists ==
    ASSUME VotesGrow, NEW c \in Candidate
    PROVE  /\ NotarCert(c) => NotarCert(c)'
           /\ Justified(c) => Justified(c)'
<1>1. ASSUME NEW d \in Candidate, NotarCert(d) PROVE NotarCert(d)'
  BY <1>1, CertifiedMonotone, Zenon DEF VotesGrow, NotarCert
<1>2. ASSUME NEW s \in Slot, SkipCert(s) PROVE SkipCert(s)'
  BY <1>2, CertifiedMonotone, Zenon DEF VotesGrow, SkipCert
<1>3. parent[c] \in Candidate \cup {Genesis}
  BY CandidateAssumption, Zenon
<1> QED
  BY <1>1, <1>2, <1>3, Zenon DEF Justified

\* The type invariant is inductive.
LEMMA TypeStep ==
    ASSUME VotingTypeOK, [VotingNext]_votingVars
    PROVE  VotingTypeOK'
BY DEF VotingTypeOK, VotingNext, votingVars, Notarize, Finalize, Skip

\* Every vote of the FSM keeps the rules and the justification of all votes.
LEMMA VotingInvStep ==
    ASSUME VotingInv, [VotingNext]_votingVars
    PROVE  VotingInv'
<1> USE DEF VotingInv
<1>1. VotingTypeOK'
  BY TypeStep, Zenon
<1>2. VotesGrow
  BY StepGrows, Zenon
<1>3. ASSUME NEW v \in Honest, NEW c \in Candidate, Notarize(v, c)
      PROVE  VotingInv'
  <2>1. notarized' = [notarized EXCEPT ![v] = @ \cup {c}] /\ UNCHANGED <<finalized, skipped>>
    BY <1>3, Zenon DEF Notarize
  <2>2. OneBlockPerSlot'
    BY <1>3, <2>1 DEF Notarize, NoRival, OneBlockPerSlot, VotingTypeOK
  <2>3. FinalizeExcludesSkip'
    BY <2>1, Zenon DEF FinalizeExcludesSkip
  <2>4. NotarizeIsJustified'
    BY <1>1, <1>2, <1>3, <2>1, JustificationPersists, Zenon
    DEF Notarize, NotarizeIsJustified, VotingTypeOK
  <2>5. FinalizeIsNotarized'
    BY <1>2, <2>1, JustificationPersists, Zenon DEF FinalizeIsNotarized, VotingTypeOK
  <2> QED BY <1>1, <2>2, <2>3, <2>4, <2>5, Zenon
<1>4. ASSUME NEW v \in Honest, NEW c \in Candidate, Finalize(v, c)
      PROVE  VotingInv'
  <2>1. finalized' = [finalized EXCEPT ![v] = @ \cup {c}] /\ UNCHANGED <<notarized, skipped>>
    BY <1>4, Zenon DEF Finalize
  <2>2. OneBlockPerSlot'
    BY <1>4, <2>1 DEF Finalize, NoRival, OneBlockPerSlot, VotingTypeOK
  <2>3. FinalizeExcludesSkip'
    BY <1>4, <2>1 DEF Finalize, FinalizeExcludesSkip, VotingTypeOK
  <2>4. NotarizeIsJustified'
    BY <1>2, <2>1, JustificationPersists, Zenon DEF NotarizeIsJustified, VotingTypeOK
  <2>5. FinalizeIsNotarized'
    BY <1>2, <1>4, <2>1, JustificationPersists, Zenon
    DEF Finalize, FinalizeIsNotarized, VotingTypeOK
  <2> QED BY <1>1, <2>2, <2>3, <2>4, <2>5, Zenon
<1>5. ASSUME NEW v \in Honest, NEW s \in Slot, Skip(v, s)
      PROVE  VotingInv'
  <2>1. skipped' = [skipped EXCEPT ![v] = @ \cup {s}] /\ UNCHANGED <<notarized, finalized>>
    BY <1>5, Zenon DEF Skip
  <2>2. OneBlockPerSlot'
    BY <2>1 DEF OneBlockPerSlot
  <2>3. FinalizeExcludesSkip'
    BY <1>5, <2>1 DEF Skip, FinalizeExcludesSkip, VotingTypeOK
  <2>4. NotarizeIsJustified'
    BY <1>2, <2>1, JustificationPersists, Zenon DEF NotarizeIsJustified, VotingTypeOK
  <2>5. FinalizeIsNotarized'
    BY <1>2, <2>1, JustificationPersists, Zenon DEF FinalizeIsNotarized, VotingTypeOK
  <2> QED BY <1>1, <2>2, <2>3, <2>4, <2>5, Zenon
<1>6. CASE UNCHANGED votingVars
  <2>1. notarized' = notarized /\ finalized' = finalized /\ skipped' = skipped
    BY <1>6, Zenon DEF votingVars
  <2>2. NotarizeIsJustified' /\ FinalizeIsNotarized'
    BY <1>2, <2>1, JustificationPersists, Zenon
    DEF NotarizeIsJustified, FinalizeIsNotarized, VotingTypeOK
  <2> QED BY <1>1, <2>1, <2>2 DEF OneBlockPerSlot, FinalizeExcludesSkip
<1> QED
  BY <1>3, <1>4, <1>5, <1>6, Zenon DEF VotingNext

\* The empty vote book satisfies the invariant.
LEMMA VotingInvInit == VotingInit => VotingInv
BY Zenon DEF VotingInit, VotingInv, VotingTypeOK, OneBlockPerSlot,
       FinalizeExcludesSkip, NotarizeIsJustified, FinalizeIsNotarized

\* The rules of every honest validator hold in every reachable state.
THEOREM VotingInvariant == VotingSpec => []VotingInv
<1>1. VotingInv /\ [VotingNext]_votingVars => VotingInv'
  BY VotingInvStep, Zenon
<1> QED
  BY VotingInvInit, <1>1, PTL DEF VotingSpec
(***************************************************************************)
(* Safety.                                                                 *)
(***************************************************************************)

\* Slots are natural numbers.
LEMMA SlotsAreNumbers == \A c \in Candidate : slotOf[c] \in Slot /\ slotOf[c] \in Nat
BY CandidateAssumption, ZenonT(30)

\* A certificate of either kind is backed by an honest vote.
LEMMA HonestBacker ==
    ASSUME VotingInv, NEW c \in Candidate
    PROVE  /\ NotarCert(c) => \E v \in Honest : c \in notarized[v]
           /\ FinalCert(c) => \E v \in Honest : c \in finalized[v]
BY QuorumsShareHonest DEF NotarCert, FinalCert

\* Two notarized candidates of a slot share an honest voter, who votes once.
LEMMA UniqueNotarizationHolds == VotingInv => UniqueNotarization
<1> SUFFICES ASSUME VotingInv,
                    NEW c \in Candidate, NEW d \in Candidate,
                    NotarCert(c), NotarCert(d), slotOf[c] = slotOf[d]
             PROVE  c = d
  BY Zenon DEF UniqueNotarization
<1>1. PICK v \in Honest : c \in notarized[v] /\ d \in notarized[v]
  BY QuorumsShareHonest DEF NotarCert
<1> QED
  BY <1>1, Zenon DEF VotingInv, OneBlockPerSlot

\* A final and a skip certificate of a slot share an honest voter, who
\* casts only one of the two votes.
LEMMA NoFinalAndSkipHolds == VotingInv => NoFinalAndSkip
<1> SUFFICES ASSUME VotingInv, NEW c \in Candidate, FinalCert(c), SkipCert(slotOf[c])
             PROVE  FALSE
  BY Zenon DEF NoFinalAndSkip
<1>1. PICK v \in Honest : c \in finalized[v] /\ slotOf[c] \in skipped[v]
  BY QuorumsShareHonest DEF FinalCert, SkipCert
<1> QED
  BY <1>1, Zenon DEF VotingInv, FinalizeExcludesSkip

\* A finalized candidate was notarized before.
LEMMA FinalIsNotarized ==
    ASSUME VotingInv, NEW c \in Candidate, FinalCert(c)
    PROVE  NotarCert(c)
BY HonestBacker, Zenon DEF VotingInv, FinalizeIsNotarized

\* A block notarized above a finalized one has a notarized parent that is
\* not below it: try_notar cannot step over a finalized slot.
LEMMA ParentNotBelowFinal ==
    ASSUME VotingInv, NEW b \in Candidate, NEW c \in Candidate,
           FinalCert(b), NotarCert(c), slotOf[b] < slotOf[c]
    PROVE  /\ parent[c] \in Candidate
           /\ NotarCert(parent[c])
           /\ slotOf[b] <= slotOf[parent[c]]
           /\ slotOf[parent[c]] < slotOf[c]
<1>1. Justified(c)
  BY HonestBacker, Zenon DEF VotingInv, NotarizeIsJustified
<1>2. /\ slotOf[b] \in Slot /\ slotOf[b] \in Nat /\ slotOf[c] \in Nat
      /\ parent[c] \in Candidate \cup {Genesis}
      /\ SlotOf(parent[c]) < slotOf[c]
  BY CandidateAssumption, ZenonT(30)
<1>3. ~ SkipCert(slotOf[b])
  BY NoFinalAndSkipHolds, Zenon DEF NoFinalAndSkip
<1>4. ~ (SlotOf(parent[c]) < slotOf[b])
  BY <1>1, <1>2, <1>3, Zenon DEF Justified
<1>5. parent[c] # Genesis
  BY <1>2, <1>4 DEF SlotOf
<1>6. slotOf[parent[c]] \in Nat
  BY <1>2, <1>5, CandidateAssumption, ZenonT(30)
<1> QED
  BY <1>1, <1>2, <1>4, <1>5, <1>6 DEF Justified, SlotOf

\* Walking down from c, the lowest notarized block at or above slot b is b.
LEMMA FinalizedIsKeptHolds == VotingInv => FinalizedIsKept
<1> SUFFICES ASSUME VotingInv, NEW b \in Candidate, NEW c \in Candidate,
                    FinalCert(b), NotarCert(c), slotOf[b] <= slotOf[c],
                    NEW S \in SUBSET Candidate, c \in S,
                    \A d \in S : parent[d] # Genesis => parent[d] \in S
             PROVE  b \in S
  BY Zenon DEF FinalizedIsKept, IsAncestor
<1> DEFINE T == {d \in S : NotarCert(d) /\ slotOf[b] <= slotOf[d]}
           Heights == {slotOf[d] : d \in T}
<1>1. Heights \subseteq Nat /\ Heights # {}
  BY SlotsAreNumbers, Zenon
<1>2. PICK h \in Heights : \A k \in Heights : ~ (<<k, h>> \in OpToRel(<, Nat))
  <2> HIDE DEF Heights
  <2> QED BY <1>1, NatLessThanWellFounded, WFMin, ZenonT(30)
<1>3. PICK d \in T : slotOf[d] = h
  BY Zenon
<1>4. \A k \in Heights : ~ (k < h)
  BY <1>1, <1>2, ZenonT(30) DEF OpToRel
<1>5. CASE slotOf[d] = slotOf[b]
  BY <1>3, <1>5, FinalIsNotarized, UniqueNotarizationHolds, Zenon DEF UniqueNotarization
<1>6. CASE slotOf[d] # slotOf[b]
  <2>1. slotOf[b] < slotOf[d]
    BY <1>3, <1>6, SlotsAreNumbers
  <2>2. /\ parent[d] \in Candidate /\ NotarCert(parent[d])
        /\ slotOf[b] <= slotOf[parent[d]] /\ slotOf[parent[d]] < slotOf[d]
    BY <1>3, <2>1, ParentNotBelowFinal, Zenon
  <2>3. parent[d] # Genesis
    BY <2>2, CandidateAssumption, Zenon
  <2>4. slotOf[parent[d]] \in Heights
    BY <1>3, <2>2, <2>3, Zenon
  <2> QED
    BY <1>3, <1>4, <2>2, <2>4, Zenon
<1> QED
  BY <1>5, <1>6, Zenon

\* Type correctness of the vote book.
THEOREM VotingTypeCorrect == VotingSpec => []VotingTypeOK
BY VotingInvariant, PTL DEF VotingInv

\* No slot has two notarized candidates.
THEOREM NotarizationIsUnique == VotingSpec => []UniqueNotarization
BY VotingInvariant, UniqueNotarizationHolds, PTL

\* No slot is both finalized and skipped.
THEOREM FinalizationExcludesSkip == VotingSpec => []NoFinalAndSkip
BY VotingInvariant, NoFinalAndSkipHolds, PTL

\* Every notarized block at or above a finalized one descends from it.
THEOREM FinalizedBlocksAreKept == VotingSpec => []FinalizedIsKept
BY VotingInvariant, FinalizedIsKeptHolds, PTL

\* Agreement: finalized blocks form one chain, whatever the weights of the
\* validators and the tree of candidates.
THEOREM Agreement == VotingSpec => []Consistency
<1>1. VotingInv => Consistency
  <2> SUFFICES ASSUME VotingInv, NEW b \in Candidate, NEW c \in Candidate,
                      FinalCert(b), FinalCert(c)
               PROVE  IsAncestor(b, c) \/ IsAncestor(c, b)
    BY Zenon DEF Consistency
  <2>1. NotarCert(b) /\ NotarCert(c)
    BY FinalIsNotarized, Zenon
  <2>2. slotOf[b] <= slotOf[c] \/ slotOf[c] <= slotOf[b]
    BY SlotsAreNumbers
  <2> QED
    BY <2>1, <2>2, FinalizedIsKeptHolds, Zenon DEF FinalizedIsKept
<1> QED
  BY VotingInvariant, <1>1, PTL

(***************************************************************************)
(* Vote accounting.                                                        *)
(***************************************************************************)

\* A candidate is no absent id, and its slot is one that the FSM tracks.
LEMMA CandidateFacts ==
    /\ Slot \subseteq Tracked
    /\ \A c \in Candidate : slotOf[c] \in Slot /\ slotOf[c] \in Tracked /\ c # Unknown
<1>1. \A c \in Candidate : slotOf[c] \in Slot /\ c # Unknown
  BY CandidateIds, CandidateAssumption DEF Unknown
<1>2. Slot \subseteq Tracked
  BY SlotBound, WindowAssumption DEF Tracked
<1> QED BY <1>1, <1>2, Zenon

\* The weights of disjoint sets of validators add up (get_node_weight).
LEMMA WeightAdds ==
    ASSUME NEW S \in SUBSET Validator, NEW T \in SUBSET Validator, S \cap T = {}
    PROVE  WeightOf(S \cup T) = WeightOf(S) + WeightOf(T)
<1>1. WeightOf(S \cup T) + WeightOf(S \cap T) = WeightOf(S) + WeightOf(T)
  BY WeightIsMeasure, ZenonT(30)
<1>2. WeightOf(S \cap T) = 0 /\ WeightOf(S \cup T) \in Nat
  BY WeightIsMeasure, Zenon
<1> QED BY <1>1, <1>2

\* RecordNotarize writes one field of the votes of V in one slot, and two
\* accumulators.
NotarizeRecorded(st, t, c, V) ==
    /\ SameButLedger(st, t)
    /\ \A r \in Tracked, v \in Validator :
          /\ t.votes[r][v].notarize =
                IF r = slotOf[c] /\ v \in V THEN c ELSE st.votes[r][v].notarize
          /\ t.votes[r][v].finalize = st.votes[r][v].finalize
          /\ t.votes[r][v].skip = st.votes[r][v].skip
    /\ t.finalize_weight = st.finalize_weight /\ t.skip_weight = st.skip_weight
    /\ t.notarize_weight[c] = st.notarize_weight[c] + WeightOf(V)
    /\ \A d \in Candidate : d # c => t.notarize_weight[d] = st.notarize_weight[d]
    /\ t.notarize_or_skip_weight[slotOf[c]] =
          st.notarize_or_skip_weight[slotOf[c]]
             + WeightOf({v \in V : ~ st.votes[slotOf[c]][v].skip})
    /\ \A r \in Tracked : r # slotOf[c] =>
          t.notarize_or_skip_weight[r] = st.notarize_or_skip_weight[r]

\* That is what RecordNotarize does.
LEMMA RecordNotarizeFields ==
    ASSUME NEW st \in FsmState, NEW c \in Candidate, NEW V \in SUBSET Validator,
           NEW t, t = RecordNotarize(st, c, V)
    PROVE  NotarizeRecorded(st, t, c, V)
<1> DEFINE s == slotOf[c]
           W == {v \in V : ~ st.votes[s][v].skip}
           row == [v \in Validator |-> IF v \in V THEN [st.votes[s][v] EXCEPT !.notarize = c]
                                                  ELSE st.votes[s][v]]
           votes == [st.votes EXCEPT ![s] = row]
           nw == [st.notarize_weight EXCEPT ![c] = @ + WeightOf(V)]
           ow == [st.notarize_or_skip_weight EXCEPT ![s] = @ + WeightOf(W)]
           u == [st EXCEPT !.votes = votes, !.notarize_weight = nw,
                           !.notarize_or_skip_weight = ow]
<1>1. t = u
  BY Zenon DEF RecordNotarize
<1>2. /\ s \in Tracked /\ s \in Slot /\ c # Unknown
      /\ st.votes \in [Tracked -> [Validator -> SlotVotes]]
      /\ st.notarize_weight \in [Candidate -> Nat]
      /\ st.notarize_or_skip_weight \in [Tracked -> Nat]
  BY CandidateFacts, Zenon DEF FsmState
<1>3. WeightOf(V) \in Nat /\ WeightOf(W) \in Nat
  BY WeightIsMeasure, Zenon
<1>4. row \in [Validator -> SlotVotes]
  <2>1. ASSUME NEW v \in Validator
        PROVE  st.votes[s][v] \in SlotVotes /\ [st.votes[s][v] EXCEPT !.notarize = c] \in SlotVotes
    <3>1. st.votes[s][v] \in SlotVotes
      BY <1>2, Zenon
    <3> QED BY <3>1, Zenon DEF SlotVotes, BlockId
  <2> QED BY <2>1, Zenon
<1>5. \A v \in Validator : /\ row[v].notarize = IF v \in V THEN c ELSE st.votes[s][v].notarize
                           /\ row[v].finalize = st.votes[s][v].finalize
                           /\ row[v].skip = st.votes[s][v].skip
  BY <1>2 DEF SlotVotes
<1> HIDE DEF row
<1>6. /\ votes \in [Tracked -> [Validator -> SlotVotes]] /\ votes[s] = row
      /\ \A r \in Tracked : r # s => votes[r] = st.votes[r]
  BY <1>2, <1>4, Zenon
<1>7. /\ nw \in [Candidate -> Nat] /\ nw[c] = st.notarize_weight[c] + WeightOf(V)
      /\ \A d \in Candidate : d # c => nw[d] = st.notarize_weight[d]
  BY <1>2, <1>3, SMTT(60)
<1>8. /\ ow \in [Tracked -> Nat] /\ ow[s] = st.notarize_or_skip_weight[s] + WeightOf(W)
      /\ \A r \in Tracked : r # s => ow[r] = st.notarize_or_skip_weight[r]
  BY <1>2, <1>3, SMTT(60)
<1> HIDE DEF votes, nw, ow
<1>9. /\ SameButLedger(st, t)
      /\ t.votes = votes /\ t.notarize_weight = nw /\ t.notarize_or_skip_weight = ow
      /\ t.finalize_weight = st.finalize_weight /\ t.skip_weight = st.skip_weight
  BY <1>1, <1>6, <1>7, <1>8, ZenonT(60) DEF FsmState, SameButLedger
<1> HIDE DEF u
<1>10. ASSUME NEW r \in Tracked, NEW v \in Validator
       PROVE  /\ t.votes[r][v].notarize = IF r = s /\ v \in V THEN c ELSE st.votes[r][v].notarize
              /\ t.votes[r][v].finalize = st.votes[r][v].finalize
              /\ t.votes[r][v].skip = st.votes[r][v].skip
  <2>1. t.votes[r][v] = IF r = s THEN row[v] ELSE st.votes[r][v]
    BY <1>6, <1>9, ZenonT(30)
  <2>2. /\ row[v].notarize = IF v \in V THEN c ELSE st.votes[s][v].notarize
        /\ row[v].finalize = st.votes[s][v].finalize
        /\ row[v].skip = st.votes[s][v].skip
    BY <1>5, Zenon
  <2> QED BY <2>1, <2>2, ZenonT(30)
<1> QED BY <1>7, <1>8, <1>9, <1>10, ZenonT(30) DEF NotarizeRecorded

\* RecordNotarize adds Notarize votes of validators that have none and no
\* Finalize vote for another candidate.
LEMMA NotarizeLedger ==
    ASSUME NEW st \in FsmState, NEW t, Ledger(st), NEW c \in Candidate, NEW V \in SUBSET Validator,
           NotarizeRecorded(st, t, c, V),
           \A v \in V : /\ st.votes[slotOf[c]][v].notarize = Unknown
                        /\ st.votes[slotOf[c]][v].finalize \in {Unknown, c}
                        /\ v \in Honest => c \in notarized[v]
    PROVE  Ledger(t)
<1> DEFINE s == slotOf[c]
           W == {v \in V : ~ st.votes[s][v].skip}
<1>1. ASSUME NEW r \in Tracked, NEW v \in Validator
      PROVE  /\ t.votes[r][v].notarize = IF r = s /\ v \in V THEN c ELSE st.votes[r][v].notarize
             /\ t.votes[r][v].finalize = st.votes[r][v].finalize
             /\ t.votes[r][v].skip = st.votes[r][v].skip
  BY Zenon DEF NotarizeRecorded
<1>2. /\ t.finalize_weight = st.finalize_weight /\ t.skip_weight = st.skip_weight
      /\ t.notarize_weight[c] = st.notarize_weight[c] + WeightOf(V)
      /\ \A d \in Candidate : d # c => t.notarize_weight[d] = st.notarize_weight[d]
  BY Zenon DEF NotarizeRecorded
<1>3. /\ t.notarize_or_skip_weight[s] = st.notarize_or_skip_weight[s] + WeightOf(W)
      /\ \A r \in Tracked : r # s => t.notarize_or_skip_weight[r] = st.notarize_or_skip_weight[r]
  BY Zenon DEF NotarizeRecorded
<1>4. s \in Tracked /\ c # Unknown /\ \A d \in Candidate : slotOf[d] \in Tracked /\ d # Unknown
  BY CandidateFacts, Zenon
<1>5. RecordedAreSigned(t)
  <2> SUFFICES ASSUME NEW r \in Tracked, NEW v \in Validator
               PROVE  Signed(t.votes[r][v], r, v)
    BY Zenon DEF RecordedAreSigned
  <2>1. Signed(st.votes[r][v], r, v)
    BY Zenon DEF Ledger, RecordedAreSigned
  <2>2. /\ t.votes[r][v].notarize = IF r = s /\ v \in V THEN c ELSE st.votes[r][v].notarize
        /\ t.votes[r][v].finalize = st.votes[r][v].finalize
        /\ t.votes[r][v].skip = st.votes[r][v].skip
    BY <1>1, Zenon
  <2> QED BY <1>4, <2>1, <2>2, Zenon DEF Signed
<1>6. /\ \A d \in Candidate : /\ st.notarize_weight[d] = WeightOf(Notarizers(st, d))
                              /\ st.finalize_weight[d] = WeightOf(Finalizers(st, d))
      /\ \A r \in Tracked : /\ st.skip_weight[r] = WeightOf(Skippers(st, r))
                            /\ st.notarize_or_skip_weight[r] = WeightOf(Progressers(st, r))
  BY Zenon DEF Ledger, WeightsExact
<1>7. ASSUME NEW d \in Candidate
      PROVE  /\ t.notarize_weight[d] = WeightOf(Notarizers(t, d))
             /\ t.finalize_weight[d] = WeightOf(Finalizers(t, d))
  <2>1. Finalizers(t, d) = Finalizers(st, d)
    BY <1>1, <1>4 DEF Finalizers
  <2>2. CASE d = c
    <3>1. Notarizers(t, c) = Notarizers(st, c) \cup V /\ Notarizers(st, c) \cap V = {}
      <4>1. \A v \in Validator :
               t.votes[s][v].notarize = IF v \in V THEN c ELSE st.votes[s][v].notarize
        BY <1>1, <1>4, Zenon
      <4> QED BY <1>4, <4>1, Zenon DEF Notarizers
    <3>2. Notarizers(st, c) \in SUBSET Validator
      BY Zenon DEF Notarizers
    <3>3. WeightOf(Notarizers(t, c)) = WeightOf(Notarizers(st, c)) + WeightOf(V)
      BY <3>1, <3>2, WeightAdds, Zenon
    <3> QED BY <1>2, <1>6, <2>1, <2>2, <3>3, Zenon
  <2>3. CASE d # c
    <3>1. Notarizers(t, d) = Notarizers(st, d)
      <4>1. ASSUME NEW v \in Validator
            PROVE  t.votes[slotOf[d]][v].notarize = d <=> st.votes[slotOf[d]][v].notarize = d
        BY <1>1, <1>4, <2>3
      <4> QED BY <4>1, Zenon DEF Notarizers
    <3> QED BY <1>2, <1>6, <2>1, <2>3, <3>1, Zenon
  <2> QED BY <2>2, <2>3, Zenon
<1>8. ASSUME NEW r \in Tracked
      PROVE  /\ t.skip_weight[r] = WeightOf(Skippers(t, r))
             /\ t.notarize_or_skip_weight[r] = WeightOf(Progressers(t, r))
  <2>1. Skippers(t, r) = Skippers(st, r)
    BY <1>1, Zenon DEF Skippers
  <2>2. CASE r # s
    <3>1. Progressers(t, r) = Progressers(st, r)
      BY <1>1, <2>2, Zenon DEF Progressers
    <3> QED BY <1>2, <1>3, <1>6, <2>1, <2>2, <3>1, Zenon
  <2>3. CASE r = s
    <3>1. Progressers(t, s) = Progressers(st, s) \cup W /\ Progressers(st, s) \cap W = {}
      <4>1. \A v \in Validator :
               /\ t.votes[s][v].notarize = IF v \in V THEN c ELSE st.votes[s][v].notarize
               /\ t.votes[s][v].skip = st.votes[s][v].skip
        BY <1>1, <1>4, Zenon
      <4> QED BY <1>4, <4>1, Zenon DEF Progressers
    <3>2. Progressers(st, s) \in SUBSET Validator /\ W \in SUBSET Validator
      BY Zenon DEF Progressers
    <3> HIDE DEF W, s
    <3>3. WeightOf(Progressers(t, s)) = WeightOf(Progressers(st, s)) + WeightOf(W)
      BY <3>1, <3>2, WeightAdds, Zenon
    <3> QED BY <1>2, <1>3, <1>6, <2>1, <2>3, <3>3, Zenon
  <2> QED BY <2>2, <2>3, Zenon
<1> QED
  BY <1>5, <1>7, <1>8, Zenon DEF Ledger, WeightsExact

\* RecordNotarize keeps the ledger right and changes nothing else.
LEMMA RecordNotarizeKeeps ==
    ASSUME NEW st \in FsmState, Ledger(st), NEW c \in Candidate, NEW V \in SUBSET Validator,
           \A v \in V : /\ st.votes[slotOf[c]][v].notarize = Unknown
                        /\ st.votes[slotOf[c]][v].finalize \in {Unknown, c}
                        /\ v \in Honest => c \in notarized[v]
    PROVE  SameButLedger(st, RecordNotarize(st, c, V)) /\ Ledger(RecordNotarize(st, c, V))
<1> DEFINE t == RecordNotarize(st, c, V)
<1>1. NotarizeRecorded(st, t, c, V)
  BY RecordNotarizeFields, Zenon
<1> HIDE DEF t
<1>2. Ledger(t)
  BY <1>1, NotarizeLedger, Zenon
<1> QED BY <1>1, <1>2, Zenon DEF t, NotarizeRecorded

\* RecordFinalize writes one field of the votes of V in one slot, and one
\* accumulator.
FinalizeRecorded(st, t, c, V) ==
    /\ SameButLedger(st, t)
    /\ \A r \in Tracked, v \in Validator :
          /\ t.votes[r][v].finalize =
                IF r = slotOf[c] /\ v \in V THEN c ELSE st.votes[r][v].finalize
          /\ t.votes[r][v].notarize = st.votes[r][v].notarize
          /\ t.votes[r][v].skip = st.votes[r][v].skip
    /\ t.notarize_weight = st.notarize_weight /\ t.skip_weight = st.skip_weight
    /\ t.notarize_or_skip_weight = st.notarize_or_skip_weight
    /\ t.finalize_weight[c] = st.finalize_weight[c] + WeightOf(V)
    /\ \A d \in Candidate : d # c => t.finalize_weight[d] = st.finalize_weight[d]

\* That is what RecordFinalize does.
LEMMA RecordFinalizeFields ==
    ASSUME NEW st \in FsmState, NEW c \in Candidate, NEW V \in SUBSET Validator,
           NEW t, t = RecordFinalize(st, c, V)
    PROVE  FinalizeRecorded(st, t, c, V)
<1> DEFINE s == slotOf[c]
           row == [v \in Validator |-> IF v \in V THEN [st.votes[s][v] EXCEPT !.finalize = c]
                                                  ELSE st.votes[s][v]]
           votes == [st.votes EXCEPT ![s] = row]
           fw == [st.finalize_weight EXCEPT ![c] = @ + WeightOf(V)]
           u == [st EXCEPT !.votes = votes, !.finalize_weight = fw]
<1>1. t = u
  BY Zenon DEF RecordFinalize
<1>2. /\ s \in Tracked /\ s \in Slot /\ c # Unknown
      /\ st.votes \in [Tracked -> [Validator -> SlotVotes]]
      /\ st.finalize_weight \in [Candidate -> Nat]
  BY CandidateFacts, Zenon DEF FsmState
<1>3. WeightOf(V) \in Nat
  BY WeightIsMeasure, Zenon
<1>4. row \in [Validator -> SlotVotes]
  <2>1. ASSUME NEW v \in Validator
        PROVE  st.votes[s][v] \in SlotVotes /\ [st.votes[s][v] EXCEPT !.finalize = c] \in SlotVotes
    <3>1. st.votes[s][v] \in SlotVotes
      BY <1>2, Zenon
    <3> QED BY <3>1, Zenon DEF SlotVotes, BlockId
  <2> QED BY <2>1, Zenon
<1>5. \A v \in Validator : /\ row[v].finalize = IF v \in V THEN c ELSE st.votes[s][v].finalize
                           /\ row[v].notarize = st.votes[s][v].notarize
                           /\ row[v].skip = st.votes[s][v].skip
  BY <1>2 DEF SlotVotes
<1> HIDE DEF row
<1>6. /\ votes \in [Tracked -> [Validator -> SlotVotes]] /\ votes[s] = row
      /\ \A r \in Tracked : r # s => votes[r] = st.votes[r]
  BY <1>2, <1>4, Zenon
<1>7. /\ fw \in [Candidate -> Nat] /\ fw[c] = st.finalize_weight[c] + WeightOf(V)
      /\ \A d \in Candidate : d # c => fw[d] = st.finalize_weight[d]
  BY <1>2, <1>3, SMTT(60)
<1> HIDE DEF votes, fw
<1>8. /\ SameButLedger(st, t)
      /\ t.votes = votes /\ t.finalize_weight = fw
      /\ t.notarize_weight = st.notarize_weight /\ t.skip_weight = st.skip_weight
      /\ t.notarize_or_skip_weight = st.notarize_or_skip_weight
  BY <1>1, <1>6, <1>7, ZenonT(60) DEF FsmState, SameButLedger
<1> HIDE DEF u
<1>9. ASSUME NEW r \in Tracked, NEW v \in Validator
      PROVE  /\ t.votes[r][v].finalize = IF r = s /\ v \in V THEN c ELSE st.votes[r][v].finalize
             /\ t.votes[r][v].notarize = st.votes[r][v].notarize
             /\ t.votes[r][v].skip = st.votes[r][v].skip
  <2>1. t.votes[r][v] = IF r = s THEN row[v] ELSE st.votes[r][v]
    BY <1>6, <1>8, ZenonT(30)
  <2>2. /\ row[v].finalize = IF v \in V THEN c ELSE st.votes[s][v].finalize
        /\ row[v].notarize = st.votes[s][v].notarize
        /\ row[v].skip = st.votes[s][v].skip
    BY <1>5, Zenon
  <2> QED BY <2>1, <2>2, ZenonT(30)
<1> QED BY <1>7, <1>8, <1>9, ZenonT(30) DEF FinalizeRecorded

\* RecordFinalize adds Finalize votes of validators whose recorded votes do
\* not contradict them.
LEMMA FinalizeLedger ==
    ASSUME NEW st \in FsmState, NEW t, Ledger(st), NEW c \in Candidate, NEW V \in SUBSET Validator,
           FinalizeRecorded(st, t, c, V),
           \A v \in V : /\ st.votes[slotOf[c]][v].finalize = Unknown
                        /\ st.votes[slotOf[c]][v].notarize \in {Unknown, c}
                        /\ ~ st.votes[slotOf[c]][v].skip
                        /\ v \in Honest => c \in finalized[v]
    PROVE  Ledger(t)
<1> DEFINE s == slotOf[c]
<1>1. ASSUME NEW r \in Tracked, NEW v \in Validator
      PROVE  /\ t.votes[r][v].finalize = IF r = s /\ v \in V THEN c ELSE st.votes[r][v].finalize
             /\ t.votes[r][v].notarize = st.votes[r][v].notarize
             /\ t.votes[r][v].skip = st.votes[r][v].skip
  BY Zenon DEF FinalizeRecorded
<1>2. /\ t.notarize_weight = st.notarize_weight /\ t.skip_weight = st.skip_weight
      /\ t.notarize_or_skip_weight = st.notarize_or_skip_weight
      /\ t.finalize_weight[c] = st.finalize_weight[c] + WeightOf(V)
      /\ \A d \in Candidate : d # c => t.finalize_weight[d] = st.finalize_weight[d]
  BY Zenon DEF FinalizeRecorded
<1>3. s \in Tracked /\ c # Unknown /\ \A d \in Candidate : slotOf[d] \in Tracked /\ d # Unknown
  BY CandidateFacts, Zenon
<1>4. RecordedAreSigned(t)
  <2> SUFFICES ASSUME NEW r \in Tracked, NEW v \in Validator
               PROVE  Signed(t.votes[r][v], r, v)
    BY Zenon DEF RecordedAreSigned
  <2>1. Signed(st.votes[r][v], r, v)
    BY Zenon DEF Ledger, RecordedAreSigned
  <2>2. /\ t.votes[r][v].finalize = IF r = s /\ v \in V THEN c ELSE st.votes[r][v].finalize
        /\ t.votes[r][v].notarize = st.votes[r][v].notarize
        /\ t.votes[r][v].skip = st.votes[r][v].skip
    BY <1>1, Zenon
  <2> QED BY <1>3, <2>1, <2>2, Zenon DEF Signed
<1>5. /\ \A d \in Candidate : /\ st.notarize_weight[d] = WeightOf(Notarizers(st, d))
                              /\ st.finalize_weight[d] = WeightOf(Finalizers(st, d))
      /\ \A r \in Tracked : /\ st.skip_weight[r] = WeightOf(Skippers(st, r))
                            /\ st.notarize_or_skip_weight[r] = WeightOf(Progressers(st, r))
  BY Zenon DEF Ledger, WeightsExact
<1>6. ASSUME NEW d \in Candidate
      PROVE  /\ t.notarize_weight[d] = WeightOf(Notarizers(t, d))
             /\ t.finalize_weight[d] = WeightOf(Finalizers(t, d))
  <2>1. Notarizers(t, d) = Notarizers(st, d)
    BY <1>1, <1>3, Zenon DEF Notarizers
  <2>2. CASE d = c
    <3>1. Finalizers(t, c) = Finalizers(st, c) \cup V /\ Finalizers(st, c) \cap V = {}
      <4>1. \A v \in Validator :
               t.votes[s][v].finalize = IF v \in V THEN c ELSE st.votes[s][v].finalize
        BY <1>1, <1>3, Zenon
      <4> QED BY <1>3, <4>1, Zenon DEF Finalizers
    <3>2. Finalizers(st, c) \in SUBSET Validator
      BY Zenon DEF Finalizers
    <3>3. WeightOf(Finalizers(t, c)) = WeightOf(Finalizers(st, c)) + WeightOf(V)
      BY <3>1, <3>2, WeightAdds, Zenon
    <3> QED BY <1>2, <1>5, <2>1, <2>2, <3>3, Zenon
  <2>3. CASE d # c
    <3>1. Finalizers(t, d) = Finalizers(st, d)
      <4>1. ASSUME NEW v \in Validator
            PROVE  t.votes[slotOf[d]][v].finalize = d <=> st.votes[slotOf[d]][v].finalize = d
        BY <1>1, <1>3, <2>3
      <4> QED BY <4>1, Zenon DEF Finalizers
    <3> QED BY <1>2, <1>5, <2>1, <2>3, <3>1, Zenon
  <2> QED BY <2>2, <2>3, Zenon
<1>7. ASSUME NEW r \in Tracked
      PROVE  /\ t.skip_weight[r] = WeightOf(Skippers(t, r))
             /\ t.notarize_or_skip_weight[r] = WeightOf(Progressers(t, r))
  <2>1. Skippers(t, r) = Skippers(st, r)
    BY <1>1, Zenon DEF Skippers
  <2>2. Progressers(t, r) = Progressers(st, r)
    BY <1>1, Zenon DEF Progressers
  <2> QED BY <1>2, <1>5, <2>1, <2>2, Zenon
<1> QED
  BY <1>4, <1>6, <1>7, Zenon DEF Ledger, WeightsExact

\* RecordFinalize keeps the ledger right and changes nothing else.
LEMMA RecordFinalizeKeeps ==
    ASSUME NEW st \in FsmState, Ledger(st), NEW c \in Candidate, NEW V \in SUBSET Validator,
           \A v \in V : /\ st.votes[slotOf[c]][v].finalize = Unknown
                        /\ st.votes[slotOf[c]][v].notarize \in {Unknown, c}
                        /\ ~ st.votes[slotOf[c]][v].skip
                        /\ v \in Honest => c \in finalized[v]
    PROVE  SameButLedger(st, RecordFinalize(st, c, V)) /\ Ledger(RecordFinalize(st, c, V))
<1> DEFINE t == RecordFinalize(st, c, V)
<1>1. FinalizeRecorded(st, t, c, V)
  BY RecordFinalizeFields, Zenon
<1> HIDE DEF t
<1>2. Ledger(t)
  BY <1>1, FinalizeLedger, Zenon
<1> QED BY <1>1, <1>2, Zenon DEF t, FinalizeRecorded

\* RecordSkip writes one field of the votes of V in one slot, and two
\* accumulators.
SkipRecorded(st, t, s, V) ==
    /\ SameButLedger(st, t)
    /\ \A r \in Tracked, v \in Validator :
          /\ t.votes[r][v].skip <=> (r = s /\ v \in V) \/ st.votes[r][v].skip
          /\ t.votes[r][v].notarize = st.votes[r][v].notarize
          /\ t.votes[r][v].finalize = st.votes[r][v].finalize
    /\ t.notarize_weight = st.notarize_weight /\ t.finalize_weight = st.finalize_weight
    /\ t.skip_weight[s] = st.skip_weight[s] + WeightOf(V)
    /\ \A r \in Tracked : r # s => t.skip_weight[r] = st.skip_weight[r]
    /\ t.notarize_or_skip_weight[s] =
          st.notarize_or_skip_weight[s]
             + WeightOf({v \in V : st.votes[s][v].notarize = Unknown})
    /\ \A r \in Tracked : r # s =>
          t.notarize_or_skip_weight[r] = st.notarize_or_skip_weight[r]

\* That is what RecordSkip does.
LEMMA RecordSkipFields ==
    ASSUME NEW st \in FsmState, NEW s \in Slot, NEW V \in SUBSET Validator,
           NEW t, t = RecordSkip(st, s, V)
    PROVE  SkipRecorded(st, t, s, V)
<1> DEFINE W == {v \in V : st.votes[s][v].notarize = Unknown}
           row == [v \in Validator |-> IF v \in V THEN [st.votes[s][v] EXCEPT !.skip = TRUE]
                                                  ELSE st.votes[s][v]]
           votes == [st.votes EXCEPT ![s] = row]
           sw == [st.skip_weight EXCEPT ![s] = @ + WeightOf(V)]
           ow == [st.notarize_or_skip_weight EXCEPT ![s] = @ + WeightOf(W)]
           u == [st EXCEPT !.votes = votes, !.skip_weight = sw, !.notarize_or_skip_weight = ow]
<1>1. t = u
  BY Zenon DEF RecordSkip
<1>2. /\ s \in Tracked
      /\ st.votes \in [Tracked -> [Validator -> SlotVotes]]
      /\ st.skip_weight \in [Tracked -> Nat]
      /\ st.notarize_or_skip_weight \in [Tracked -> Nat]
  BY CandidateFacts, Zenon DEF FsmState
<1>3. WeightOf(V) \in Nat /\ WeightOf(W) \in Nat
  BY WeightIsMeasure, Zenon
<1>4. row \in [Validator -> SlotVotes]
  <2>1. ASSUME NEW v \in Validator
        PROVE  st.votes[s][v] \in SlotVotes /\ [st.votes[s][v] EXCEPT !.skip = TRUE] \in SlotVotes
    <3>1. st.votes[s][v] \in SlotVotes
      BY <1>2, Zenon
    <3> QED BY <3>1, ZenonT(30) DEF SlotVotes
  <2> QED BY <2>1, Zenon
<1>5. \A v \in Validator : /\ row[v].skip = (v \in V \/ st.votes[s][v].skip)
                           /\ row[v].notarize = st.votes[s][v].notarize
                           /\ row[v].finalize = st.votes[s][v].finalize
  <2> SUFFICES ASSUME NEW v \in Validator
               PROVE  /\ row[v].skip = (v \in V \/ st.votes[s][v].skip)
                      /\ row[v].notarize = st.votes[s][v].notarize
                      /\ row[v].finalize = st.votes[s][v].finalize
    BY ZenonT(30)
  <2>1. st.votes[s][v] \in SlotVotes /\ st.votes[s][v].skip \in BOOLEAN
    BY <1>2, Zenon DEF SlotVotes
  <2>2. CASE v \in V
    <3>1. row[v] = [st.votes[s][v] EXCEPT !.skip = TRUE]
      BY <2>2, Zenon
    <3> HIDE DEF row
    <3> QED BY <2>1, <2>2, <3>1, ZenonT(30) DEF SlotVotes
  <2>3. CASE v \notin V
    <3>1. row[v] = st.votes[s][v]
      BY <2>3, Zenon
    <3> QED BY <2>1, <2>3, <3>1, Zenon
  <2> QED BY <2>2, <2>3, ZenonT(30)
<1> HIDE DEF row
<1>6. /\ votes \in [Tracked -> [Validator -> SlotVotes]] /\ votes[s] = row
      /\ \A r \in Tracked : r # s => votes[r] = st.votes[r]
  BY <1>2, <1>4, Zenon
<1>7. /\ sw \in [Tracked -> Nat] /\ sw[s] = st.skip_weight[s] + WeightOf(V)
      /\ \A r \in Tracked : r # s => sw[r] = st.skip_weight[r]
  BY <1>2, <1>3, SMTT(60)
<1>8. /\ ow \in [Tracked -> Nat] /\ ow[s] = st.notarize_or_skip_weight[s] + WeightOf(W)
      /\ \A r \in Tracked : r # s => ow[r] = st.notarize_or_skip_weight[r]
  BY <1>2, <1>3, SMTT(60)
<1> HIDE DEF votes, sw, ow
<1>9. /\ SameButLedger(st, t)
      /\ t.votes = votes /\ t.skip_weight = sw /\ t.notarize_or_skip_weight = ow
      /\ t.finalize_weight = st.finalize_weight /\ t.notarize_weight = st.notarize_weight
  BY <1>1, <1>6, <1>7, <1>8, ZenonT(60) DEF FsmState, SameButLedger
<1> HIDE DEF u
<1>10. ASSUME NEW r \in Tracked, NEW v \in Validator
       PROVE  /\ t.votes[r][v].skip <=> (r = s /\ v \in V) \/ st.votes[r][v].skip
              /\ t.votes[r][v].notarize = st.votes[r][v].notarize
              /\ t.votes[r][v].finalize = st.votes[r][v].finalize
  <2>1. t.votes[r][v] = IF r = s THEN row[v] ELSE st.votes[r][v]
    BY <1>6, <1>9, ZenonT(30)
  <2>2. /\ row[v].skip = (v \in V \/ st.votes[s][v].skip)
        /\ row[v].notarize = st.votes[s][v].notarize
        /\ row[v].finalize = st.votes[s][v].finalize
    BY <1>5, ZenonT(30)
  <2> QED BY <2>1, <2>2, ZenonT(30)
<1> QED BY <1>7, <1>8, <1>9, <1>10, ZenonT(30) DEF SkipRecorded

\* RecordSkip adds Skip votes of validators without a Skip or Finalize vote;
\* a validator that notarized the slot already counts as progressed.
LEMMA SkipLedger ==
    ASSUME NEW st \in FsmState, NEW t, Ledger(st), NEW s \in Slot, NEW V \in SUBSET Validator,
           SkipRecorded(st, t, s, V),
           \A v \in V : /\ ~ st.votes[s][v].skip
                        /\ st.votes[s][v].finalize = Unknown
                        /\ v \in Honest => s \in skipped[v]
    PROVE  Ledger(t)
<1> DEFINE W == {v \in V : st.votes[s][v].notarize = Unknown}
<1>1. ASSUME NEW r \in Tracked, NEW v \in Validator
      PROVE  /\ t.votes[r][v].skip <=> (r = s /\ v \in V) \/ st.votes[r][v].skip
             /\ t.votes[r][v].notarize = st.votes[r][v].notarize
             /\ t.votes[r][v].finalize = st.votes[r][v].finalize
  BY ZenonT(30) DEF SkipRecorded
<1>2. /\ t.notarize_weight = st.notarize_weight /\ t.finalize_weight = st.finalize_weight
      /\ t.skip_weight[s] = st.skip_weight[s] + WeightOf(V)
      /\ \A r \in Tracked : r # s => t.skip_weight[r] = st.skip_weight[r]
  BY Zenon DEF SkipRecorded
<1>3. /\ t.notarize_or_skip_weight[s] = st.notarize_or_skip_weight[s] + WeightOf(W)
      /\ \A r \in Tracked : r # s => t.notarize_or_skip_weight[r] = st.notarize_or_skip_weight[r]
  BY Zenon DEF SkipRecorded
<1>4. s \in Tracked /\ \A d \in Candidate : slotOf[d] \in Tracked
  BY CandidateFacts, Zenon
<1>5. RecordedAreSigned(t)
  <2> SUFFICES ASSUME NEW r \in Tracked, NEW v \in Validator
               PROVE  Signed(t.votes[r][v], r, v)
    BY Zenon DEF RecordedAreSigned
  <2>1. Signed(st.votes[r][v], r, v)
    BY Zenon DEF Ledger, RecordedAreSigned
  <2>2. /\ t.votes[r][v].skip <=> (r = s /\ v \in V) \/ st.votes[r][v].skip
        /\ t.votes[r][v].notarize = st.votes[r][v].notarize
        /\ t.votes[r][v].finalize = st.votes[r][v].finalize
    BY <1>1, ZenonT(30)
  <2> QED BY <2>1, <2>2, Zenon DEF Signed
<1>6. /\ \A d \in Candidate : /\ st.notarize_weight[d] = WeightOf(Notarizers(st, d))
                              /\ st.finalize_weight[d] = WeightOf(Finalizers(st, d))
      /\ \A r \in Tracked : /\ st.skip_weight[r] = WeightOf(Skippers(st, r))
                            /\ st.notarize_or_skip_weight[r] = WeightOf(Progressers(st, r))
  BY Zenon DEF Ledger, WeightsExact
<1>7. ASSUME NEW d \in Candidate
      PROVE  /\ t.notarize_weight[d] = WeightOf(Notarizers(t, d))
             /\ t.finalize_weight[d] = WeightOf(Finalizers(t, d))
  <2>1. Finalizers(t, d) = Finalizers(st, d) /\ Notarizers(t, d) = Notarizers(st, d)
    <3>1. Finalizers(t, d) = Finalizers(st, d)
      BY <1>1, <1>4 DEF Finalizers
    <3>2. Notarizers(t, d) = Notarizers(st, d)
      BY <1>1, <1>4 DEF Notarizers
    <3> QED BY <3>1, <3>2, Zenon
  <2> QED BY <1>2, <1>6, <2>1, Zenon
<1>8. ASSUME NEW r \in Tracked
      PROVE  /\ t.skip_weight[r] = WeightOf(Skippers(t, r))
             /\ t.notarize_or_skip_weight[r] = WeightOf(Progressers(t, r))
  <2>1. CASE r # s
    <3>1. Progressers(t, r) = Progressers(st, r) /\ Skippers(t, r) = Skippers(st, r)
      <4>1. \A v \in Validator : /\ t.votes[r][v].skip <=> st.votes[r][v].skip
                                 /\ t.votes[r][v].notarize = st.votes[r][v].notarize
        BY <1>1, <2>1, Zenon
      <4> QED BY <4>1 DEF Progressers, Skippers
    <3> QED BY <1>2, <1>3, <1>6, <2>1, <3>1, Zenon
  <2>2. CASE r = s
    <3>6. \A v \in Validator : /\ t.votes[s][v].skip <=> v \in V \/ st.votes[s][v].skip
                               /\ t.votes[s][v].notarize = st.votes[s][v].notarize
      BY <1>1, <1>4, Zenon
    <3>1. Progressers(t, s) = Progressers(st, s) \cup W /\ Progressers(st, s) \cap W = {}
      BY <3>6, Zenon DEF Progressers
    <3>2. Skippers(t, s) = Skippers(st, s) \cup V /\ Skippers(st, s) \cap V = {}
      BY <3>6, Zenon DEF Skippers
    <3>3. /\ Progressers(st, s) \in SUBSET Validator /\ W \in SUBSET Validator
          /\ Skippers(st, s) \in SUBSET Validator
      BY Zenon DEF Progressers, Skippers
    <3> HIDE DEF W
    <3>4. WeightOf(Progressers(t, s)) = WeightOf(Progressers(st, s)) + WeightOf(W)
      BY <3>1, <3>3, WeightAdds, Zenon
    <3>5. WeightOf(Skippers(t, s)) = WeightOf(Skippers(st, s)) + WeightOf(V)
      BY <3>2, <3>3, WeightAdds, Zenon
    <3> QED BY <1>2, <1>3, <1>6, <2>2, <3>4, <3>5, Zenon
  <2> QED BY <2>1, <2>2, Zenon
<1> QED
  BY <1>5, <1>7, <1>8, Zenon DEF Ledger, WeightsExact

\* RecordSkip keeps the ledger right and changes nothing else.
LEMMA RecordSkipKeeps ==
    ASSUME NEW st \in FsmState, Ledger(st), NEW s \in Slot, NEW V \in SUBSET Validator,
           \A v \in V : /\ ~ st.votes[s][v].skip
                        /\ st.votes[s][v].finalize = Unknown
                        /\ v \in Honest => s \in skipped[v]
    PROVE  SameButLedger(st, RecordSkip(st, s, V)) /\ Ledger(RecordSkip(st, s, V))
<1> DEFINE t == RecordSkip(st, s, V)
<1>1. SkipRecorded(st, t, s, V)
  BY RecordSkipFields, Zenon
<1> HIDE DEF t
<1>2. Ledger(t)
  BY <1>1, SkipLedger, Zenon
<1> QED BY <1>1, <1>2, Zenon DEF t, SkipRecorded
=============================================================================
