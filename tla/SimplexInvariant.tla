------------------------- MODULE SimplexInvariant -------------------------
(***************************************************************************)
(* The invariant of the FSM: what ties the record of SimplexState to the   *)
(* votes on the wire and to itself, between any two steps of the node.     *)
(***************************************************************************)
EXTENDS SimplexNode

BlockId == Candidate \cup {Unknown}

Base == Candidate \cup {Genesis, Unknown}

\* Where a cursor may stand: the slot after the bound included.
Cursor == 0 .. LastSlot + 1

SlotState ==
    [available_base : Base, pending_block : BlockId, voted_notar : BlockId,
     voted_skip : BOOLEAN, voted_final : BOOLEAN, observed_notar : BlockId, skipped : BOOLEAN]

SlotVotes == [notarize : BlockId, finalize : BlockId, skip : BOOLEAN]

PanicReason ==
    {"none", "progress cursor base unknown", "timer offset underflow", "notarize cert conflict"}

FsmState ==
    [fnf : Cursor, fnp : Cursor, window : Nat, w_lo : Nat, w_hi : Nat,
     slots : [Tracked -> SlotState],
     votes : [Tracked -> [Validator -> SlotVotes]],
     notarize_weight : [Candidate -> Nat], finalize_weight : [Candidate -> Nat],
     skip_weight : [Tracked -> Nat], notarize_or_skip_weight : [Tracked -> Nat],
     notar_cert : [Tracked -> BlockId], final_cert : [Tracked -> BlockId],
     skip_cert : [Tracked -> BOOLEAN],
     pending_slots : SUBSET Tracked, skip_intervals : SUBSET Cursor,
     skip_slot : Nat, armed : BOOLEAN, replay : BOOLEAN,
     outbox : SUBSET Vote, skip_events : SUBSET Slot, panic : PanicReason]

\* The votes that we have cast: on the wire, or waiting to be sent.
MyNotarize(st) ==
    notarized[Me] \cup {c \in Candidate : [kind |-> "notarize", id |-> c] \in st.outbox}

MyFinalize(st) ==
    finalized[Me] \cup {c \in Candidate : [kind |-> "finalize", id |-> c] \in st.outbox}

MySkip(st) ==
    skipped[Me] \cup {s \in Tracked : [kind |-> "skip", id |-> <<s, 0>>] \in st.outbox}

\* The record of slot s has never been forgotten.
Live(st, s) == WindowIdx(st.fnf) <= WindowIdx(s)

\* The flags of a slot remember every vote of ours that could conflict.
FlagsRemember(st) ==
    \A s \in Tracked :
        /\ ~ (st.slots[s].voted_final /\ st.slots[s].voted_skip)
        /\ Live(st, s) =>
            /\ \A c \in MyNotarize(st) : slotOf[c] = s => st.slots[s].voted_notar = c
            /\ \A c \in MyFinalize(st) :
                  slotOf[c] = s => st.slots[s].voted_final /\ st.slots[s].voted_notar = c
            /\ s \in MySkip(st) => st.slots[s].voted_skip

\* Our votes, sent or not, obey the rules among themselves.
VotesAgree(st) ==
    /\ \A c, d \in MyNotarize(st) \cup MyFinalize(st) : slotOf[c] = slotOf[d] => c = d
    /\ \A c \in MyFinalize(st) : slotOf[c] \notin MySkip(st)
    /\ MySkip(st) \subseteq Slot

\* A waiting vote is justified by certificates and was not sent before.
OutboxIsDue(st) ==
    \A c \in Candidate :
        /\ [kind |-> "notarize", id |-> c] \in st.outbox => Justified(c) /\ c \notin notarized[Me]
        /\ [kind |-> "finalize", id |-> c] \in st.outbox => NotarCert(c) /\ c \notin finalized[Me]

\* b may serve as the base of slot s.
BaseFor(b, s) ==
    /\ b = Genesis \/ (b \in Candidate /\ NotarCert(b))
    /\ \A t \in Slot : SlotOf(b) < t /\ t < s => SkipCert(t)

\* What the record of a slot says of the session is backed by certificates.
Beliefs(st) ==
    \A s \in Tracked :
        /\ st.slots[s].observed_notar # Unknown =>
              /\ slotOf[st.slots[s].observed_notar] = s
              /\ NotarCert(st.slots[s].observed_notar)
        /\ st.slots[s].pending_block # Unknown => slotOf[st.slots[s].pending_block] = s
        /\ st.slots[s].available_base # Unknown => BaseFor(st.slots[s].available_base, s)
        /\ st.skip_cert[s] => s \in Slot /\ SkipCert(s)
        /\ st.slots[s].skipped /\ st.fnf <= s => st.skip_cert[s]

\* A run of skipped slots ends at a boundary of the skip_intervals index.
IndexedAt(st, s) == st.skip_cert[s] => st.skip_cert[s + 1] \/ s + 1 \in st.skip_intervals

Indexed(st) == \A s \in Slot : st.fnf <= s => IndexedAt(st, s)

\* The votes recorded of validator v in slot s were signed and do not conflict.
Signed(mine, s, v) ==
    /\ mine.notarize # Unknown =>
          slotOf[mine.notarize] = s /\ (v \in Honest => mine.notarize \in notarized[v])
    /\ mine.finalize # Unknown =>
          slotOf[mine.finalize] = s /\ (v \in Honest => mine.finalize \in finalized[v])
    /\ mine.skip => (v \in Honest => s \in skipped[v])
    /\ Unknown \in {mine.notarize, mine.finalize} \/ mine.notarize = mine.finalize
    /\ ~ (mine.finalize # Unknown /\ mine.skip)

RecordedAreSigned(st) == \A s \in Tracked, v \in Validator : Signed(st.votes[s][v], s, v)

Notarizers(st, c) == {v \in Validator : st.votes[slotOf[c]][v].notarize = c}

Finalizers(st, c) == {v \in Validator : st.votes[slotOf[c]][v].finalize = c}

Skippers(st, s) == {v \in Validator : st.votes[s][v].skip}

Progressers(st, s) ==
    {v \in Validator : st.votes[s][v].skip \/ st.votes[s][v].notarize # Unknown}

\* The accumulators hold the weights of the recorded votes.
WeightsExact(st) ==
    /\ \A c \in Candidate : /\ st.notarize_weight[c] = WeightOf(Notarizers(st, c))
                            /\ st.finalize_weight[c] = WeightOf(Finalizers(st, c))
    /\ \A s \in Tracked : /\ st.skip_weight[s] = WeightOf(Skippers(st, s))
                          /\ st.notarize_or_skip_weight[s] = WeightOf(Progressers(st, s))

OwnVotes(st) == FlagsRemember(st) /\ VotesAgree(st) /\ OutboxIsDue(st)

Ledger(st) == RecordedAreSigned(st) /\ WeightsExact(st)

FsmInv(st) ==
    /\ st \in FsmState
    /\ OwnVotes(st)
    /\ Beliefs(st)
    /\ Indexed(st)
    /\ Ledger(st)

\* Between any two steps of the node its record is sound: own votes are
\* remembered until they can no longer conflict, what a slot believes is backed
\* by certificates, the skip index has no gap, and the weights that decide on
\* certificates are those of signed votes.
FsmIsSound == FsmInv(fsm)

\* t differs from st in the ledger of votes and weights only.
SameButLedger(st, t) ==
    /\ t \in FsmState
    /\ t.fnf = st.fnf
    /\ t.slots = st.slots
    /\ t.outbox = st.outbox
    /\ t.skip_cert = st.skip_cert
    /\ t.skip_intervals = st.skip_intervals

=============================================================================
