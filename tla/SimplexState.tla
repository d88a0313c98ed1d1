---------------------------- MODULE SimplexState ----------------------------
(***************************************************************************)
(* The Simplex finite state machine of one validator                       *)
(* (node/simplex/src/simplex_state.rs), one operator per method.  A method *)
(* that takes &mut self is an operator from the state record to the state  *)
(* record; its events are left in the record: BroadcastVote events in      *)
(* outbox, SlotSkipped events in skip_events.                              *)
(*                                                                         *)
(* Abstractions.  A candidate id is a pair <<slot, hash>>; Unknown is the  *)
(* None of an Option.  A certificate is the id it certifies: the           *)
(* *_published flag of a slot is set exactly when its certificate is       *)
(* stored, and signatures are not kept.  is_completed follows voted_final, *)
(* is_voted and is_timeout_skipped are only reported.  Time is left out:   *)
(* armed says that skip_timestamp and timeout_base are set (they always    *)
(* are together), and a due timeout is processed one slot at a time.       *)
(***************************************************************************)
EXTENDS SimplexSession, FiniteSetsExt

CONSTANTS
    slots_per_leader_window,
    max_leader_window_desync,
    LastSlot     \* bound: the highest slot of a vote, candidate or timeout

ASSUME WindowAssumption ==
    /\ slots_per_leader_window \in Nat \ {0}
    /\ max_leader_window_desync \in Nat
    /\ LastSlot \in Nat

\* RawCandidateId is a slot and a hash.
ASSUME CandidateIds ==
    /\ Genesis = <<-1, 0>>
    /\ \A c \in Candidate : c \in Nat \X Nat /\ c[1] = slotOf[c]

\* The slots in use fill the leader windows up to the bound.
ASSUME SlotBound ==
    /\ Slot = 0 .. LastSlot
    /\ (LastSlot + 1) % slots_per_leader_window = 0

Unknown == <<-2, 0>>

\* Every slot the FSM can look at: the window after LastSlot included.
Tracked == 0 .. LastSlot + slots_per_leader_window

WindowIdx(s) == s \div slots_per_leader_window

WindowStart(w) == w * slots_per_leader_window

WindowSlots(w) == WindowStart(w) .. WindowStart(w + 1) - 1

Vote == [kind : {"notarize", "finalize"}, id : Candidate]
            \cup [kind : {"skip"}, id : {<<s, 0>> : s \in Tracked}]

NewSlot ==
    [available_base |-> Unknown, pending_block |-> Unknown, voted_notar |-> Unknown,
     voted_skip |-> FALSE, voted_final |-> FALSE, observed_notar |-> Unknown,
     skipped |-> FALSE]

NoVotes == [notarize |-> Unknown, finalize |-> Unknown, skip |-> FALSE]

\* SimplexState::new: window 0 exists and slot 0 may build on genesis.
NewState ==
    [fnf |-> 0,                   \* first_non_finalized_slot
     fnp |-> 0,                   \* first_non_progressed_slot
     window |-> 0,                \* current_leader_window_idx
     w_lo |-> 0, w_hi |-> 1,      \* leader_windows: w_lo .. w_hi - 1
     slots |-> [s \in Tracked |-> IF s = 0 THEN [NewSlot EXCEPT !.available_base = Genesis]
                                           ELSE NewSlot],
     votes |-> [s \in Tracked |-> [v \in Validator |-> NoVotes]],
     notarize_weight |-> [c \in Candidate |-> 0],
     finalize_weight |-> [c \in Candidate |-> 0],
     skip_weight |-> [s \in Tracked |-> 0],
     notarize_or_skip_weight |-> [s \in Tracked |-> 0],
     notar_cert |-> [s \in Tracked |-> Unknown],
     final_cert |-> [s \in Tracked |-> Unknown],
     skip_cert |-> [s \in Tracked |-> FALSE],
     pending_slots |-> {},
     skip_intervals |-> {},
     skip_slot |-> 0,
     armed |-> FALSE,             \* skip_timestamp and timeout_base are set
     replay |-> FALSE,            \* startup_replay_active
     outbox |-> {},
     skip_events |-> {},
     panic |-> "none"]

----------------------------------------------------------------------------
(* Windows and slots.                                                      *)

\* A candidate or a vote must respect the horizon; a verified final
\* certificate may materialize any window.
ensure_window_exists(st, w, alloc) ==
    LET max_acceptable_slot == st.fnp + max_leader_window_desync * slots_per_leader_window
    IN  IF alloc = "bounded" /\ w > WindowIdx(max_acceptable_slot) + 1
        THEN st
        ELSE [st EXCEPT !.w_hi = Max({@, w + 1})]

EnsureSlot(st, s, alloc) == ensure_window_exists(st, WindowIdx(s), alloc)

HasWindow(st, s) == st.w_lo <= WindowIdx(s) /\ WindowIdx(s) < st.w_hi

\* get_slot_ref and get_slot_mut return a slot.
HasSlot(st, s) == s >= st.fnf /\ HasWindow(st, s)

BroadcastVote(st, kind, id) ==
    [st EXCEPT !.outbox = @ \cup {[kind |-> kind, id |-> id]}]

is_slot_too_far_ahead(st, s) ==
    s > st.fnp + max_leader_window_desync * slots_per_leader_window

is_vote_slot_too_far_ahead(st, s) ==
    s >= WindowStart(WindowIdx(st.fnp) + max_leader_window_desync + 1)

is_slot_skipped_cert(st, s) == HasSlot(st, s) /\ st.slots[s].skipped

is_slot_progressed(st, s) ==
    HasSlot(st, s) /\ (st.slots[s].skipped \/ st.slots[s].observed_notar # Unknown)

\* None < Some, then by slot, then by hash.
candidate_parent_ge(a, b) == a[1] > b[1] \/ (a[1] = b[1] /\ a[2] >= b[2])

\* Mutant: the last base offered wins.
last_base(st, s, base) ==
    IF HasSlot(st, s) THEN [st EXCEPT !.slots[s].available_base = base] ELSE st

\* The larger base wins.
add_available_base_max(st, s, base) ==
    IF HasSlot(st, s) /\ candidate_parent_ge(base, st.slots[s].available_base)
    THEN [st EXCEPT !.slots[s].available_base = base]
    ELSE st

prune_skip_intervals_before(st, s) ==
    [st EXCEPT !.skip_intervals = {b \in @ : b >= s}]

\* The linear scan that the skip_intervals index replaces, and falls back to.
FirstNonSkippedAfter(st, s) ==
    Min({n \in s + 1 .. LastSlot + slots_per_leader_window : ~ is_slot_skipped_cert(st, n)})

\* The first slot after s without a skip certificate, through the index of
\* boundaries behind runs of skipped slots.
find_next_nonskipped_slot(st, s) ==
    LET boundaries == {b \in st.skip_intervals : b >= s + 1}
    IN  IF ~ is_slot_skipped_cert(st, s + 1)
        THEN s + 1
        ELSE IF boundaries # {} /\ ~ is_slot_skipped_cert(st, Min(boundaries))
        THEN Min(boundaries)
        ELSE FirstNonSkippedAfter(st, s)

----------------------------------------------------------------------------
(* Voting rules.                                                           *)

\* Mutant: a Skip vote of ours does not stop us from finalizing.
CanFinalizeAfterSkip(st, c) ==
    LET slot == st.slots[slotOf[c]]
    IN  /\ HasWindow(st, slotOf[c])
        /\ slot.observed_notar = c
        /\ slot.voted_notar = c
        /\ ~ slot.voted_final

\* The slot is certified and notarized by us for the same candidate, and we
\* voted neither Finalize nor Skip.
CanFinalize(st, c) ==
    LET slot == st.slots[slotOf[c]]
    IN  /\ HasWindow(st, slotOf[c])
        /\ slot.observed_notar = c
        /\ slot.voted_notar = c
        /\ ~ slot.voted_final
        /\ ~ slot.voted_skip

try_final(st, c) ==
    LET t == EnsureSlot(st, slotOf[c], "bounded")
    IN  IF CanFinalize(t, c)
        THEN BroadcastVote([t EXCEPT !.slots[slotOf[c]].voted_final = TRUE], "finalize", c)
        ELSE t

\* Mutant: any candidate of a slot with a known base is accepted.
CanNotarizeAnyParent(st, c) ==
    LET s == slotOf[c]
    IN  /\ HasSlot(st, s)
        /\ st.slots[s].voted_notar = Unknown
        /\ st.slots[s].available_base # Unknown

\* Mutant: a second candidate of the slot may be notarized.
CanNotarizeTwice(st, c) ==
    LET s == slotOf[c]
    IN  /\ HasSlot(st, s)
        /\ st.slots[s].voted_notar # c
        /\ st.slots[s].available_base = parent[c]

\* try_notar succeeds: no Notarize vote of ours in the slot, and the
\* candidate builds on the base of its slot.
CanNotarize(st, c) ==
    LET s == slotOf[c]
    IN  /\ HasSlot(st, s)
        /\ st.slots[s].voted_notar = Unknown
        /\ st.slots[s].available_base = parent[c]

try_notar(st, c) ==
    LET s == slotOf[c]
        t == EnsureSlot(st, s, "bounded")
    IN  IF CanNotarize(t, c)
        THEN try_final(BroadcastVote([t EXCEPT !.slots[s].voted_notar = c,
                                               !.slots[s].pending_block = Unknown],
                                     "notarize", c), c)
        ELSE t

\* Retry every parked candidate; a slot leaves pending_slots when its
\* candidate was voted for, was dropped, or is already finalized.  try_notar
\* of a parked candidate touches its own slot only, whose window exists, so
\* the retries of the loop are made at once.
check_pending_blocks(st) ==
    LET Parked(s) == st.slots[s].pending_block
        open == {s \in st.pending_slots : HasSlot(st, s) /\ Parked(s) # Unknown}
        now == {s \in open : CanNotarize(st, Parked(s))}
        t == [st EXCEPT
                !.slots = [s \in Tracked |->
                              IF s \in now THEN [@[s] EXCEPT !.voted_notar = Parked(s),
                                                            !.pending_block = Unknown]
                                           ELSE @[s]],
                !.pending_slots = open \ now,
                !.outbox = @ \cup {[kind |-> "notarize", id |-> Parked(s)] : s \in now}]
        final == {s \in now : CanFinalize(t, Parked(s))}
    IN  [t EXCEPT
            !.slots = [s \in Tracked |-> IF s \in final THEN [@[s] EXCEPT !.voted_final = TRUE]
                                                       ELSE @[s]],
            !.outbox = @ \cup {[kind |-> "finalize", id |-> Parked(s)] : s \in final}]

on_candidate(st, c) ==
    LET s == slotOf[c]
        t == EnsureSlot(st, s, "bounded")
    IN  IF s < st.fnf \/ is_slot_too_far_ahead(st, s)
        THEN st
        ELSE IF CanNotarize(t, c)
        THEN check_pending_blocks(try_notar(t, c))
        ELSE IF /\ HasWindow(t, s)
                /\ t.slots[s].voted_notar = Unknown
                /\ t.slots[s].pending_block = Unknown
        THEN [t EXCEPT !.slots[s].pending_block = c, !.pending_slots = @ \cup {s}]
        ELSE t

\* Mutant: a slot that we notarized is never skipped.
SkipUnvotedSlots(st, w) ==
    {s \in WindowSlots(w) : HasWindow(st, s) /\ st.slots[s].voted_notar = Unknown}

\* Every slot of the window that we have not voted to finalize.
SlotsToSkip(st, w) ==
    {s \in WindowSlots(w) : HasWindow(st, s) /\ ~ st.slots[s].voted_final}

try_skip_window(st, w) ==
    LET t == ensure_window_exists(st, w, "bounded")
        skip == SlotsToSkip(t, w)
    IN  [t EXCEPT !.slots = [s \in Tracked |-> IF s \in skip THEN [@[s] EXCEPT !.voted_skip = TRUE]
                                                             ELSE @[s]],
                  !.outbox = @ \cup {[kind |-> "skip", id |-> <<s, 0>>] : s \in skip}]

----------------------------------------------------------------------------
(* Progress: cursors, leader window, base propagation.                     *)

advance_progress_cursor(st) ==
    [st EXCEPT !.fnp = Min({s \in @ .. LastSlot + slots_per_leader_window :
                                ~ is_slot_progressed(st, s)})]

maybe_jump_progress_cursor_after_finalization(st, s) ==
    [st EXCEPT !.fnp = Max({@, s + 1})]

\* Mutant: the timer starts one slot early.
set_timeouts_early(st) ==
    [st EXCEPT !.skip_slot = Max({st.fnp, WindowStart(st.window)}) - 1, !.armed = TRUE]

set_timeouts(st) ==
    [st EXCEPT !.skip_slot = Max({st.fnp, WindowStart(st.window)}), !.armed = TRUE]

\* Enter the leader window of the progress cursor.  The base of the cursor
\* slot must be known: get_progress_cursor_base_or_panic asserts it.
advance_leader_window_on_progress_cursor(st) ==
    LET now_window == WindowIdx(st.fnp)
        t == EnsureSlot(st, st.fnp, "bounded")
        base == IF st.fnp = 0 THEN Genesis
                ELSE IF HasSlot(t, st.fnp) THEN t.slots[st.fnp].available_base
                ELSE Unknown
        first == WindowStart(now_window)
        u == EnsureSlot(set_timeouts([t EXCEPT !.window = now_window]), first, "bounded")
    IN  IF now_window <= st.window \/ st.replay
        THEN st
        ELSE IF base = Unknown
        THEN [t EXCEPT !.panic = "progress cursor base unknown"]
        ELSE IF HasSlot(u, first) /\ u.slots[first].available_base = Unknown
        THEN [u EXCEPT !.slots[first].available_base = base]
        ELSE u

\* Mutant: the base goes to the next slot even when that slot is skipped.
propagate_base_to_next_slot(st, c) ==
    LET next == slotOf[c] + 1
        t == add_available_base_max(EnsureSlot(st, next, "bounded"), next, c)
    IN  check_pending_blocks(advance_progress_cursor(t))

propagate_base_after_notarization(st, c) ==
    LET next == find_next_nonskipped_slot(st, slotOf[c])
        t == add_available_base_max(EnsureSlot(st, next, "bounded"), next, c)
    IN  check_pending_blocks(advance_progress_cursor(t))

\* Mutant: without a base the slot is not marked as skipped.
MarkSkippedIfBased(st, s) ==
    IF HasSlot(st, s) /\ st.slots[s].available_base # Unknown
    THEN [st EXCEPT !.slots[s].skipped = TRUE] ELSE st

MarkSkipped(st, s) ==
    IF HasSlot(st, s) THEN [st EXCEPT !.slots[s].skipped = TRUE] ELSE st

\* Mutant: the boundary in front of a run that grew is kept.
keep_old_boundary(st, s, next) ==
    [st EXCEPT !.skip_intervals = @ \cup (IF next = s + 1 THEN {next} ELSE {})]

update_skip_intervals_after_skip_cert(st, s, next) ==
    [st EXCEPT !.skip_intervals = (@ \ {s}) \cup (IF next = s + 1 THEN {next} ELSE {})]

\* A skipped slot hands its base to the next slot without a skip
\* certificate.  While its own base is unknown the cursor stays where it is.
\* repaired is the method's result.
propagate_base_after_skip_cert(st, s) ==
    LET t == MarkSkipped(EnsureSlot(st, s, "bounded"), s)
        next == find_next_nonskipped_slot(t, s)
        u == update_skip_intervals_after_skip_cert(t, s, next)
        base == IF HasSlot(u, s) THEN u.slots[s].available_base ELSE Unknown
        x == add_available_base_max(EnsureSlot(u, next, "bounded"), next, base)
    IN  IF base = Unknown
        THEN [state |-> check_pending_blocks(u), repaired |-> FALSE]
        ELSE [state |-> check_pending_blocks(advance_progress_cursor(x)), repaired |-> TRUE]

\* Shared by the vote and the certificate path of a skip.
SkipProgress(st, s) ==
    LET r == propagate_base_after_skip_cert(st, s)
    IN  IF r.repaired THEN advance_leader_window_on_progress_cursor(r.state) ELSE r.state

\* The timer moves behind a notarized slot; its deadline is computed with an
\* unsigned difference between a slot and the start of the current window.
RescheduleAfter(st, s) ==
    LET cpp_timeout_slot == IF (s + 1) % slots_per_leader_window = 0 THEN s + 1 ELSE s + 2
    IN  IF ~ (st.armed /\ st.skip_slot <= s)
        THEN st
        ELSE IF cpp_timeout_slot < WindowStart(st.window)
        THEN [st EXCEPT !.panic = "timer offset underflow"]
        ELSE [st EXCEPT !.skip_slot = s + 1]

on_block_notarized(st, c) ==
    LET s == slotOf[c]
        t == EnsureSlot(st, s, "bounded")
        u == IF HasWindow(t, s) THEN [t EXCEPT !.slots[s].observed_notar = c] ELSE t
    IN  IF s < st.fnf
        THEN st
        ELSE try_final(RescheduleAfter(advance_leader_window_on_progress_cursor(
                 propagate_base_after_notarization(u, c)), s), c)

----------------------------------------------------------------------------
(* Vote accounting.                                                        *)

RecordNotarize(st, c, V) ==
    LET s == slotOf[c]
    IN  [st EXCEPT !.votes[s] = [v \in Validator |->
                                    IF v \in V THEN [@[v] EXCEPT !.notarize = c] ELSE @[v]],
                   !.notarize_weight[c] = @ + WeightOf(V),
                   !.notarize_or_skip_weight[s] =
                        @ + WeightOf({v \in V : ~ st.votes[s][v].skip})]

RecordFinalize(st, c, V) ==
    [st EXCEPT !.votes[slotOf[c]] = [v \in Validator |->
                                    IF v \in V THEN [@[v] EXCEPT !.finalize = c] ELSE @[v]],
               !.finalize_weight[c] = @ + WeightOf(V)]

\* Mutant: a vote of a validator that already notarized counts twice.
RecordSkipTwice(st, s, V) ==
    [st EXCEPT !.votes[s] = [v \in Validator |->
                                IF v \in V THEN [@[v] EXCEPT !.skip = TRUE] ELSE @[v]],
               !.skip_weight[s] = @ + WeightOf(V),
               !.notarize_or_skip_weight[s] = @ + WeightOf(V)]

RecordSkip(st, s, V) ==
    [st EXCEPT !.votes[s] = [v \in Validator |->
                                IF v \in V THEN [@[v] EXCEPT !.skip = TRUE] ELSE @[v]],
               !.skip_weight[s] = @ + WeightOf(V),
               !.notarize_or_skip_weight[s] =
                    @ + WeightOf({v \in V : st.votes[s][v].notarize = Unknown})]

\* The certificate checks after an applied vote.  Whether a certificate was
\* already published is read once, before the first of them is applied.
NotarizeThreshold(st, s) ==
    LET reached == {c \in Candidate : /\ slotOf[c] = s
                                      /\ st.notarize_weight[c] >= threshold_66(TotalWeight)}
    IN  IF st.notar_cert[s] # Unknown \/ reached = {}
        THEN st
        ELSE LET c == CHOOSE x \in reached : TRUE
                 t == on_block_notarized([st EXCEPT !.notar_cert[s] = c], c)
             IN  IF reached = {c} THEN t ELSE [t EXCEPT !.panic = "notarize cert conflict"]

\* first_non_finalized_slot moves before the parent chain is updated.
FinalizeThreshold(st, s) ==
    LET reached == {c \in Candidate : /\ slotOf[c] = s
                                      /\ st.finalize_weight[c] >= threshold_66(TotalWeight)}
        c == CHOOSE x \in reached : TRUE
        t == prune_skip_intervals_before(
                 [st EXCEPT !.final_cert[s] = c, !.fnf = s + 1], s + 1)
        u == propagate_base_after_notarization(t, c)
    IN  IF st.final_cert[s] # Unknown \/ reached = {}
        THEN st
        ELSE IF t.fnp > s THEN u
        ELSE advance_leader_window_on_progress_cursor(advance_progress_cursor(
                 maybe_jump_progress_cursor_after_finalization(u, s)))

check_thresholds_and_trigger(st, s) ==
    LET t == FinalizeThreshold(NotarizeThreshold(st, s), s)
    IN  IF /\ ~ st.skip_cert[s]
           /\ st.final_cert[s] = Unknown
           /\ s >= t.fnf
           /\ st.skip_weight[s] >= threshold_66(TotalWeight)
        THEN SkipProgress([t EXCEPT !.skip_cert[s] = TRUE, !.skip_events = @ \cup {s}], s)
        ELSE t

\* The verdict on a vote (VoteResult).
VoteResult(st, v, vote) ==
    LET s == vote.id[1]
        mine == st.votes[s][v]
        Against(seen) == seen # Unknown /\ seen # vote.id
    IN  IF is_vote_slot_too_far_ahead(st, s) THEN "Rejected"
        ELSE IF s < st.fnf THEN "SlotAlreadyFinalized"
        ELSE CASE vote.kind = "notarize" ->
                    IF Against(mine.notarize) THEN "Misbehavior"
                    ELSE IF mine.notarize = vote.id THEN "Duplicate"
                    ELSE IF Against(mine.finalize) THEN "Misbehavior" ELSE "Applied"
               [] vote.kind = "finalize" ->
                    IF Against(mine.finalize) THEN "Misbehavior"
                    ELSE IF mine.finalize = vote.id THEN "Duplicate"
                    ELSE IF Against(mine.notarize) \/ mine.skip THEN "Misbehavior" ELSE "Applied"
               [] vote.kind = "skip" ->
                    IF mine.skip THEN "Duplicate"
                    ELSE IF mine.finalize # Unknown THEN "Misbehavior" ELSE "Applied"

on_vote(st, v, vote) ==
    LET t == CASE vote.kind = "notarize" -> RecordNotarize(st, vote.id, {v})
               [] vote.kind = "finalize" -> RecordFinalize(st, vote.id, {v})
               [] vote.kind = "skip" -> RecordSkip(st, vote.id[1], {v})
    IN  IF VoteResult(st, v, vote) = "Applied"
        THEN check_thresholds_and_trigger(t, vote.id[1])
        ELSE st

----------------------------------------------------------------------------
(* Certificates received from other validators.                            *)

\* A certificate for a finalized slot is stored and has no other effect.
set_notarize_certificate(st, c, signers) ==
    LET s == slotOf[c]
        new == {v \in signers : /\ st.votes[s][v].notarize = Unknown
                                /\ st.votes[s][v].finalize \in {Unknown, c}}
        t == RecordNotarize([st EXCEPT !.notar_cert[s] = c], c, new)
    IN  IF st.notar_cert[s] # Unknown THEN st
        ELSE IF s < st.fnf THEN t
        ELSE on_block_notarized(t, c)

\* apply_final_cert_parent_chain_for_verified_certificate: the finalized
\* block becomes the base of the next slot, however far ahead it is.
FinalParentChain(st, c) ==
    LET s == slotOf[c]
        t == EnsureSlot(st, s, "verified")
        u == IF t.slots[s].observed_notar = Unknown
             THEN [t EXCEPT !.slots[s].observed_notar = c] ELSE t
        next == find_next_nonskipped_slot(u, s)
    IN  check_pending_blocks(add_available_base_max(EnsureSlot(u, next, "verified"), next, c))

\* Mutant: a signer counts although its Skip vote is recorded.
FinalizersOverSkip(st, c, signers) ==
    {v \in signers : /\ st.votes[slotOf[c]][v].finalize = Unknown
                     /\ st.votes[slotOf[c]][v].notarize \in {Unknown, c}}

\* The signers whose recorded votes do not contradict the certificate.
NewFinalizers(st, c, signers) ==
    {v \in signers : /\ st.votes[slotOf[c]][v].finalize = Unknown
                     /\ st.votes[slotOf[c]][v].notarize \in {Unknown, c}
                     /\ ~ st.votes[slotOf[c]][v].skip}

set_finalize_certificate(st, c, signers) ==
    LET s == slotOf[c]
        t == FinalParentChain(RecordFinalize([st EXCEPT !.final_cert[s] = c], c,
                                             NewFinalizers(st, c, signers)), c)
        u == prune_skip_intervals_before([t EXCEPT !.fnf = s + 1], s + 1)
    IN  IF s < st.fnf \/ st.final_cert[s] # Unknown
        THEN st
        ELSE IF st.fnp > s THEN u
        ELSE advance_leader_window_on_progress_cursor(advance_progress_cursor(
                 maybe_jump_progress_cursor_after_finalization(u, s)))

set_skip_certificate(st, s, signers) ==
    LET new == {v \in signers : ~ st.votes[s][v].skip /\ st.votes[s][v].finalize = Unknown}
        t == EnsureSlot(RecordSkip([st EXCEPT !.skip_cert[s] = TRUE,
                                              !.skip_events = @ \cup {s}], s, new), s, "bounded")
    IN  IF s < st.fnf \/ st.skip_cert[s] THEN st ELSE SkipProgress(t, s)

----------------------------------------------------------------------------
(* Timers and garbage collection.                                          *)

reset_timeouts_on_start(st) == set_timeouts(st)

\* One due deadline: the timer moves to the next slot, or the window of the
\* slot is skipped and the timer stops until the next window is entered.
process_timeouts(st) ==
    LET s == st.skip_slot
        next == [st EXCEPT !.skip_slot = s + 1]
        t == EnsureSlot(next, s, "bounded")
    IN  IF s < st.fnf THEN next
        ELSE IF ~ HasWindow(t, s) \/ t.slots[s].voted_final \/ t.slots[s].voted_skip THEN t
        ELSE [try_skip_window(t, WindowIdx(s))
                 EXCEPT !.skip_slot = WindowStart(WindowIdx(s) + 1), !.armed = FALSE]

\* Mutant: the boundary is not limited to finalized slots.
CleanupAnySlot(st, up_to_slot) == up_to_slot

\* Slots are forgotten only below the finalized boundary.
CleanupBoundary(st, up_to_slot) == Min({up_to_slot, st.fnf})

cleanup_slots(st, up_to_slot) ==
    LET boundary == CleanupBoundary(st, up_to_slot)
        Old(s) == s < boundary
        gone == WindowIdx(boundary)
    IN  IF boundary = 0 THEN st
        ELSE [st EXCEPT
                !.w_lo = Max({@, Min({gone, st.w_hi})}),
                !.slots = [s \in Tracked |-> IF WindowIdx(s) < gone THEN NewSlot ELSE @[s]],
                !.votes = [s \in Tracked |->
                              IF Old(s) THEN [v \in Validator |-> NoVotes] ELSE @[s]],
                !.notarize_weight = [c \in Candidate |-> IF Old(slotOf[c]) THEN 0 ELSE @[c]],
                !.finalize_weight = [c \in Candidate |-> IF Old(slotOf[c]) THEN 0 ELSE @[c]],
                !.skip_weight = [s \in Tracked |-> IF Old(s) THEN 0 ELSE @[s]],
                !.notarize_or_skip_weight = [s \in Tracked |-> IF Old(s) THEN 0 ELSE @[s]],
                !.notar_cert = [s \in Tracked |-> IF Old(s) THEN Unknown ELSE @[s]],
                !.final_cert = [s \in Tracked |-> IF Old(s) THEN Unknown ELSE @[s]],
                !.skip_cert = [s \in Tracked |-> IF Old(s) THEN FALSE ELSE @[s]]]
=============================================================================
