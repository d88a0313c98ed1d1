# Formal model of the Simplex consensus of ton-rust-node

TLA+ modules that model the consensus core of the node (`src/src/node/simplex`,
called Catchain 2.0 or Simplex), TLC configurations that check them on small
sessions, and TLAPS proofs of the properties that agreement between validators
rests on. File names without a directory are in `src/src/node/simplex/src`.

## 1. The system

ton-rust-node is a full node and validator of TON. Its parts:

| Part | State | Operations that change it | Talks to |
|---|---|---|---|
| `node/simplex` FSM (`simplex_state.rs`) | leader windows of slots, recorded votes and weights, certificates, finalized and progress cursors, skip timer | candidate, vote, notarize / finalize / skip certificate, timeout, clean-up, startup replay | session thread (events) |
| `node/simplex` session thread (`session_processor.rs`, `consensus_controller.rs`, `session.rs`) | task queue, pending finalized chains, candidate book, pending database results | ingress of votes, certificates and candidates; draining FSM events; delivery of finalized chains; garbage collection | FSM, receiver, database, validator group |
| `node/simplex` receiver (`receiver.rs`) | vote and certificate caches, resolver, standstill timer, bans | send, relay, repeat, deduplicate, answer candidate requests | overlay network, session thread |
| `node/simplex` recovery and database (`startup_recovery.rs`, `database*.rs`) | stored votes, certificates, finalized blocks, pool state | asynchronous writes, replay at start | FSM, session thread |
| `node/simplex` candidates (`candidate_*.rs`, `validation_controller.rs`, `collation_controller.rs`) | bodies, parents, validation and collation requests | repair of missing bodies, validation retries, collation per leader window | FSM, validator group |
| `node/catchain`, `node/validator-session` | block DAG; rounds and attempts | the previous consensus generation | overlay, validator group |
| `node/src` | engine, validator groups, collator, validator, shard states, archives | block application, session rotation, sync | all of the above |
| `node/storage` | reference-counted cells, block handles, archives | concurrent save and delete | node |
| `adnl` | channels, overlays, RLDP transfers, DHT, QUIC | datagrams, retransmission | everything remote |
| `vm`, `executor`, `block`, `assembler`, `emulator`, `block-json` | none shared | sequential computation on cells | collator, validator |
| `node-control`, `secrets-vault`, `lockfree`, `tl`, `common` | operator tool, keys, containers, generated code | | |

`PROJECT.json` lists the same parts with the modules that cover them.

How Simplex works. Time is cut into slots, slots into leader windows. The leader
of a window proposes a candidate per slot; a candidate names its parent. A
validator votes Notarize for a candidate whose parent is the *available base* of
its slot, Finalize for a candidate that is notarized and that it notarized
itself, and Skip for all slots of a window when the skip timer fires. Votes of
weight `threshold_66` make a certificate. A notarized or skipped slot is
*progressed*; the progress cursor (`first_non_progressed_slot`, `fnp`) and the
leader window follow, while the finalized cursor (`first_non_finalized_slot`,
`fnf`) follows finalization certificates. The base of a slot is the newest
notarized block all of whose successor slots have been skipped.

What is hard about it: a slot may be notarized *and* skipped; votes and
certificates arrive in any order, twice, or inside each other; the timer runs
against certificates; a finalized block ahead moves both cursors; windows exist
only up to a horizon; votes wait for the database after the FSM counted them;
everything must survive a restart.

What must hold: two honest validators never finalize conflicting blocks; an
honest validator never casts conflicting votes and is never accused; the FSM
never reaches one of its assertions; weights, indexes and cursors agree with the
recorded votes and certificates; every slot is eventually left behind.

## 2. Modules

| Module | Models | Lines of code |
|---|---|---|
| `SimplexCandidates` | slots, candidates and their parents | `candidate_parent_ge` in `simplex_state.rs` |
| `SimplexSession` | validators, weights, thresholds, quorums | `utils.rs` 158-173, `certificate.rs`, `session_description.rs` |
| `SimplexVoting` | the voting rules of all honest validators: the promise of the FSM | `try_notar`, `try_final`, `try_skip_window` |
| `SimplexVoting_proofs` | theorems about `SimplexVoting`; accounting of recorded votes | |
| `SimplexState` | the FSM, one operator per method | `simplex_state.rs` |
| `SimplexNode` | one FSM driven by its session thread, between validators that obey `SimplexVoting` and faulty ones | `session_processor.rs`, `consensus_controller.rs` |
| `SimplexInvariant` | the inductive invariant of the FSM | |
| `SimplexState_proofs`, `SimplexProgress_proofs`, `SimplexNode_proofs` | what each method of the FSM preserves; cursors, bases and the skip index; theorems about the node | |
| `SimplexDelivery` | from a finalization certificate to the callbacks: delivery journal, candidate book, repair of missing bodies and certificates | `consensus_controller.rs` 1278-2153, `candidate_controller.rs`, `receiver.rs`, `startup_recovery.rs` |
| `MCVoting`, `MCNode`, `MCDelivery` | small sessions for TLC | |

### SimplexCandidates, SimplexSession

Constants only. `WeightOf` is the weight of a *set* of validators and is assumed
to be a measure (natural numbers, zero for the empty set, modular), which the sum
of node weights is; no proof depends on how the sum is computed. Faulty
validators weigh less than `threshold_33`. A candidate has a slot and a parent in
a lower slot (the code checks this before the FSM sees a candidate). These are
named assumptions, which TLC evaluates for every instance.

### SimplexVoting

State: the votes each honest validator has put on the wire. Faulty validators
count as having signed everything, so `NotarCert(c)` says that a certificate for
`c` *can* exist. Actions `Notarize`, `Finalize`, `Skip`, one per voting rule. A
validator may Skip a slot it notarized and may notarize a slot it skipped (as in
the code), but Finalize excludes Skip and the reverse.

### SimplexState

The FSM record has the fields of `struct SimplexState` under their names, with
`fnf`, `fnp` and `window` for the two cursors and `current_leader_window_idx`.
`leader_windows` is the interval `w_lo .. w_hi - 1`. `BroadcastVote` events go to
`outbox`, `SlotSkipped` events to `skip_events`. Every operator keeps the order of
the method: for example `FinalizeThreshold` moves `fnf` before the parent chain is
updated, as `check_thresholds_and_trigger` does, while `set_finalize_certificate`
does it after. `panic` records a failed assertion or an unsigned underflow.

Abstracted: signatures, block bodies, time (the timer is armed or not, and a due
deadline is processed one slot at a time, which includes every way the loop of
`process_timeouts` can batch them), the adaptive backoff of the timeouts, the
scan limit of `fallback_scan_first_non_skipped`, and what only diagnostics read.
The operators of `SimplexState` that support startup replay are still to come. Two
loops whose iterations do not touch each other's slots are written as one step:
`check_pending_blocks` (a retried candidate reads and changes its own slot only) and the
clean-up for a batch of `SlotSkipped` events (that for the highest slot includes the
others). Slots fill whole leader windows, and a candidate is a pair of slot and hash.

### SimplexNode

One step is one task of the session thread: one FSM call followed by the events it
queued. That is what the code does: `on_vote`, `on_certificate` and the candidate
path call `check_all`, which drains all events before the next task. Actions:
`RecvVote`, `RecvNotarizeCert`, `RecvFinalizeCert`, `RecvSkipCert`,
`RecvCandidate`, `Timeout`, `SendVote` (the vote passed its wait for the database
and goes out), `DropVote` (the wait failed: the vote is given up, the FSM's flags
stay). `OtherVotes` lets the other honest validators act under the abstract
rules. The network is the set of votes ever sent: any of them may arrive, in any
order, any number of times, or never; own votes arrive the same way (loopback).

Garbage collection runs on skips only. `maybe_apply_finalized_state`
(`consensus_controller.rs` 2126) also asks for it after a finalization, but only
if `is_slot_progressed`, which is false for every slot below `fnf`, hence for
every finalized one.

### SimplexDelivery

A finalization certificate finalizes a candidate and all its ancestors, whose
bodies and certificates may be missing. `try_finalize_recursive_chain` walks from
the trigger towards genesis; for each block it hands the finalized record to the
database, without waiting for the write, moves the cursors and calls
`on_block_finalized`, or asks for what is missing and leaves
the trigger in `finalized_pending_body`. The walk is a fold of `Visit`, one
iteration of the loop, over the ancestry; its early `break`s set `stop`. The single
variable `node` holds the journal (`pending`, `applied`, `sent`, `sent_seqno`, the
heads), the candidate book, the throttled and delayed requests of the candidate
controller (`requested`, `scheduled`), and the receiver's cache and open requests
(`cache_body`, `cache_notar`, `asked`), and the certificate writes under way
(`storing`, `relaying`). `calls` records the callbacks and what signed them;
`restored`, `resumed`, `drained` and `pruned` are history for the properties.

Initial states are what `apply_bootstrap` makes of the database (`NewNode`).
`DatabaseContents` is what it may find: finalized records filtered to a prefix of
the chain, some of them marked `is_final`; finalization, notarization and skip
certificates; candidate infos; payloads. Notarization certificates go back into the
FSM and into the receiver's cache, payloads and rebuilt empty candidates into its
cache, infos into the candidate book as entries with a body, records without an
info as stubs, and every recorded block counts as delivered. The last record with
`is_final` sets the cursors (`resumed`). A finalization certificate ahead of the
records moves the FSM, but the event it causes is drained (`drained`). A restored
notarization without a body is requested, unless replayed votes had restored it
before the events were drained, which the model leaves open.

Actions: `Broadcast`, `handle_candidate_response` (both parts of a candidate or
one), `NotarCertStored` and `NotarCertLost` (the write of a response's certificate
ends), `NotarizationReached` (a certificate from votes or from the wire) and
`NotarCertRelayed` (its write ends, and the receiver caches it unless the write
failed), `BlockFinalized`, `handle_slot_skipped` (with the clean-up of old slots),
`set_mc_finalized_block`, `SendRequest`, `RequestExpires`, and `OtherCandidate`,
the arrival of an unrelated candidate, which runs the pending walks again.

Simplified: the blocks that become finalized lie on one chain with one candidate
per slot (`SimplexVoting` shows the first), so rival bodies do not occur, and a
block's sequence number follows its parent's. The closures that processor and
receiver post to each other run at once. Retries of a request with another peer are
one open request that any peer may answer. `ensure_candidate_available` and the
rejection of slots too far ahead are left out.

Three constants bound an instance: `Disks`, the database contents it starts from;
`MaySkip`, the slots that may obtain a skip certificate; `FailingWrites`, the
candidates whose asynchronous writes (certificate, info, finalized record) may fail.

## 3. Runs

| Run | Instance | Shows |
|---|---|---|
| `voting` | 4 validators of weight 1, one faulty; slots 0-2; a candidate in slot 0, two in slot 1 (one over the skipped slot 0), one in slot 2 | the voting rules give unique notarization, no slot finalized and skipped, one finalized chain |
| `node_votes` | weights 2 (FSM), 3, 2 (faulty), quorum 5; one slot, two rival candidates; all votes and certificates of all quorums | vote accounting, no accusation of honest validators, FSM implements `SimplexVoting` |
| `node_window` | one window of two slots, a successor and a fork over slot 0; votes only | no panic, the record stays sound, FSM implements `SimplexVoting` with window skips, parked candidates |
| `node_certs` | three windows of one slot, driven by certificates and own timer; history of one slot | base of the cursor, skip index, effect of certificates, soundness of the record with clean-up, nothing undone |
| `node_live` | two windows of one slot, votes and certificates | every slot is left behind |
| `horizon_base` | horizon of one window | violation: base lost behind a run of skips as long as the horizon |
| `horizon_cert` | horizon of one window, four slots | violation: a skip certificate beyond the horizon is stored without effect |
| `delivery_shard` | shard; blocks in slots 0 and 1, an empty candidate in slot 2, skips of slots 1 and 3; history of two slots; writes of the second block may fail; the databases of `OneMissing` | each block delivered once and with matching signatures; no assertion fails; a trigger is forgotten only when its chain is delivered; the cursors follow the highest block |
| `delivery_master` | masterchain; two blocks, skips of slots 1 and 2; every database content | every block carries the certificate of its own candidate; triggers and cursors as above |
| `delivery_live` | shard; two blocks, no pruning; writes of the first block may fail; every database content | an answer with both parts is taken whatever was finalized meanwhile; a finalized chain is delivered unless a candidate of it is stranded in the receiver |
| `split_response` | new shard session, two blocks and an empty candidate | violation: a body that follows its certificate is refused |
| `finalized_head` | the same | violation: a block applied late takes the finalized head back |

Bounds. `LastSlot` bounds slots, `DirectVoters` whose votes arrive one by one,
`CertSigners` the signer sets of certificates. Two slots are the least with a
parent relation, three the least with a skip run between a block and its
successor's slot; two rivals are the least for equivocation; a quorum of 5 out of
2+3+2 makes the FSM's vote, the other honest vote and the faulty vote each matter
in some quorum. All combinations in one run would exceed minutes, so each run
keeps the inputs its properties need. The horizon is not reached in the `pass`
runs (it is the subject of the two violation runs), clean-up is (history of 1).

The delivery chains are a trigger and an ancestor that is missing, with, in
`delivery_shard`, an empty trigger on top that passes its certificate on. Slots 2
and 3 behind the chains are there so that a skip can prune slots while triggers are
pending. With two candidates every database content is an initial state, the empty
one included. With three, a session that starts from nothing has several million
states; `delivery_shard` therefore starts where at most one candidate, or one part of
one, is missing, or where a record, an info or the event of a finalization was lost
(`OneMissing`). All arrivals, finalizations and failures interleave freely from
there.

In the node runs deadlock is not checked: a session in which every vote has been cast and
delivered really has nothing left to do.

Fairness (`node_live`). Each conjunct is weak fairness of an action with its
enabling condition written out. Votes of honest validators are delivered: the
receiver repeats them on standstill. A certificate that another honest validator
acted on reaches us: certificates are relayed when they are created or accepted.
Own votes leave the outbox, by being sent or given up. Our timer fires. Another
honest validator that has reached a slot either obtains and relays its
notarization certificate or times out and skips it unless it voted Finalize. No
fairness is assumed of faulty validators, of candidates, or of Notarize and
Finalize votes of others.

Fairness (`delivery_live`), again with enabling conditions written out: an open
request is answered with both parts in the end (the receiver retries without limit,
with growing timeouts, over all peers, and a finalized block has honest holders);
the certificate of an answer is stored or its write reports failure; delayed
requests run; the throttle interval passes; the session keeps receiving candidates
of later slots, which runs the pending walks again. Partial answers, broadcasts,
certificates from votes, skips and masterchain updates may happen at any time or
never, in any order. `DeliveredUnlessStranded` has one exception, `Stranded`: the
receiver holds both parts of a candidate, so that it never asks again, and the
processor refused the body (finding 3) or lost the certificate to a failed write
(`NotarCertLost`). The run shows that nothing else holds a chain up.

## 4. Findings

1. `horizon_base`: `propagate_base_after_notarization` gives the base to the slot
   behind a run of skips through an allocation bounded by the horizon, before the
   cursor advances. If the run is as long as the horizon, the base is dropped and
   the assertion in `get_progress_cursor_base_or_panic` fails.
2. `horizon_cert`: `set_skip_certificate` stores a certificate beyond the horizon,
   does not mark the slot, and later copies are dropped as accepted.

Both need a run of slots as long as `max_leader_window_desync` windows (250 by
default), so they are boundary cases of a long outage.

3. `split_response`: after a certificate-only answer, the body arrives without a
   certificate, is taken for a broadcast and refused, since its slot is finalized.
   Further requests end as complete, and the chain is not delivered until the
   receiver's cache forgets the slot. A partial answer is not the only way there: a
   certificate that the receiver cached from votes, or at startup, makes the
   whole answer forward its body alone; and a body broadcast after its slot was
   finalized is cached by the receiver, refused by the processor, and not forwarded
   again.
4. `finalized_head`: an empty candidate moves `finalized_head_slot` and
   `finalized_head_block_id` but not `finalized_head_seqno`, so an older block whose
   body arrives later still exceeds the latter and takes the head slot back. The
   sequence numbers and the accepted head do not go back (`CursorsAgree`).

An observation without a run of its own: the clean-up of old slots after a
finalization never runs (see SimplexNode above).

## 5. Proofs

Everything in this section holds for every value of the constants that satisfies the
named assumptions, and is checked by TLAPS to the last step.

### Voting (`SimplexVoting_proofs`)

For every set of validators, every weight measure with faulty weight below a third,
every set of slots and every candidate tree: `VotingTypeCorrect`,
`NotarizationIsUnique`, `FinalizationExcludesSkip`, `FinalizedBlocksAreKept` and
`Agreement`, the five invariants of run `voting`.

None of the last four is inductive: they speak of certificates, while steps add
single votes. The inductive invariant `VotingInv` speaks of single validators:
types, `OneBlockPerSlot` (all Notarize and Finalize votes of a validator in a slot are
for one block), `FinalizeExcludesSkip`, `NotarizeIsJustified` (the
parent of a notarized candidate is notarized, and the slots in between skipped)
and `FinalizeIsNotarized`. `VotingInvariant` shows it invariant; votes only grow
(`StepGrows`), so certificates and justifications persist.

The argument from there: two quorums share an honest validator
(`QuorumsShareHonest`, from the measure and the rounding of the thresholds,
`ThresholdOverlap`). Hence unique notarization and no slot with Finalize and Skip
certificates. If `b` is finalized, the parent of a block notarized above `b` is
not below `b`, since the slot of `b` would have been skipped
(`ParentNotBelowFinal`). So the set of blocks that are either below `b`, or
descend from it, is closed under the notarized children relation, which gives
`FinalizedIsKept` without induction over slots: `IsAncestor` quantifies over
closed sets. `Agreement` follows.

### The FSM (`SimplexInvariant`, `SimplexState_proofs`, `SimplexProgress_proofs`, `SimplexNode_proofs`)

For every session, leader window size, horizon, history length and order of inputs:

- `NodeObeysVotingRules`: the FSM implements `SimplexVoting`; with `Agreement` this
  gives `NodeAgreement`;
- `FsmStaysSound`: the invariant `FsmIsSound` of `node_window` and `node_certs`;
- `RecordedVotesNeverConflict`, `WeightsAreExact`, `HonestAreNeverAccused`: the
  properties of `node_votes`.

A vote of the FSM is right for reasons spread over the whole record, so the inductive
invariant `NodeInv` is large. `VotingInv` holds of the votes on the wire, and `FsmInv`
of the record:

- `OwnVotes`: our votes, whether sent or waiting in the outbox, obey the rules among
  themselves (`VotesAgree`); a waiting vote is justified and not yet on the wire
  (`OutboxIsDue`); and in every slot whose window has not been forgotten the flags
  remember them (`FlagsRemember`). The last one is what garbage collection could break.
  It removes windows below the finalized cursor only, where no vote is cast any more.
- `Beliefs`: an observed notarization, a skip certificate and an available base are
  backed by votes on the wire. The base is the delicate part. It crosses skipped slots,
  so that the slots in between must all have certificates when it is handed over.
- `Indexed`: every run of skip certificates ends at a member of `skip_intervals`.
  `find_next_nonskipped_slot` trusts this index (`NextNonSkipped`), and a base handed to
  a slot too far ahead would justify a Notarize vote wrongly.
- `Ledger`: every recorded vote was signed, recorded votes do not conflict, and the four
  accumulators are the weights of the recorded voters. It is needed because the FSM
  makes certificates from accumulators, not from votes (`ThresholdCertifies`).

Each method has a lemma: from any record that satisfies `FsmInv` it leads to one that
does, and leaves alone what its callers rely on (`Keeps`). The lemmas follow the calls:
`TryNotarKeeps`, `TryFinalKeeps`, `CheckPendingKeeps`, `OnCandidateKeeps`;
cursors, windows and timers; the three kinds of recorded votes (their accounting is in
`SimplexVoting_proofs`); clean-up; thresholds and certificates. `NodeStep` has one step per action. A vote that is sent moves from
outbox to wire, and `OutboxIsDue` makes this a step of `SimplexVoting`. Votes of others
only add to what `Beliefs` rests on (`FsmInvPersists`). The largest element of a set
of slots (`MaxExists`, `MinExists`) comes from well-founded induction over the
naturals, in its form without an operator parameter.

### Only model-checked

- Liveness (`EverySlotProgresses`, `DeliveredUnlessStranded`): out of reach of the proof
  system.
- `SimplexDelivery`: the walk is a fold over a chain, and what it computes needs
  induction over data.
- `NeverPanics` and `CertificatesTakeEffect`: not true at the horizon (section 4), so
  there is no theorem for every value of the constants. `SkipIndexExact`, `CursorBase`
  and `NothingIsUndone` are about the FSM as well; `Indexed` and `Beliefs` are the
  parts of them that voting rests on.

## 6. Plan

Done: the inventory, the abstract rules with their proofs, the FSM outside
startup with the proof that it implements them, one node between others, the delivery of finalized chains with the repair
of missing candidates.

Next, most important first:

1. `SimplexRecovery`: database with asynchronous writes, crash, replay
   (`startup_recovery.rs`, `set_first_non_finalized_slot`,
   `mark_slot_voted_on_restart`, `generate_restart_skip_votes`,
   `repair_progress_cursor_base_after_startup_replay`). Properties: no conflicting
   votes across a restart, cursors and bases as before the crash, progress after
   it; a callback that waited for a certificate at the crash.
2. `SimplexReceiver`: deduplication, standstill repetition, choice of peers and
   bans; the network fairness of `node_live` as its promise.
3. Validation retries, the parent resolver, the collation pipeline per window.
4. Session lifecycle in the validator group; catchain and validator-session;
   reference-counted storage; RLDP transfers.
5. Proofs: the cursor invariants away from the horizon; invariants of recovery.

Not planned: virtual machine, executor, collator and block validation (sequential
computation over whole states), serialisation, cryptography, telemetry.
