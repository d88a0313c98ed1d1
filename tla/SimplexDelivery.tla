--------------------------- MODULE SimplexDelivery ---------------------------
(***************************************************************************)
(* From a finalization certificate to the on_block_finalized callbacks:    *)
(* the delivery journal of node/simplex/src/consensus_controller.rs, the   *)
(* candidate book and repair requests of candidate_controller.rs, and the  *)
(* repair half of receiver.rs.  A finalization certificate finalizes its   *)
(* candidate and all ancestors.  Their bodies and notarization             *)
(* certificates may still be missing: the walk over the chain asks for     *)
(* them, and is run again when something arrives.                          *)
(*                                                                         *)
(* The FSM is reduced to what the journal reads of it.  The blocks that    *)
(* obtain a finalization certificate are ancestors of Tip, which is what   *)
(* SimplexVoting shows of them (Consistency).  The processor and the       *)
(* receiver post closures to each other; each is taken to run at once.     *)
(***************************************************************************)
EXTENDS SimplexCandidates, SequencesExt

CONSTANTS
    isEmpty,             \* candidates that repeat the block of their parent
    Tip,                 \* the last candidate to be finalized
    IsMasterchain,       \* get_shard().is_masterchain()
    MAX_HISTORY_SLOTS,
    FailingWrites,       \* candidates whose database writes may fail
    MaySkip,             \* slots that may obtain a skip certificate
    Disks                \* database contents that the session may start from

VARIABLE node

ASSUME DeliveryAssumption ==
    /\ isEmpty \in [Candidate -> BOOLEAN]
    /\ \A c \in Candidate : isEmpty[c] => parent[c] # Genesis
    /\ \A c, d \in Candidate : slotOf[c] = slotOf[d] => c = d
    /\ Tip \in Candidate
    /\ IsMasterchain \in BOOLEAN
    /\ MAX_HISTORY_SLOTS \in Nat \ {0}
    /\ FailingWrites \subseteq Candidate
    /\ MaySkip \subseteq Slot

----------------------------------------------------------------------------
(* The chain of a candidate.                                               *)

\* c and its ancestors, as the walk meets them.
Ancestry[c \in Candidate] ==
    <<c>> \o (IF parent[c] = Genesis THEN <<>> ELSE Ancestry[parent[c]])

AncestorsOf ==
    [c \in Candidate \cup {Genesis} |-> IF c = Genesis THEN {} ELSE ToSet(Ancestry[c])]

\* The block that c stands for, named by the candidate that introduced it.
BlockOf[c \in Candidate] == IF isEmpty[c] THEN BlockOf[parent[c]] ELSE c

Block == {c \in Candidate : ~ isEmpty[c]}

\* Sequence number of c's block, counted from the start of the session.
seq_no ==
    [c \in Candidate \cup {Genesis} |-> Cardinality({b \in AncestorsOf[c] : ~ isEmpty[b]})]

Seqno == 0 .. Cardinality(Block)

----------------------------------------------------------------------------
(* The FSM, as far as it is read here.                                     *)

first_non_finalized_slot(n) == Max({0} \cup {slotOf[c] + 1 : c \in n.final})

has_skip_certificate_for_slot(n, s) == s >= first_non_finalized_slot(n) /\ s \in n.skipped

\* A slot below the finalization cursor has no slot state (get_slot_ref).
is_slot_progressed(n, s) ==
    /\ s >= first_non_finalized_slot(n)
    /\ s \in n.skipped \/ \E c \in n.notar : slotOf[c] = s

----------------------------------------------------------------------------
(* Repair requests.                                                        *)

has_real_body(n, c) == n.book[c] = "body"

\* The receiver asks peers unless it has both parts of c in its cache.
request_candidate_impl(n, c) ==
    IF c \in n.cache_body \cap n.cache_notar THEN n
    ELSE [n EXCEPT !.asked = @ \cup {c}]

\* What both forms of request_candidate check before they go ahead.
MayRequest(n, c) ==
    /\ ~ has_skip_certificate_for_slot(n, slotOf[c])
    /\ c \notin n.requested
    /\ ~ (has_real_body(n, c) /\ c \in n.notar)

DropIfSkipped(n, c) ==
    IF has_skip_certificate_for_slot(n, slotOf[c])
    THEN [n EXCEPT !.requested = @ \ {c}]
    ELSE n

request_candidate(n, c) ==
    IF MayRequest(n, c)
    THEN request_candidate_impl([n EXCEPT !.requested = @ \cup {c}], c)
    ELSE DropIfSkipped(n, c)

\* With CANDIDATE_REQUEST_DELAY: the peers are asked by a delayed action.
RequestLater(n, c) ==
    IF MayRequest(n, c)
    THEN [n EXCEPT !.requested = @ \cup {c}, !.scheduled = @ \cup {c}]
    ELSE DropIfSkipped(n, c)

----------------------------------------------------------------------------
(* History pruning.                                                        *)

\* Mutant: the callbacks already sent are forgotten with their slots.
prune_all_below(n, up_to_slot) ==
    [n EXCEPT !.pending = {c \in @ : slotOf[c] >= up_to_slot},
              !.sent = {c \in @ : slotOf[c] >= up_to_slot},
              !.sent_seqno = [q \in Seqno |->
                  IF SlotOf(@[q]) < up_to_slot THEN Genesis ELSE @[q]]]

\* The journal forgets old triggers and sent marks, but not the sequence
\* numbers that it has delivered.
prune_below(n, up_to_slot) ==
    [n EXCEPT !.pending = {c \in @ : slotOf[c] >= up_to_slot},
              !.sent = {c \in @ : slotOf[c] >= up_to_slot}]

cleanup_old_slots(n, s) ==
    LET up_to_slot == IF s >= MAX_HISTORY_SLOTS THEN s - MAX_HISTORY_SLOTS + 1 ELSE 0
        boundary == Min({up_to_slot, first_non_finalized_slot(n)})
        m == prune_below(n, up_to_slot)
    IN  IF up_to_slot = 0 THEN n
        ELSE [m EXCEPT
                !.notar = {c \in @ : slotOf[c] >= boundary},
                !.requested = {c \in @ : slotOf[c] >= up_to_slot},
                !.asked = {c \in @ : slotOf[c] >= up_to_slot},
                !.cache_body = {c \in @ : slotOf[c] >= up_to_slot},
                !.cache_notar = {c \in @ : slotOf[c] >= up_to_slot},
                !.pruned = Max({@, up_to_slot})]

----------------------------------------------------------------------------
(* Applying one block of a finalized chain.                                *)

\* Mutant: the last block to be applied becomes the accepted head.
accept_last_block(head, b) == b

\* The accepted head only moves to a block of a higher sequence number.
advance_accepted_normal_head_block(head, b) ==
    IF seq_no[head] >= seq_no[b] THEN head ELSE b

should_replace_head(n, c) ==
    \/ n.head_slot = -1
    \/ seq_no[c] > n.head_seqno
    \/ seq_no[c] = n.head_seqno /\ slotOf[c] >= n.head_slot

MoveCursors(n, c) ==
    LET replace == should_replace_head(n, c)
    IN  [n EXCEPT
           !.head_seqno = IF isEmpty[c] THEN @ ELSE Max({@, seq_no[c]}),
           !.accepted = IF isEmpty[c] THEN @
                        ELSE advance_accepted_normal_head_block(@, c),
           !.head_slot = IF replace THEN slotOf[c] ELSE @,
           !.head_block = IF replace THEN BlockOf[c] ELSE @,
           !.consensus_seqno = Max({@, seq_no[c]}),
           !.applied = @ \cup {c}]

CleanUpIfProgressed(n, s) == IF is_slot_progressed(n, s) THEN cleanup_old_slots(n, s) ELSE n

\* The finalized record of c is handed to the database without waiting for it.
maybe_apply_finalized_state(n, c) ==
    IF c \in n.applied THEN n ELSE CleanUpIfProgressed(MoveCursors(n, c), slotOf[c])

----------------------------------------------------------------------------
(* One run of the walk.  w carries the node and the walk's local state:    *)
(* complete, has_final_cert and whether the loop was left.                 *)

Stop(w) == [w EXCEPT !.stop = TRUE]

MarkSent(w, c) == IF isEmpty[c] THEN w ELSE [w EXCEPT !.n.sent = @ \cup {c}]

Panic(w) == [w EXCEPT !.n.panic = TRUE, !.stop = TRUE]

\* Mutant: the walk counts as complete although something was requested.
RequestAndForget(w, c) == [w EXCEPT !.n = request_candidate(w.n, c)]

RequestAndWait(w, c) ==
    [w EXCEPT !.n = request_candidate(w.n, c), !.complete = FALSE]

should_emit_on_block_finalized_for_block(w, c) ==
    IF IsMasterchain THEN w.has_final_cert ELSE seq_no[c] >= w.n.floor

\* Mutant: the sent mark goes to the candidate that was signed.
MarkSignedSent(w, trigger, c) ==
    LET call == [final |-> w.has_final_cert,
                 signed |-> IF w.has_final_cert THEN trigger ELSE c]
    IN  [w EXCEPT !.n.calls[c] = Append(@, call),
                  !.n.sent = @ \cup {call.signed},
                  !.n.sent_seqno[seq_no[c]] = c]

\* The callback for c, signed by the trigger's finalization certificate or by
\* c's own notarization certificate.
Deliver(w, trigger, c) ==
    LET call == [final |-> w.has_final_cert,
                 signed |-> IF w.has_final_cert THEN trigger ELSE c]
    IN  [w EXCEPT !.n.calls[c] = Append(@, call),
                  !.n.sent = @ \cup {c},
                  !.n.sent_seqno[seq_no[c]] = c]

\* Mutant: a sequence number that was already delivered is always a breach.
emit_once_per_slot(w, trigger, c) ==
    IF isEmpty[c] \/ c \in w.n.sent THEN w
    ELSE IF w.n.sent_seqno[seq_no[c]] # Genesis THEN Panic(w)
    ELSE IF ~ should_emit_on_block_finalized_for_block(w, c) THEN MarkSent(w, c)
    ELSE IF ~ w.has_final_cert /\ c \notin w.n.notar THEN RequestAndWait(w, c)
    ELSE IF w.has_final_cert /\ ~ has_real_body(w.n, trigger) THEN Panic(w)
    ELSE Deliver(w, trigger, c)

try_emit_recursive_finalized_callback(w, trigger, c) ==
    LET delivered == w.n.sent_seqno[seq_no[c]]
    IN  IF isEmpty[c] \/ c \in w.n.sent THEN w
        ELSE IF delivered = c THEN MarkSent(w, c)
        ELSE IF delivered # Genesis THEN Panic(w)
        ELSE IF ~ should_emit_on_block_finalized_for_block(w, c) THEN MarkSent(w, c)
        ELSE IF ~ w.has_final_cert /\ c \notin w.n.notar THEN RequestAndWait(w, c)
        ELSE IF w.has_final_cert /\ ~ has_real_body(w.n, trigger) THEN Panic(w)
        ELSE Deliver(w, trigger, c)

\* c is applied, unless it already was, and then delivered.
ApplyAndEmit(w, trigger, c) ==
    try_emit_recursive_finalized_callback(
        [w EXCEPT !.n = maybe_apply_finalized_state(w.n, c)], trigger, c)

\* Mutant: the finalization certificate covers the ancestors as well.
KeepCert(w, c) == w

\* The certificate belongs to the first block of the chain: candidates that
\* repeat it pass it on, the block itself uses it up.
ConsumeCert(w, c) == [w EXCEPT !.has_final_cert = @ /\ isEmpty[c]]

\* The end of an iteration: the floor, or on to the parent.
ClimbFrom(w, c, below_floor) ==
    IF w.stop THEN w
    ELSE IF below_floor THEN Stop(MarkSent(w, c))
    ELSE ConsumeCert(w, c)

\* One iteration of the loop, at candidate c.
Visit(w, trigger, c) ==
    LET below_floor == ~ w.has_final_cert /\ seq_no[c] < w.n.floor
    IN  IF w.stop THEN w
        ELSE IF w.n.book[c] = "none" THEN Stop(RequestAndWait(w, c))
        ELSE IF IsMasterchain /\ ~ w.has_final_cert THEN Stop(MarkSent(w, c))
        ELSE ClimbFrom(IF has_real_body(w.n, c) THEN ApplyAndEmit(w, trigger, c)
                       ELSE IF below_floor THEN w
                       ELSE RequestAndWait(w, c),
                       c, below_floor)

try_finalize_recursive_chain(n, trigger) ==
    FoldLeft(LAMBDA w, c : Visit(w, trigger, c),
             [n |-> n, complete |-> TRUE, has_final_cert |-> TRUE, stop |-> FALSE],
             Ancestry[trigger])

\* The triggers are walked in turn; those that completed are forgotten.
WalkTrigger(r, t) ==
    LET Walked(w) ==
            [n |-> w.n, done |-> IF w.complete THEN r.done \cup {t} ELSE r.done]
    IN  IF t \notin r.n.pending \/ r.n.panic THEN r
        ELSE Walked(try_finalize_recursive_chain(r.n, t))

ForgetDone(r) == [r.n EXCEPT !.pending = @ \ r.done]

retry_pending_recursive_finalization_for(n, triggers) ==
    ForgetDone(FoldLeft(LAMBDA r, t : WalkTrigger(r, t),
                        [n |-> n, done |-> {}], triggers))

retry_pending_recursive_finalization(n) ==
    retry_pending_recursive_finalization_for(
        n, SetToSortSeq(n.pending, LAMBDA c, d : slotOf[c] < slotOf[d]))

----------------------------------------------------------------------------
(* A candidate body reaches the processor.                                 *)

\* Mutant: a body below the finalization cursor is refused whatever its origin.
receive_current_candidate(n, c, is_broadcast) ==
    IF slotOf[c] < first_non_finalized_slot(n) \/ has_real_body(n, c) THEN n
    ELSE [n EXCEPT !.book[c] = "body", !.requested = @ \ {c}]

\* A broadcast below the finalization cursor is refused; a body replaces a stub.
receive_candidate(n, c, is_broadcast) ==
    IF \/ is_broadcast /\ slotOf[c] < first_non_finalized_slot(n)
       \/ has_real_body(n, c)
    THEN n
    ELSE [n EXCEPT !.book[c] = "body", !.requested = @ \ {c}]

\* A body that was stored may complete the pending walks.  One that comes
\* without a certificate is taken for a broadcast.
on_candidate_received(n, c, is_broadcast) ==
    LET m == receive_candidate(n, c, is_broadcast)
    IN  IF m = n THEN n ELSE retry_pending_recursive_finalization(m)

\* The FSM announces a notarization: the body is requested if it is missing.
handle_notarization_reached(n, c) == IF has_real_body(n, c) THEN n ELSE RequestLater(n, c)

\* A certificate from a query response is set in the FSM, which announces it
\* unless the slot is already finalized.
feed_notar_cert_to_fsm(n, c) == [n EXCEPT !.notar = @ \cup {c}]

----------------------------------------------------------------------------
(* Startup.                                                                *)

Chain == AncestorsOf[Tip]

\* What recovery may read from the database.  Finalized records are filtered to
\* a prefix of the chain, whose last record carries is_final unless the record
\* of its successor was lost.  A record is written for a body that was received,
\* and its info was written before, unless that write failed.
DatabaseContents ==
    {d \in [records : {AncestorsOf[c] : c \in Chain \cup {Genesis}},
            is_final : SUBSET Chain,
            final_certs : SUBSET Chain,
            notar_certs : SUBSET Candidate,
            skip_certs : SUBSET MaySkip,
            infos : SUBSET Candidate,
            payloads : SUBSET Candidate] :
        /\ d.is_final \subseteq d.records
        /\ \A c \in d.is_final \cup d.final_certs : slotOf[c] \notin d.skip_certs
        /\ d.records \ d.infos \subseteq FailingWrites
        /\ \A c \in d.records \ d.is_final :
              \/ \E b \in d.is_final : c \in AncestorsOf[b]
              \/ \E b \in FailingWrites \cap Chain : c \in AncestorsOf[b] \ {b}}

\* A new session's database.
NothingStored ==
    [records |-> {}, is_final |-> {}, final_certs |-> {}, notar_certs |-> {},
     skip_certs |-> {}, infos |-> {}, payloads |-> {}]

ASSUME DisksAssumption == Disks \subseteq DatabaseContents

\* Stored notarizations without a body, of slots neither finalized nor skipped.
Unresolved(disk) ==
    LET fnf == Max({0} \cup {slotOf[c] + 1 : c \in disk.records \cup disk.final_certs})
    IN  {c \in disk.notar_certs \ disk.infos : slotOf[c] >= fnf /\ slotOf[c] \notin disk.skip_certs}

\* Finalized records give stubs, candidate infos turn these and other candidates
\* into entries with a body.
seed_candidate_infos_for_parent_resolution(disk) ==
    [c \in Candidate |-> IF c \in disk.infos THEN "body"
                         ELSE IF c \in disk.records THEN "stub" ELSE "none"]

\* Stored payloads, and finalized empty candidates rebuilt from their infos.
restore_candidate_cache(disk) ==
    disk.payloads \cup {c \in disk.records \cap disk.infos : isEmpty[c]}

\* Every block with a record counts as delivered, by its sequence number too.
recovery_seed_received_candidates(blocks) ==
    [q \in Seqno |-> IF \E b \in blocks : seq_no[b] = q
                     THEN CHOOSE b \in blocks : seq_no[b] = q ELSE Genesis]

\* The last record that carries is_final sets the cursors.
notify_last_finalized_block(disk) ==
    IF disk.is_final = {} THEN Genesis
    ELSE CHOOSE c \in disk.is_final : \A d \in disk.is_final : slotOf[d] <= slotOf[c]

\* The session as recovery leaves it; announced are the restored notarizations
\* that lead to a request.  The events of finalizations without a record are
\* drained.
NewNode(disk, announced) ==
    LET last == notify_last_finalized_block(disk)
        blocks == disk.records \cap Block
    IN  [notar |-> disk.notar_certs,    \* notarization certificates in the FSM
         final |-> disk.records \cup disk.final_certs, \* candidates finalized by the FSM
         skipped |-> disk.skip_certs,   \* slots with a skip certificate
         book |-> seed_candidate_infos_for_parent_resolution(disk),
         requested |-> announced,       \* requested_candidates, not yet expired
         scheduled |-> announced,       \* delayed requests
         asked |-> {},                  \* receiver: pending_requests
         cache_body |-> restore_candidate_cache(disk), \* receiver: resolver_cache.candidates
         cache_notar |-> disk.notar_certs, \* receiver: resolver_cache.notar_certs
         storing |-> {},                \* certificates of answers, being written
         relaying |-> {},               \* certificates from votes, being written
         pending |-> {},                \* finalized_pending_body
         applied |-> disk.records,      \* finalized_blocks
         sent |-> blocks,               \* finalized_delivery_sent
         sent_seqno |-> recovery_seed_received_candidates(blocks),
         head_seqno |-> seq_no[last],   \* finalized_head_seqno
         head_slot |-> SlotOf(last),    \* finalized_head_slot
         head_block |-> IF last = Genesis THEN Genesis ELSE BlockOf[last],
         consensus_seqno |-> seq_no[last],
         floor |-> seq_no[last],        \* last_mc_finalized_seqno
         accepted |-> IF last = Genesis THEN Genesis ELSE BlockOf[last],
         pruned |-> 0,                  \* slots below it were cleaned up
         restored |-> disk.records,     \* history: records found at startup
         resumed |-> last,              \* history: the last of them that is final
         drained |-> disk.final_certs \ disk.records, \* history: finalized, no event
         calls |-> [b \in Block |-> <<>>],
         panic |-> FALSE]

\* A new session, or one resumed.  A restored notarization is announced unless
\* the replayed votes had brought it back before the events were drained.
DeliveryInit ==
    \E disk \in Disks : \E announced \in SUBSET Unresolved(disk) :
        node = NewNode(disk, announced)

----------------------------------------------------------------------------
(* Actions.                                                                *)

\* A failed assertion ends the session thread.
Running == ~ node.panic

\* A candidate broadcast: the receiver caches it before the processor sees it.
Broadcast(c) ==
    /\ Running
    /\ node' = on_candidate_received([node EXCEPT !.cache_body = @ \cup {c}], c, TRUE)

\* A peer answers requestCandidate, with both parts or one.  The receiver keeps
\* the parts that it did not have and forwards those.
handle_candidate_response(c, parts) ==
    LET new_body == "body" \in parts /\ c \notin node.cache_body
        new_notar == "notar" \in parts /\ c \notin node.cache_notar
        body == IF new_body THEN node.cache_body \cup {c} ELSE node.cache_body
        notar == IF new_notar THEN node.cache_notar \cup {c} ELSE node.cache_notar
        m == [node EXCEPT !.cache_body = body, !.cache_notar = notar,
                          !.asked = IF c \in body \cap notar THEN @ \ {c} ELSE @]
        r == IF new_body THEN on_candidate_received(m, c, ~ new_notar) ELSE m
    IN  /\ Running
        /\ c \in node.asked
        /\ node' = [r EXCEPT !.storing = IF new_notar THEN @ \cup {c} ELSE @]

\* The certificate of a response is stored: process_received_notar_cert goes on.
NotarCertStored(c) ==
    LET m == feed_notar_cert_to_fsm([node EXCEPT !.storing = @ \ {c}], c)
        announced == c \notin node.notar /\ slotOf[c] >= first_non_finalized_slot(node)
        Announce(n) == IF announced THEN handle_notarization_reached(n, c) ELSE n
    IN  /\ Running
        /\ c \in node.storing
        /\ node' = Announce(retry_pending_recursive_finalization(m))

\* The write of the certificate fails: it is dropped.
NotarCertLost(c) ==
    /\ Running
    /\ c \in node.storing \cap FailingWrites
    /\ node' = [node EXCEPT !.storing = @ \ {c}]

\* The FSM collects a notarization certificate from votes or from the wire; it
\* is stored before the receiver caches it.
NotarizationReached(c) ==
    /\ Running
    /\ c \notin node.notar
    /\ slotOf[c] >= first_non_finalized_slot(node)
    /\ node' = handle_notarization_reached(
                   [node EXCEPT !.notar = @ \cup {c},
                                !.relaying = @ \cup ({c} \ node.cache_notar)], c)

\* The write of an announced certificate completes; the receiver caches the
\* certificate unless the write failed (persist_notar_cert_then_relay).
NotarCertRelayed(c, stored) ==
    /\ Running
    /\ c \in node.relaying
    /\ stored \/ c \in FailingWrites
    /\ node' = [node EXCEPT !.relaying = @ \ {c},
                            !.cache_notar = IF stored THEN @ \cup {c} ELSE @]

\* Mutant: the trigger is walked once and then forgotten.
BlockFinalizedOnce(c) ==
    LET m == [node EXCEPT !.final = @ \cup {c}, !.pending = @ \cup {c}]
        r == retry_pending_recursive_finalization_for(m, <<c>>)
    IN  /\ Running
        /\ c \in Chain
        /\ slotOf[c] >= first_non_finalized_slot(node)
        /\ slotOf[c] \notin node.skipped
        /\ node' = [r EXCEPT !.pending = @ \ {c}]

\* The FSM collects a finalization certificate (handle_block_finalized).
BlockFinalized(c) ==
    LET m == [node EXCEPT !.final = @ \cup {c}, !.pending = @ \cup {c}]
    IN  /\ Running
        /\ c \in Chain
        /\ slotOf[c] >= first_non_finalized_slot(node)
        /\ slotOf[c] \notin node.skipped
        /\ node' = retry_pending_recursive_finalization_for(m, <<c>>)

\* The masterchain has applied block b of this shard.
set_mc_finalized_block(b) ==
    LET top == Max({seq_no[b], node.floor})
    IN  /\ Running
        /\ b \in Chain \cap Block
        /\ seq_no[b] > node.floor
        /\ node' = [node EXCEPT
               !.floor = top,
               !.consensus_seqno = Max({@, top}),
               !.accepted = advance_accepted_normal_head_block(@, b)]

\* Slot s obtains a skip certificate: old slots are cleaned up and the repairs
\* of s are cancelled.
handle_slot_skipped(s) ==
    LET m == cleanup_old_slots([node EXCEPT !.skipped = @ \cup {s}], s)
    IN  /\ Running
        /\ s \in MaySkip
        /\ s >= first_non_finalized_slot(node)
        /\ s \notin node.skipped
        /\ node' = [m EXCEPT !.requested = {c \in @ : slotOf[c] # s},
                             !.asked = {c \in @ : slotOf[c] # s}]

\* A delayed request runs: the peers are asked if it still applies.
SendRequest(c) ==
    LET m == [node EXCEPT !.scheduled = @ \ {c}]
        settled == \/ has_skip_certificate_for_slot(node, slotOf[c])
                   \/ has_real_body(node, c) /\ c \in node.notar
    IN  /\ Running
        /\ c \in node.scheduled
        /\ node' = IF c \notin node.requested THEN m
                   ELSE IF settled THEN [m EXCEPT !.requested = @ \ {c}]
                   ELSE request_candidate_impl(m, c)

\* CANDIDATE_REQUEST_RETRY_INTERVAL is over: c may be requested again.
RequestExpires(c) ==
    /\ Running
    /\ c \in node.requested \ node.scheduled
    /\ node' = [node EXCEPT !.requested = @ \ {c}]

\* A candidate of a later slot arrives, which runs the pending walks again.
OtherCandidate ==
    /\ Running
    /\ node' = retry_pending_recursive_finalization(node)

DeliveryNext ==
    \/ OtherCandidate
    \/ \E c \in Candidate :
         \/ Broadcast(c)
         \/ \E parts \in SUBSET {"body", "notar"} : handle_candidate_response(c, parts)
         \/ NotarCertStored(c)
         \/ NotarCertLost(c)
         \/ NotarizationReached(c)
         \/ \E stored \in BOOLEAN : NotarCertRelayed(c, stored)
         \/ BlockFinalized(c)
         \/ set_mc_finalized_block(c)
         \/ SendRequest(c)
         \/ RequestExpires(c)
    \/ \E s \in Slot : handle_slot_skipped(s)

DeliverySpec == DeliveryInit /\ [][DeliveryNext]_node

----------------------------------------------------------------------------
(* What the journal guarantees.                                            *)

\* Every part of the journal stays within the session's candidates and slots.
DeliveryTypeOK ==
    /\ node.book \in [Candidate -> {"none", "stub", "body"}]
    /\ \A f \in {node.notar, node.final, node.requested, node.scheduled, node.asked,
                 node.cache_body, node.cache_notar, node.storing, node.relaying,
                 node.pending, node.applied} : f \subseteq Candidate
    /\ node.skipped \subseteq Slot
    /\ node.sent \subseteq Block
    /\ node.sent_seqno \in [Seqno -> Block \cup {Genesis}]
    /\ {node.head_seqno, node.consensus_seqno, node.floor} \subseteq Seqno
    /\ node.head_slot \in Slot \cup {-1}
    /\ {node.head_block, node.accepted} \subseteq Block \cup {Genesis}
    /\ node.pending \subseteq node.final

\* A block is handed to the validator at most once, although its sent mark may
\* have been pruned and several triggers may pass over it.
AtMostOnce == \A b \in Block : Len(node.calls[b]) <= 1

\* None of the walk's assertions fails: a sequence number is never delivered
\* for two blocks, and a certificate never lacks the data it signs.
NoPanic == ~ node.panic

\* A callback carries signatures over a candidate of the very block that it
\* delivers: of the finalized candidate, or of a notarized ancestor.  Only a
\* shard session delivers without a finalization certificate.
SignaturesMatch ==
    \A b \in Block : \A i \in DOMAIN node.calls[b] :
        LET call == node.calls[b][i]
        IN  /\ BlockOf[call.signed] = b
            /\ call.final => call.signed \in node.final
            /\ ~ call.final => /\ ~ IsMasterchain
                               /\ \E c \in node.final : b \in AncestorsOf[c]

\* b was delivered, now or before the restart, or the masterchain has moved on.
Settled(b) == node.calls[b] # <<>> \/ b \in node.restored \/ seq_no[b] < node.floor

\* The blocks that the finalization of c has to deliver.
DueTo(c) == IF IsMasterchain THEN {BlockOf[c]} ELSE AncestorsOf[c] \cap Block

\* A trigger is forgotten only when its chain is delivered, unless its slot was
\* cleaned up or its event was drained at startup.
CompleteMeansDelivered ==
    \A c \in node.final \ (node.pending \cup node.drained) :
        slotOf[c] >= node.pruned => \A b \in DueTo(c) : Settled(b)

\* The cursors follow the highest block known to be finalized or applied by the
\* masterchain, in whatever order the blocks are applied, also when the session
\* was resumed: the finalized head for blocks applied here, the others for both.
CursorsAgree ==
    LET here == node.applied \ node.restored
        normal == Max({seq_no[node.resumed]} \cup {seq_no[b] : b \in here \cap Block})
    IN  /\ node.head_seqno = normal
        /\ seq_no[node.accepted] = Max({node.floor, normal})
        /\ node.accepted \in Chain \cup {Genesis}
        /\ node.consensus_seqno = Max({node.floor, normal} \cup {seq_no[c] : c \in here})


\* A body that the receiver holds together with its certificate has reached the
\* processor, if a finalized chain needs it: the receiver will not ask again.
RepairReachesBook ==
    \A t \in node.pending : \A c \in AncestorsOf[t] :
        c \in node.cache_body \cap node.cache_notar => has_real_body(node, c)

\* Peers answer in the end, the database completes its writes or reports that
\* they failed, delayed actions run, and the session keeps producing
\* candidates.  Weak fairness, with the condition under which each action
\* changes the node written out.
DeliveryFairness ==
    /\ \/ []<>(node.panic \/ retry_pending_recursive_finalization(node) = node)
       \/ []<><<OtherCandidate>>_node
    /\ \A c \in Candidate :
         /\ \/ []<>(node.panic \/ c \notin node.asked)
            \/ []<><<handle_candidate_response(c, {"body", "notar"})>>_node
         /\ \/ []<>(node.panic \/ c \notin node.storing)
            \/ []<><<NotarCertStored(c) \/ NotarCertLost(c)>>_node
         /\ []<>(node.panic \/ c \notin node.scheduled) \/ []<><<SendRequest(c)>>_node
         /\ \/ []<>(node.panic \/ c \notin node.requested \ node.scheduled)
            \/ []<><<RequestExpires(c)>>_node

FairDeliverySpec == DeliverySpec /\ DeliveryFairness

\* The receiver holds both parts of c, so that it never asks for c again, and
\* the processor was refused one of them.
Stranded(c) ==
    /\ c \in (node.cache_body \cap node.cache_notar) \ node.storing
    /\ ~ has_real_body(node, c) \/ c \notin node.notar

\* An answer that brings both parts of a candidate puts its body into the book,
\* although the slot may be finalized long since: the repair of a finalized
\* chain rests on it (candidate_controller.rs 438-456).
WholeAnswersAreTaken ==
    [][\A c \in (node'.cache_body \cap node'.cache_notar) \ (node.cache_body \cup node.cache_notar) :
           has_real_body(node', c)]_node

\* Whatever was missing when a block was finalized, its chain is delivered,
\* unless a candidate of the chain is stranded in the receiver: nothing else
\* can hold it up.
DeliveredUnlessStranded ==
    \A c \in Chain :
        (c \in node.final \ node.drained)
            ~> (\/ \A b \in DueTo(c) : Settled(b)
                \/ \E d \in AncestorsOf[c] : Stranded(d))
=============================================================================
