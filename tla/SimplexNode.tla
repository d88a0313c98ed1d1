---------------------------- MODULE SimplexNode ----------------------------
(***************************************************************************)
(* One validator of a session running the FSM of SimplexState between      *)
(* validators that obey the abstract voting rules of SimplexVoting and     *)
(* faulty ones that sign anything.  The network delivers votes and         *)
(* certificates in any order, any number of times or never.                *)
(*                                                                         *)
(* Every step is one task of the session thread (session_processor.rs):    *)
(* one call of the FSM, then the events it queued.  A vote that the FSM    *)
(* broadcasts stays in outbox until the receiver thread puts it on the     *)
(* wire, which for a Notarize or Finalize vote waits for the database.     *)
(***************************************************************************)
EXTENDS SimplexVoting, SimplexState

CONSTANTS
    Me,
    MAX_HISTORY_SLOTS,
    DirectVoters,   \* bound: the validators whose votes also arrive one by one
    CertSigners     \* bound: the sets of signers of the certificates received

ASSUME NodeAssumption ==
    /\ Me \in Honest
    /\ MAX_HISTORY_SLOTS \in Nat
    /\ DirectVoters \subseteq Validator
    /\ CertSigners \subseteq Quorum

VARIABLE fsm

vars == <<fsm, votingVars>>

NodeInit ==
    /\ VotingInit
    /\ fsm = reset_timeouts_on_start(NewState)

----------------------------------------------------------------------------
(* The session thread.                                                     *)

\* handle_slot_skipped for every SlotSkipped event: garbage collection.  The
\* cleanup for the highest slot includes that for the others.
process_simplex_events(st) ==
    LET s == Max(st.skip_events)
        t == IF st.skip_events = {} \/ s < MAX_HISTORY_SLOTS
             THEN st
             ELSE cleanup_slots(st, s - MAX_HISTORY_SLOTS + 1)
    IN  [t EXCEPT !.skip_events = {}]

Run(st) ==
    /\ fsm.panic = "none"
    /\ fsm' = process_simplex_events(st)
    /\ UNCHANGED votingVars

\* The votes that u may have signed.
SignedBy(u, vote) ==
    u \in Honest =>
        CASE vote.kind = "notarize" -> vote.id \in notarized[u]
          [] vote.kind = "finalize" -> vote.id \in finalized[u]
          [] vote.kind = "skip" -> vote.id[1] \in skipped[u]

RecvVote(u, vote) ==
    /\ SignedBy(u, vote)
    /\ Run(on_vote(fsm, u, vote))

\* A certificate arrives with enough valid signatures.
Certifies(signers, vote) == \A u \in signers : SignedBy(u, vote)

RecvNotarizeCert(c, signers) ==
    /\ Certifies(signers, [kind |-> "notarize", id |-> c])
    /\ Run(set_notarize_certificate(fsm, c, signers))

RecvFinalizeCert(c, signers) ==
    /\ Certifies(signers, [kind |-> "finalize", id |-> c])
    /\ Run(set_finalize_certificate(fsm, c, signers))

RecvSkipCert(s, signers) ==
    /\ Certifies(signers, [kind |-> "skip", id |-> <<s, 0>>])
    /\ Run(set_skip_certificate(fsm, s, signers))

\* A candidate that passed validation is fed to the FSM.
RecvCandidate(c) == Run(on_candidate(fsm, c))

Timeout ==
    /\ fsm.armed
    /\ fsm.skip_slot <= LastSlot
    /\ Run(process_timeouts(fsm))

\* The receiver thread sends a vote of ours.
SendVote(vote) ==
    /\ vote \in fsm.outbox
    /\ fsm' = [fsm EXCEPT !.outbox = @ \ {vote}]
    /\ CASE vote.kind = "notarize" ->
                /\ notarized' = [notarized EXCEPT ![Me] = @ \cup {vote.id}]
                /\ UNCHANGED <<finalized, skipped>>
         [] vote.kind = "finalize" ->
                /\ finalized' = [finalized EXCEPT ![Me] = @ \cup {vote.id}]
                /\ UNCHANGED <<notarized, skipped>>
         [] vote.kind = "skip" ->
                /\ skipped' = [skipped EXCEPT ![Me] = @ \cup {vote.id[1]}]
                /\ UNCHANGED <<notarized, finalized>>

\* The record that the vote waits for was not stored: the vote is given up,
\* while the FSM goes on as if it had been cast.
DropVote(vote) ==
    /\ vote \in fsm.outbox
    /\ vote.kind # "skip"
    /\ fsm' = [fsm EXCEPT !.outbox = @ \ {vote}]
    /\ UNCHANGED votingVars

----------------------------------------------------------------------------
(* The rest of the session.                                                *)

OtherVotes ==
    /\ \E v \in Honest \ {Me} :
            \/ \E c \in Candidate : Notarize(v, c) \/ Finalize(v, c)
            \/ \E s \in Slot : Skip(v, s)
    /\ UNCHANGED fsm

NodeNext ==
    \/ OtherVotes
    \/ \E u \in DirectVoters, vote \in Vote : vote.id[1] <= LastSlot /\ RecvVote(u, vote)
    \/ \E c \in Candidate, signers \in CertSigners :
            RecvNotarizeCert(c, signers) \/ RecvFinalizeCert(c, signers)
    \/ \E s \in Slot, signers \in CertSigners : RecvSkipCert(s, signers)
    \/ \E c \in Candidate : RecvCandidate(c)
    \/ Timeout
    \/ \E vote \in Vote : SendVote(vote) \/ DropVote(vote)

NodeSpec == NodeInit /\ [][NodeNext]_vars

\* What the code keeps doing.  Votes are sent, and repeated by the receiver's
\* standstill timer while nothing progresses, so those of honest validators
\* arrive.  A validator relays the certificates that it acted on.  Our timer
\* fires.  Another honest validator that has reached a slot either obtains
\* and relays its notarization certificate, or its timer fires and it skips
\* the slot, unless it voted to finalize it.  Each conjunct of Fairness is
\* the weak fairness of an action, with its ENABLED condition written out.
DeliverVote ==
    \E u \in Honest \cap DirectVoters, vote \in Vote : vote.id[1] <= LastSlot /\ RecvVote(u, vote)

VoteIsWaiting ==
    /\ fsm.panic = "none"
    /\ \E u \in Honest \cap DirectVoters, vote \in Vote :
          /\ vote.id[1] <= LastSlot
          /\ SignedBy(u, vote)
          /\ VoteResult(fsm, u, vote) = "Applied"

\* The certificates that the votes of another honest validator were based on.
NotarCertHeld(c) ==
    \E v \in Honest \ {Me} : c \in finalized[v] \/ \E d \in notarized[v] : parent[d] = c

SkipCertHeld(s) ==
    \E v \in Honest \ {Me} : \E d \in notarized[v] : SlotOf(parent[d]) < s /\ s < slotOf[d]

RelayCert ==
    \E signers \in CertSigners :
        \/ \E c \in Candidate : NotarCertHeld(c) /\ RecvNotarizeCert(c, signers)
        \/ \E s \in Slot : SkipCertHeld(s) /\ RecvSkipCert(s, signers)

CertIsWaiting ==
    /\ fsm.panic = "none"
    /\ \E signers \in CertSigners :
          \/ \E c \in Candidate :
                /\ NotarCertHeld(c)
                /\ Certifies(signers, [kind |-> "notarize", id |-> c])
                /\ fsm.notar_cert[slotOf[c]] = Unknown
          \/ \E s \in Slot :
                /\ SkipCertHeld(s)
                /\ Certifies(signers, [kind |-> "skip", id |-> <<s, 0>>])
                /\ ~ fsm.skip_cert[s]
                /\ s >= fsm.fnf

\* Another validator may have left every slot below s behind.
Reached(s) ==
    \A r \in Slot : r < s => SkipCert(r) \/ \E c \in Candidate : slotOf[c] = r /\ NotarCert(c)

OthersLeave(s) ==
    /\ Reached(s)
    /\ fsm.notar_cert[s] = Unknown
    /\ \/ UNCHANGED fsm /\ \E v \in Honest \ {Me} : Skip(v, s)
       \/ \E c \in Candidate, signers \in CertSigners : slotOf[c] = s /\ RecvNotarizeCert(c, signers)

OthersMayLeave(s) ==
    /\ Reached(s)
    /\ fsm.notar_cert[s] = Unknown
    /\ \/ \E v \in Honest \ {Me} : s \notin skipped[v] /\ \A c \in finalized[v] : slotOf[c] # s
       \/ /\ fsm.panic = "none"
          /\ \E c \in Candidate, signers \in CertSigners :
                slotOf[c] = s /\ Certifies(signers, [kind |-> "notarize", id |-> c])

Fairness ==
    /\ <>[]VoteIsWaiting => []<><<DeliverVote>>_vars
    /\ <>[]CertIsWaiting => []<><<RelayCert>>_vars
    /\ \A s \in Slot : <>[]OthersMayLeave(s) => []<><<OthersLeave(s)>>_vars
    /\ <>[](fsm.outbox # {}) => []<><<\E vote \in Vote : SendVote(vote) \/ DropVote(vote)>>_vars
    /\ <>[](fsm.panic = "none" /\ fsm.armed /\ fsm.skip_slot <= LastSlot) => []<><<Timeout>>_vars

FairSpec == NodeSpec /\ Fairness

----------------------------------------------------------------------------
(* Properties.                                                             *)

\* The state of the FSM keeps its shape: cursors, windows and timers stay
\* unsigned, and every slot, vote and certificate names a candidate of the
\* session.
NodeTypeOK ==
    LET id == Candidate \cup {Unknown}
    IN  /\ {fsm.fnf, fsm.fnp, fsm.window, fsm.w_lo, fsm.w_hi, fsm.skip_slot} \subseteq Nat
        /\ fsm.slots \in [Tracked -> [available_base : id \cup {Genesis}, pending_block : id,
                                      voted_notar : id, voted_skip : BOOLEAN,
                                      voted_final : BOOLEAN, observed_notar : id,
                                      skipped : BOOLEAN]]
        /\ fsm.votes \in [Tracked -> [Validator -> [notarize : id, finalize : id, skip : BOOLEAN]]]
        /\ fsm.notarize_weight \in [Candidate -> Nat]
        /\ fsm.finalize_weight \in [Candidate -> Nat]
        /\ fsm.skip_weight \in [Tracked -> Nat]
        /\ fsm.notarize_or_skip_weight \in [Tracked -> Nat]
        /\ fsm.notar_cert \in [Tracked -> id]
        /\ fsm.final_cert \in [Tracked -> id]
        /\ fsm.skip_cert \in [Tracked -> BOOLEAN]
        /\ fsm.pending_slots \subseteq Tracked
        /\ fsm.skip_intervals \subseteq Tracked
        /\ {fsm.armed, fsm.replay} \subseteq BOOLEAN
        /\ fsm.outbox \subseteq Vote

\* Whatever arrives in whatever order, the votes that the FSM puts on the
\* wire obey the voting rules that agreement rests on: try_notar, try_final
\* and try_skip_window implement Notarize, Finalize and Skip.
VotingRules == VotingSpec

\* No panic!, assert! or overflow of the FSM is reached: the base of the
\* progress cursor is known whenever a leader window is entered, certificates
\* do not conflict, and the timer offset does not underflow.
NeverPanics == fsm.panic = "none"

\* check_invariants: the recorded votes of a validator do not conflict, even
\* when certificates bring votes that contradict the ones received directly.
check_invariants ==
    \A s \in Tracked, v \in Validator :
        LET mine == fsm.votes[s][v]
        IN  /\ Unknown \in {mine.notarize, mine.finalize} \/ mine.notarize = mine.finalize
            /\ ~ (mine.finalize # Unknown /\ mine.skip)

\* The weight accumulators that decide on certificates are the weights of
\* the recorded votes, whether these came one by one or in certificates.
WeightsMatchVotes ==
    LET Voted(s, P(_)) == WeightOf({v \in Validator : P(fsm.votes[s][v])})
    IN  /\ \A c \in Candidate :
            /\ fsm.notarize_weight[c] = Voted(slotOf[c], LAMBDA x : x.notarize = c)
            /\ fsm.finalize_weight[c] = Voted(slotOf[c], LAMBDA x : x.finalize = c)
        /\ \A s \in Tracked :
            /\ fsm.skip_weight[s] = Voted(s, LAMBDA x : x.skip)
            /\ fsm.notarize_or_skip_weight[s] =
                    Voted(s, LAMBDA x : x.skip \/ x.notarize # Unknown)

\* No honest validator is ever reported for misbehavior: whichever of its
\* votes arrive, directly or inside certificates, none is judged conflicting.
HonestNotAccused ==
    \A u \in Honest, vote \in Vote :
        SignedBy(u, vote) => VoteResult(fsm, u, vote) # "Misbehavior"

\* The skip_intervals index answers like the linear scan that it replaces,
\* so warn_skipscan_invariant_once never fires.
SkipIndexExact ==
    \A s \in fsm.fnf .. LastSlot :
        is_slot_skipped_cert(fsm, s) =>
            /\ {b \in fsm.skip_intervals : b > s} # {}
            /\ Min({b \in fsm.skip_intervals : b > s}) = FirstNonSkippedAfter(fsm, s)

\* Between the two cursors every slot is notarized or skipped, and the block
\* that the cursor slot must extend is known, notarized, connected to the
\* cursor by skip certificates, and not older than any block notarized
\* between the cursors.
CursorBase ==
    LET base == fsm.slots[fsm.fnp].available_base
    IN  /\ fsm.fnf <= fsm.fnp
        /\ \A s \in fsm.fnf .. fsm.fnp - 1 :
                /\ is_slot_progressed(fsm, s)
                /\ candidate_parent_ge(base, fsm.slots[s].observed_notar)
        /\ base = Genesis \/ (base \in Candidate /\ NotarCert(base))
        /\ \A s \in base[1] + 1 .. fsm.fnp - 1 : SkipCert(s)

\* A certificate that was accepted for a slot still open has its effect: the
\* slot counts as progressed.  The receiver drops every later copy of it.
CertificatesTakeEffect ==
    \A s \in fsm.fnf .. LastSlot :
        /\ fsm.skip_cert[s] => is_slot_skipped_cert(fsm, s)
        /\ fsm.notar_cert[s] # Unknown =>
                HasSlot(fsm, s) /\ fsm.slots[s].observed_notar = fsm.notar_cert[s]

\* A step never moves a cursor or the leader window back and never forgets a
\* vote of ours in a slot that is still open.
NothingIsUndone ==
    [][/\ fsm'.fnf >= fsm.fnf
       /\ fsm'.fnp >= fsm.fnp
       /\ fsm'.window >= fsm.window
       /\ \A s \in fsm'.fnf .. LastSlot :
            /\ fsm.slots[s].voted_notar \in {Unknown, fsm'.slots[s].voted_notar}
            /\ fsm.slots[s].voted_skip => fsm'.slots[s].voted_skip
            /\ fsm.slots[s].voted_final => fsm'.slots[s].voted_final]_vars

\* Every slot is eventually left behind, notarized or skipped, however the
\* other validators split between a candidate and a timeout.
EverySlotProgresses == <>(fsm.fnp > LastSlot)
=============================================================================
