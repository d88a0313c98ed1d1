--------------------------- MODULE SimplexVoting ---------------------------
(***************************************************************************)
(* What the Simplex FSM of one validator promises the others: the three    *)
(* voting rules of node/simplex/src/simplex_state.rs (try_notar,           *)
(* try_final, try_skip_window), seen across all validators of a session.   *)
(* The state is the set of votes that honest validators have put on the    *)
(* wire.  A faulty validator counts as having cast every vote, so that a   *)
(* certificate exists as soon as the honest votes can be completed to a    *)
(* quorum.                                                                 *)
(***************************************************************************)
EXTENDS SimplexSession

VARIABLES
    notarized,   \* notarized[v]: candidates v sent a Notarize vote for
    finalized,   \* finalized[v]: candidates v sent a Finalize vote for
    skipped      \* skipped[v]: slots v sent a Skip vote for

votingVars == <<notarized, finalized, skipped>>

\* The vote book holds candidates and slots of the session only.
VotingTypeOK ==
    /\ notarized \in [Honest -> SUBSET Candidate]
    /\ finalized \in [Honest -> SUBSET Candidate]
    /\ skipped \in [Honest -> SUBSET Slot]

----------------------------------------------------------------------------
(* Certificates.                                                           *)

Certified(voters) == voters \cup Faulty \in Quorum

NotarCert(c) == Certified({v \in Honest : c \in notarized[v]})

FinalCert(c) == Certified({v \in Honest : c \in finalized[v]})

SkipCert(s) == Certified({v \in Honest : s \in skipped[v]})

\* Mutant: a block may be built over slots that nobody skipped.
JustifiedByParentOnly(c) == parent[c] = Genesis \/ NotarCert(parent[c])

\* The parent of c may serve as the base of c's slot: it is genesis or
\* notarized, and every slot between the two has a skip certificate.
Justified(c) ==
    /\ parent[c] = Genesis \/ NotarCert(parent[c])
    /\ \A s \in Slot : SlotOf(parent[c]) < s /\ s < slotOf[c] => SkipCert(s)

----------------------------------------------------------------------------
(* The voting rules.                                                       *)

VotingInit ==
    /\ notarized = [v \in Honest |-> {}]
    /\ finalized = [v \in Honest |-> {}]
    /\ skipped = [v \in Honest |-> {}]

\* v has not voted for a candidate of c's slot other than c.
NoRival(v, c) ==
    \A d \in notarized[v] \cup finalized[v] : slotOf[d] = slotOf[c] => d = c

\* Mutant: the one-Notarize-per-slot guard (voted_notar) is dropped.
NotarizeAgain(v, c) ==
    /\ Justified(c)
    /\ c \notin notarized[v]
    /\ notarized' = [notarized EXCEPT ![v] = @ \cup {c}]
    /\ UNCHANGED <<finalized, skipped>>

\* At most one Notarize vote per slot, for a candidate whose parent is the
\* base of its slot, and never against an own Finalize vote.
Notarize(v, c) ==
    /\ Justified(c)
    /\ NoRival(v, c)
    /\ c \notin notarized[v]
    /\ notarized' = [notarized EXCEPT ![v] = @ \cup {c}]
    /\ UNCHANGED <<finalized, skipped>>

\* Mutant: the voted_skip guard is dropped.
FinalizeAfterSkip(v, c) ==
    /\ NotarCert(c)
    /\ NoRival(v, c)
    /\ c \notin finalized[v]
    /\ finalized' = [finalized EXCEPT ![v] = @ \cup {c}]
    /\ UNCHANGED <<notarized, skipped>>

\* A Finalize vote needs a notarization certificate and excludes an own Skip
\* vote for the slot and an own vote for another candidate of the slot.
Finalize(v, c) ==
    /\ NotarCert(c)
    /\ slotOf[c] \notin skipped[v]
    /\ NoRival(v, c)
    /\ c \notin finalized[v]
    /\ finalized' = [finalized EXCEPT ![v] = @ \cup {c}]
    /\ UNCHANGED <<notarized, skipped>>

\* Mutant: the slot after the skipped one is recorded.
SkipNextSlot(v, s) ==
    /\ \A c \in finalized[v] : slotOf[c] # s
    /\ s \notin skipped[v]
    /\ skipped' = [skipped EXCEPT ![v] = @ \cup {s + 1}]
    /\ UNCHANGED <<notarized, finalized>>

\* A Skip vote is excluded by an own Finalize vote only: a slot that v has
\* already notarized may still be skipped.
Skip(v, s) ==
    /\ \A c \in finalized[v] : slotOf[c] # s
    /\ s \notin skipped[v]
    /\ skipped' = [skipped EXCEPT ![v] = @ \cup {s}]
    /\ UNCHANGED <<notarized, finalized>>

VotingNext ==
    \E v \in Honest :
        \/ \E c \in Candidate : Notarize(v, c) \/ Finalize(v, c)
        \/ \E s \in Slot : Skip(v, s)

VotingSpec == VotingInit /\ [][VotingNext]_votingVars

----------------------------------------------------------------------------
(* What the rules guarantee.                                               *)

\* b is c or an ancestor of c: it lies in every set that contains c and is
\* closed under taking parents.
IsAncestor(b, c) ==
    \A S \in SUBSET Candidate :
        (c \in S /\ \A d \in S : parent[d] # Genesis => parent[d] \in S) => b \in S

\* At most one candidate of a slot is ever notarized, whatever the faulty
\* validators sign: set_notarize_certificate never meets a conflict.
UniqueNotarization ==
    \A c, d \in Candidate :
        NotarCert(c) /\ NotarCert(d) /\ slotOf[c] = slotOf[d] => c = d

\* A slot never has both a finalization and a skip certificate: the progress
\* cursor cannot pass a finalized block by skipping its slot.
NoFinalAndSkip ==
    \A c \in Candidate : ~ (FinalCert(c) /\ SkipCert(slotOf[c]))

\* Every block notarized at or above the slot of a finalized block descends
\* from it: the chain that try_notar extends never leaves a finalized block.
FinalizedIsKept ==
    \A b, c \in Candidate :
        FinalCert(b) /\ NotarCert(c) /\ slotOf[b] <= slotOf[c] => IsAncestor(b, c)

\* Agreement: the blocks that handle_block_finalized reports, on any honest
\* validator, form one chain.
Consistency ==
    \A b, c \in Candidate :
        FinalCert(b) /\ FinalCert(c) => IsAncestor(b, c) \/ IsAncestor(c, b)
=============================================================================
