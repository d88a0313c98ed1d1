------------------------ MODULE SimplexState_proofs ------------------------
(***************************************************************************)
(* Every method of the FSM, on whatever input, keeps an invariant that     *)
(* ties its record to the votes on the wire.                               *)
(***************************************************************************)
EXTENDS SimplexInvariant, WellFoundedInduction, TLAPS

(***************************************************************************)
(* Numbers, windows, identifiers.                                          *)
(***************************************************************************)

\* Max of two numbers (the std::cmp::max of the cursors).
LEMMA MaxOfTwo ==
    ASSUME NEW a \in Int, NEW b \in Int
    PROVE  Max({a, b}) = IF a >= b THEN a ELSE b
<1>1. \E x \in {a, b} : \A y \in {a, b} : x >= y
  OBVIOUS
<1>2. Max({a, b}) \in {a, b} /\ \A y \in {a, b} : Max({a, b}) >= y
  BY <1>1, Zenon DEF Max
<1> QED BY <1>2

\* Min of two numbers.
LEMMA MinOfTwo ==
    ASSUME NEW a \in Int, NEW b \in Int
    PROVE  Min({a, b}) = IF a <= b THEN a ELSE b
<1>1. \E x \in {a, b} : \A y \in {a, b} : x <= y
  OBVIOUS
<1>2. Min({a, b}) \in {a, b} /\ \A y \in {a, b} : Min({a, b}) <= y
  BY <1>1, Zenon DEF Min
<1> QED BY <1>2

\* Every nonempty set of slots has a first one.
LEMMA MinExists ==
    ASSUME NEW S \in SUBSET Nat, S # {}
    PROVE  Min(S) \in S /\ \A y \in S : Min(S) <= y
<1>1. PICK x \in S : \A y \in S : ~ (<<y, x>> \in OpToRel(<, Nat))
  BY NatLessThanWellFounded, WFMin, ZenonT(30)
<1>2. \A y \in S : ~ (y < x)
  BY <1>1, ZenonT(30) DEF OpToRel
<1>3. \A y \in S : x <= y
  BY <1>2
<1> QED BY <1>3, ZenonT(30) DEF Min

\* A window is a run of slots_per_leader_window slots (WindowIdx, WindowStart).
LEMMA WindowBounds ==
    ASSUME NEW s \in Nat
    PROVE  /\ WindowIdx(s) \in Nat
           /\ WindowStart(WindowIdx(s)) \in Nat
           /\ WindowStart(WindowIdx(s)) <= s
           /\ s < WindowStart(WindowIdx(s) + 1)
<1> DEFINE n == slots_per_leader_window
<1>1. n \in Nat /\ n > 0
  BY WindowAssumption
<1>2. s = n * (s \div n) + (s % n) /\ s \div n \in Int /\ s % n \in 0 .. n - 1
  BY <1>1
<1>3. s \div n \in Nat
  BY <1>1
<1>4. (s \div n) * n = n * (s \div n) /\ (s \div n + 1) * n = n * (s \div n) + n
  BY <1>1, <1>3
<1>5. n * (s \div n) \in Nat
  BY <1>1, <1>3
<1> QED
  BY <1>1, <1>2, <1>3, <1>4, <1>5 DEF WindowIdx, WindowStart

\* Later slots are in later windows.
LEMMA WindowMonotone ==
    ASSUME NEW s \in Nat, NEW t \in Nat, s <= t
    PROVE  WindowIdx(s) <= WindowIdx(t)
<1> DEFINE n == slots_per_leader_window
           a == WindowIdx(s)
           b == WindowIdx(t)
<1>1. n \in Nat /\ n > 0 /\ a \in Nat /\ b \in Nat
  BY WindowAssumption, WindowBounds
<1>2. a * n <= s /\ t < (b + 1) * n
  BY WindowBounds, Zenon DEF WindowStart
<1>3. a * n < (b + 1) * n
  BY <1>1, <1>2
<1> HIDE DEF a, b, n
<1>4. ASSUME b + 1 <= a PROVE FALSE
  <2>1. PICK k \in Nat : a = b + 1 + k
    BY <1>1, <1>4
  <2>2. a * n = (b + 1) * n + k * n /\ k * n \in Nat
    BY <1>1, <2>1
  <2>3. (b + 1) * n \in Nat
    BY <1>1
  <2> QED BY <1>3, <2>2, <2>3
<1>5. a <= b
  BY <1>1, <1>4
<1> QED BY <1>5, Zenon DEF a, b

\* WindowSlots lists the slots of the window.
LEMMA WindowOfSlot ==
    ASSUME NEW s \in Nat, NEW w \in Nat, s \in WindowSlots(w)
    PROVE  WindowIdx(s) = w
<1> DEFINE n == slots_per_leader_window
           a == WindowIdx(s)
<1>1. n \in Nat /\ n > 0 /\ a \in Nat
  BY WindowAssumption, WindowBounds
<1>2. /\ a * n <= s /\ s < (a + 1) * n
      /\ w * n <= s /\ s < (w + 1) * n
  BY <1>1, WindowBounds DEF WindowStart, WindowSlots
<1> HIDE DEF a, n
<1>3. ASSUME NEW x \in Nat, NEW y \in Nat, x + 1 <= y, y * n <= s, s < (x + 1) * n PROVE FALSE
  <2>1. PICK k \in Nat : y = x + 1 + k
    BY <1>1, <1>3
  <2>2. y * n = (x + 1) * n + k * n /\ k * n \in Nat /\ (x + 1) * n \in Nat
    BY <1>1, <2>1
  <2> QED BY <1>1, <1>3, <2>2
<1>4. a = w
  BY <1>1, <1>2, <1>3
<1> QED BY <1>4, Zenon DEF a

\* The window of a slot in use lies within the slots in use.
LEMMA WindowInUse ==
    ASSUME NEW s \in Slot, NEW t \in WindowSlots(WindowIdx(s))
    PROVE  t \in Slot
<1> DEFINE n == slots_per_leader_window
           a == WindowIdx(s)
           m == (LastSlot + 1) \div n
<1>1. /\ n \in Nat /\ n > 0 /\ LastSlot \in Nat /\ s \in 0 .. LastSlot /\ a \in Nat
      /\ a * n <= s /\ a * n \in Nat
  BY WindowAssumption, WindowBounds, SlotBound DEF WindowStart
<1>2. t \in a * n .. (a + 1) * n - 1
  BY Zenon DEF WindowSlots, WindowStart
<1>3. LastSlot + 1 = n * m + ((LastSlot + 1) % n) /\ m \in Nat
  BY <1>1
<1>4. LastSlot + 1 = m * n
  BY <1>1, <1>3, SlotBound
<1> HIDE DEF a, n, m
<1>5. a + 1 <= m
  <2> SUFFICES ASSUME m <= a PROVE FALSE
    BY <1>1, <1>3
  <2>1. PICK k \in Nat : a = m + k
    BY <1>1, <1>3
  <2>2. a * n = m * n + k * n /\ k * n \in Nat /\ m * n \in Nat
    BY <1>1, <1>3, <2>1
  <2> QED BY <1>1, <1>4, <2>2
<1>6. (a + 1) * n <= m * n
  <2>1. PICK k \in Nat : m = a + 1 + k
    BY <1>1, <1>3, <1>5
  <2>2. m * n = (a + 1) * n + k * n /\ k * n \in Nat /\ (a + 1) * n \in Nat
    BY <1>1, <2>1
  <2> QED BY <2>2
<1>7. (a + 1) * n \in Nat
  BY <1>1
<1> QED
  BY <1>1, <1>2, <1>4, <1>6, <1>7, SlotBound

\* The absent id is neither a candidate nor genesis; Tracked covers all
\* slots in use and the one after the bound.
LEMMA Ids ==
    /\ Unknown \notin Candidate /\ Genesis # Unknown /\ Genesis \notin Candidate
    /\ \A c \in Candidate : /\ slotOf[c] \in Slot /\ c[1] = slotOf[c]
                            /\ parent[c] \in Candidate \cup {Genesis} /\ parent[c] # Unknown
    /\ Slot \subseteq Tracked /\ Tracked \subseteq Nat /\ Slot = 0 .. LastSlot
    /\ LastSlot \in Nat /\ Cursor \subseteq Tracked
    /\ \A s \in Slot : s + 1 \in Cursor
<1>1. Unknown \notin Candidate
  BY CandidateIds DEF Unknown
<1>2. Genesis # Unknown
  BY CandidateIds DEF Unknown
<1>3. Slot \subseteq Tracked /\ Tracked \subseteq Nat /\ Cursor \subseteq Tracked
  BY SlotBound, WindowAssumption DEF Tracked, Cursor
<1> QED
  BY <1>1, <1>2, <1>3, CandidateIds, CandidateAssumption, SlotBound, WindowAssumption DEF Cursor

(***************************************************************************)
(* What each part of the invariant depends on.                             *)
(***************************************************************************)

\* The flags of our own votes are the same.
SameFlags(st, t) ==
    \A s \in Tracked : /\ t.slots[s].voted_notar = st.slots[s].voted_notar
                       /\ t.slots[s].voted_final = st.slots[s].voted_final
                       /\ t.slots[s].voted_skip = st.slots[s].voted_skip

SameLedger(st, t) ==
    /\ t.votes = st.votes
    /\ t.notarize_weight = st.notarize_weight
    /\ t.finalize_weight = st.finalize_weight
    /\ t.skip_weight = st.skip_weight
    /\ t.notarize_or_skip_weight = st.notarize_or_skip_weight

\* t differs from st in cursors, windows, timers and queues at most.
SameCore(st, t) ==
    /\ t \in FsmState
    /\ t.fnf = st.fnf
    /\ t.slots = st.slots
    /\ t.outbox = st.outbox
    /\ t.skip_cert = st.skip_cert
    /\ t.skip_intervals = st.skip_intervals
    /\ SameLedger(st, t)

\* Our votes depend on the flags, the outbox and the finalized boundary.
LEMMA OwnVotesKept ==
    ASSUME NEW st, NEW t, OwnVotes(st), t.fnf = st.fnf, t.outbox = st.outbox, SameFlags(st, t)
    PROVE  OwnVotes(t)
<1>1. MyNotarize(t) = MyNotarize(st) /\ MyFinalize(t) = MyFinalize(st) /\ MySkip(t) = MySkip(st)
  BY Zenon DEF MyNotarize, MyFinalize, MySkip
<1>2. FlagsRemember(t)
  BY <1>1, Zenon DEF OwnVotes, FlagsRemember, SameFlags, Live
<1>3. VotesAgree(t)
  BY <1>1, Zenon DEF OwnVotes, VotesAgree
<1>4. OutboxIsDue(t)
  BY ZenonT(30) DEF OwnVotes, OutboxIsDue
<1> QED BY <1>2, <1>3, <1>4, Zenon DEF OwnVotes

\* The vote ledger depends on the accounting fields only.
LEMMA LedgerKept ==
    ASSUME NEW st, NEW t, Ledger(st), SameLedger(st, t)
    PROVE  Ledger(t)
<1>1. RecordedAreSigned(t)
  BY Zenon DEF Ledger, SameLedger, RecordedAreSigned
<1>2. /\ \A c : Notarizers(t, c) = Notarizers(st, c) /\ Finalizers(t, c) = Finalizers(st, c)
      /\ \A s : Skippers(t, s) = Skippers(st, s) /\ Progressers(t, s) = Progressers(st, s)
  BY Zenon DEF SameLedger, Notarizers, Finalizers, Skippers, Progressers
<1>3. WeightsExact(t)
  BY <1>2, Zenon DEF Ledger, SameLedger, WeightsExact
<1> QED BY <1>1, <1>3, Zenon DEF Ledger

\* The index depends on the skip certificates and the finalized boundary.
LEMMA IndexKept ==
    ASSUME NEW st, NEW t, Indexed(st), t.fnf = st.fnf, t.skip_cert = st.skip_cert,
           t.skip_intervals = st.skip_intervals
    PROVE  Indexed(t)
BY Zenon DEF Indexed, IndexedAt

\* Cursors, windows and timers play no part in the invariant.
LEMMA CoreKept ==
    ASSUME NEW st, NEW t, FsmInv(st), SameCore(st, t)
    PROVE  FsmInv(t)
<1>1. OwnVotes(t)
  BY OwnVotesKept, Zenon DEF FsmInv, SameCore, SameFlags
<1>2. Beliefs(t)
  BY Zenon DEF FsmInv, SameCore, Beliefs
<1>3. Indexed(t) /\ Ledger(t)
  BY IndexKept, LedgerKept, Zenon DEF FsmInv, SameCore
<1> QED BY <1>1, <1>2, <1>3, Zenon DEF FsmInv, SameCore

(***************************************************************************)
(* Updates of single fields of the record.                                 *)
(***************************************************************************)

\* A queue, window or timer field may take any value of its type.
LEMMA SetSmallField ==
    ASSUME NEW st \in FsmState
    PROVE  /\ \A x \in Nat : SameCore(st, [st EXCEPT !.w_hi = x])
           /\ \A x \in Nat : SameCore(st, [st EXCEPT !.skip_slot = x])
           /\ \A x \in Nat : SameCore(st, [st EXCEPT !.window = x])
           /\ \A x \in BOOLEAN : SameCore(st, [st EXCEPT !.armed = x])
           /\ \A x \in Cursor : SameCore(st, [st EXCEPT !.fnp = x])
           /\ \A x \in SUBSET Tracked : SameCore(st, [st EXCEPT !.pending_slots = x])
           /\ \A x \in SUBSET Slot : SameCore(st, [st EXCEPT !.skip_events = x])
           /\ \A x \in PanicReason : SameCore(st, [st EXCEPT !.panic = x])
           /\ \A s \in Tracked, x \in BlockId :
                  /\ SameCore(st, [st EXCEPT !.notar_cert[s] = x])
                  /\ SameCore(st, [st EXCEPT !.final_cert[s] = x])
<1>1. \A x \in Nat : /\ SameCore(st, [st EXCEPT !.w_hi = x])
                     /\ SameCore(st, [st EXCEPT !.skip_slot = x])
                     /\ SameCore(st, [st EXCEPT !.window = x])
  BY ZenonT(30) DEF FsmState, SameCore, SameLedger
<1>2. /\ \A x \in BOOLEAN : SameCore(st, [st EXCEPT !.armed = x])
      /\ \A x \in PanicReason : SameCore(st, [st EXCEPT !.panic = x])
  BY ZenonT(30) DEF FsmState, SameCore, SameLedger
<1>3. /\ \A x \in Cursor : SameCore(st, [st EXCEPT !.fnp = x])
      /\ \A x \in SUBSET Tracked : SameCore(st, [st EXCEPT !.pending_slots = x])
      /\ \A x \in SUBSET Slot : SameCore(st, [st EXCEPT !.skip_events = x])
  BY ZenonT(30) DEF FsmState, SameCore, SameLedger
<1>4. ASSUME NEW f \in [Tracked -> BlockId]
      PROVE  /\ SameCore(st, [st EXCEPT !.notar_cert = f])
             /\ SameCore(st, [st EXCEPT !.final_cert = f])
  BY ZenonT(30) DEF FsmState, SameCore, SameLedger
<1>5. ASSUME NEW s \in Tracked, NEW x \in BlockId
      PROVE  /\ SameCore(st, [st EXCEPT !.notar_cert[s] = x])
             /\ SameCore(st, [st EXCEPT !.final_cert[s] = x])
  <2>1. /\ [st.notar_cert EXCEPT ![s] = x] \in [Tracked -> BlockId]
        /\ [st.final_cert EXCEPT ![s] = x] \in [Tracked -> BlockId]
    BY Zenon DEF FsmState
  <2> QED BY <1>4, <2>1, ZenonT(30)
<1> QED BY <1>1, <1>2, <1>3, <1>5, ZenonT(30)

\* Replacing the slot records leaves the rest of the record alone.
LEMMA SetSlots ==
    ASSUME NEW st \in FsmState, NEW f \in [Tracked -> SlotState]
    PROVE  /\ [st EXCEPT !.slots = f] \in FsmState
           /\ [st EXCEPT !.slots = f].slots = f
           /\ [st EXCEPT !.slots = f].fnf = st.fnf
           /\ [st EXCEPT !.slots = f].fnp = st.fnp
           /\ [st EXCEPT !.slots = f].outbox = st.outbox
           /\ [st EXCEPT !.slots = f].skip_cert = st.skip_cert
           /\ [st EXCEPT !.slots = f].skip_intervals = st.skip_intervals
           /\ SameLedger(st, [st EXCEPT !.slots = f])
BY ZenonT(30) DEF FsmState, SameLedger

\* Queueing a vote leaves the rest of the record alone.
LEMMA SetOutbox ==
    ASSUME NEW st \in FsmState, NEW x \in SUBSET Vote
    PROVE  /\ [st EXCEPT !.outbox = x] \in FsmState
           /\ [st EXCEPT !.outbox = x].outbox = x
           /\ [st EXCEPT !.outbox = x].fnf = st.fnf
           /\ [st EXCEPT !.outbox = x].fnp = st.fnp
           /\ [st EXCEPT !.outbox = x].slots = st.slots
           /\ [st EXCEPT !.outbox = x].skip_cert = st.skip_cert
           /\ [st EXCEPT !.outbox = x].skip_intervals = st.skip_intervals
           /\ SameLedger(st, [st EXCEPT !.outbox = x])
BY ZenonT(30) DEF FsmState, SameLedger

\* A vote is its kind and its id.
LEMMA VoteIdentity ==
    ASSUME NEW k, NEW l, NEW x, NEW y, [kind |-> k, id |-> x] = [kind |-> l, id |-> y]
    PROVE  k = l /\ x = y
<1>1. [kind |-> k, id |-> x].kind = k /\ [kind |-> k, id |-> x].id = x
  BY Zenon
<1>2. [kind |-> l, id |-> y].kind = l /\ [kind |-> l, id |-> y].id = y
  BY Zenon
<1> QED BY <1>1, <1>2, Zenon

\* The votes that may be queued.
LEMMA VotesAreVotes ==
    /\ \A c \in Candidate : /\ [kind |-> "notarize", id |-> c] \in Vote
                            /\ [kind |-> "finalize", id |-> c] \in Vote
    /\ \A s \in Tracked : [kind |-> "skip", id |-> <<s, 0>>] \in Vote
BY Zenon DEF Vote

(***************************************************************************)
(* Casting votes.                                                          *)
(***************************************************************************)

\* try_notar: Notarize votes for slots that are open and where we have not
\* voted, justified by their bases, keep our votes in order.
LEMMA CastNotarize ==
    ASSUME NEW st \in FsmState, NEW t \in FsmState, OwnVotes(st), VotingTypeOK,
           NEW N \in SUBSET Candidate,
           \A c \in N : /\ st.fnf <= slotOf[c]
                        /\ st.slots[slotOf[c]].voted_notar = Unknown
                        /\ Justified(c)
                        /\ t.slots[slotOf[c]].voted_notar = c,
           \A s \in Tracked :
               /\ (\A c \in N : slotOf[c] # s) =>
                     t.slots[s].voted_notar = st.slots[s].voted_notar
               /\ t.slots[s].voted_final = st.slots[s].voted_final
               /\ t.slots[s].voted_skip = st.slots[s].voted_skip,
           t.fnf = st.fnf,
           t.outbox = st.outbox \cup {[kind |-> "notarize", id |-> c] : c \in N}
    PROVE  OwnVotes(t)
<1>a. \A x : /\ [kind |-> "notarize", id |-> x] \in t.outbox <=>
                  [kind |-> "notarize", id |-> x] \in st.outbox \/ x \in N
             /\ [kind |-> "finalize", id |-> x] \in t.outbox <=>
                  [kind |-> "finalize", id |-> x] \in st.outbox
             /\ [kind |-> "skip", id |-> x] \in t.outbox <=>
                  [kind |-> "skip", id |-> x] \in st.outbox
  <2>1. ASSUME NEW l, NEW x, [kind |-> l, id |-> x] \in t.outbox
        PROVE  [kind |-> l, id |-> x] \in st.outbox \/ (l = "notarize" /\ x \in N)
    <3>1. CASE \E c \in N : [kind |-> l, id |-> x] = [kind |-> "notarize", id |-> c]
      BY <3>1, VoteIdentity, Zenon
    <3> QED BY <2>1, <3>1
  <2>2. \A x \in N : [kind |-> "notarize", id |-> x] \in t.outbox
    BY ZenonT(30)
  <2>3. st.outbox \subseteq t.outbox
    BY Zenon
  <2> QED BY <2>1, <2>2, <2>3, ZenonT(30)
<1>1. /\ MyNotarize(t) = MyNotarize(st) \cup N
      /\ MyFinalize(t) = MyFinalize(st)
      /\ MySkip(t) = MySkip(st)
  BY <1>a, ZenonT(30) DEF MyNotarize, MyFinalize, MySkip
<1>2. MyNotarize(st) \subseteq Candidate /\ MyFinalize(st) \subseteq Candidate
  BY NodeAssumption, Zenon DEF MyNotarize, MyFinalize, VotingTypeOK
<1>3. \A c \in N : slotOf[c] \in Tracked /\ Live(st, slotOf[c])
  BY Ids, WindowMonotone, ZenonT(30) DEF Live, FsmState, Cursor
<1>4. \A c \in N : \A d \in MyNotarize(st) \cup MyFinalize(st) : slotOf[d] # slotOf[c]
  BY <1>2, <1>3, Ids DEF OwnVotes, FlagsRemember
<1>5. \A c, d \in N : slotOf[c] = slotOf[d] => c = d
  BY Zenon
<1>6. FlagsRemember(t)
  <2> SUFFICES ASSUME NEW s \in Tracked
               PROVE  /\ ~ (t.slots[s].voted_final /\ t.slots[s].voted_skip)
                      /\ Live(t, s) =>
                          /\ \A c \in MyNotarize(t) : slotOf[c] = s => t.slots[s].voted_notar = c
                          /\ \A c \in MyFinalize(t) :
                                slotOf[c] = s => t.slots[s].voted_final /\ t.slots[s].voted_notar = c
                          /\ s \in MySkip(t) => t.slots[s].voted_skip
    BY Zenon DEF FlagsRemember
  <2>1. CASE \A c \in N : slotOf[c] # s
    BY <1>1, <2>1, SMTT(60) DEF OwnVotes, FlagsRemember, Live
  <2>2. CASE \E c \in N : slotOf[c] = s
    BY <1>1, <1>4, <2>2, SMTT(60) DEF OwnVotes, FlagsRemember, Live
  <2> QED BY <2>1, <2>2, Zenon
<1>7. VotesAgree(t)
  BY <1>1, <1>4, <1>5 DEF OwnVotes, VotesAgree
<1>8. OutboxIsDue(t)
  <2>1. \A c \in N : c \notin notarized[Me]
    BY <1>4, ZenonT(30) DEF MyNotarize
  <2> QED BY <1>a, <2>1, ZenonT(30) DEF OwnVotes, OutboxIsDue
<1> QED BY <1>6, <1>7, <1>8, Zenon DEF OwnVotes

\* try_final: Finalize votes for certified candidates that we notarized, in
\* open slots where we voted neither Finalize nor Skip.
LEMMA CastFinalize ==
    ASSUME NEW st \in FsmState, NEW t \in FsmState, OwnVotes(st), VotingTypeOK,
           NEW F \in SUBSET Candidate,
           \A c \in F : /\ st.fnf <= slotOf[c]
                        /\ st.slots[slotOf[c]].voted_notar = c
                        /\ ~ st.slots[slotOf[c]].voted_final
                        /\ ~ st.slots[slotOf[c]].voted_skip
                        /\ NotarCert(c)
                        /\ t.slots[slotOf[c]].voted_final,
           \A s \in Tracked :
               /\ t.slots[s].voted_notar = st.slots[s].voted_notar
               /\ (\A c \in F : slotOf[c] # s) =>
                     t.slots[s].voted_final = st.slots[s].voted_final
               /\ t.slots[s].voted_skip = st.slots[s].voted_skip,
           t.fnf = st.fnf,
           t.outbox = st.outbox \cup {[kind |-> "finalize", id |-> c] : c \in F}
    PROVE  OwnVotes(t)
<1>a. \A x : /\ [kind |-> "notarize", id |-> x] \in t.outbox <=>
                  [kind |-> "notarize", id |-> x] \in st.outbox
             /\ [kind |-> "finalize", id |-> x] \in t.outbox <=>
                  [kind |-> "finalize", id |-> x] \in st.outbox \/ x \in F
             /\ [kind |-> "skip", id |-> x] \in t.outbox <=>
                  [kind |-> "skip", id |-> x] \in st.outbox
  <2>1. ASSUME NEW l, NEW x, [kind |-> l, id |-> x] \in t.outbox
        PROVE  [kind |-> l, id |-> x] \in st.outbox \/ (l = "finalize" /\ x \in F)
    <3>1. CASE \E c \in F : [kind |-> l, id |-> x] = [kind |-> "finalize", id |-> c]
      BY <3>1, VoteIdentity
    <3> QED BY <2>1, <3>1
  <2>2. \A x \in F : [kind |-> "finalize", id |-> x] \in t.outbox
    BY ZenonT(30)
  <2>3. st.outbox \subseteq t.outbox
    BY Zenon
  <2> QED BY <2>1, <2>2, <2>3, ZenonT(30)
<1>1. /\ MyNotarize(t) = MyNotarize(st)
      /\ MyFinalize(t) = MyFinalize(st) \cup F
      /\ MySkip(t) = MySkip(st)
  BY <1>a, ZenonT(30) DEF MyNotarize, MyFinalize, MySkip
<1>2. MyNotarize(st) \subseteq Candidate /\ MyFinalize(st) \subseteq Candidate
  BY NodeAssumption DEF MyNotarize, MyFinalize, VotingTypeOK
<1>3. \A c \in F : slotOf[c] \in Tracked /\ Live(st, slotOf[c])
  BY Ids, WindowMonotone, ZenonT(30) DEF Live, FsmState, Cursor
<1>4. \A c \in F : /\ \A d \in MyNotarize(st) : slotOf[d] = slotOf[c] => d = c
                   /\ \A d \in MyFinalize(st) : slotOf[d] # slotOf[c]
                   /\ slotOf[c] \notin MySkip(st)
  BY <1>2, <1>3 DEF OwnVotes, FlagsRemember
<1>5. \A c, d \in F : slotOf[c] = slotOf[d] => c = d
  OBVIOUS
<1>6. FlagsRemember(t)
  <2> SUFFICES ASSUME NEW s \in Tracked
               PROVE  /\ ~ (t.slots[s].voted_final /\ t.slots[s].voted_skip)
                      /\ Live(t, s) =>
                          /\ \A c \in MyNotarize(t) : slotOf[c] = s => t.slots[s].voted_notar = c
                          /\ \A c \in MyFinalize(t) :
                                slotOf[c] = s => t.slots[s].voted_final /\ t.slots[s].voted_notar = c
                          /\ s \in MySkip(t) => t.slots[s].voted_skip
    BY Zenon DEF FlagsRemember
  <2>1. CASE \A c \in F : slotOf[c] # s
    BY <1>1, <2>1, SMTT(60) DEF OwnVotes, FlagsRemember, Live
  <2>2. CASE \E c \in F : slotOf[c] = s
    BY <1>1, <1>4, <1>5, <2>2, SMTT(60) DEF OwnVotes, FlagsRemember, Live
  <2> QED BY <2>1, <2>2, Zenon
<1>7. VotesAgree(t)
  BY <1>1, <1>4, <1>5, Zenon DEF OwnVotes, VotesAgree
<1>8. OutboxIsDue(t)
  <2>1. \A c \in F : c \notin finalized[Me]
    BY <1>4, ZenonT(30) DEF MyFinalize
  <2> QED BY <1>a, <2>1, ZenonT(30) DEF OwnVotes, OutboxIsDue
<1> QED BY <1>6, <1>7, <1>8, Zenon DEF OwnVotes

\* try_skip_window: Skip votes for slots of a window that is not forgotten,
\* except those that we voted to finalize.
LEMMA CastSkip ==
    ASSUME NEW st \in FsmState, NEW t \in FsmState, OwnVotes(st), VotingTypeOK,
           NEW S \in SUBSET Slot,
           \A s \in S : /\ Live(st, s)
                        /\ ~ st.slots[s].voted_final
                        /\ t.slots[s].voted_skip,
           \A s \in Tracked :
               /\ t.slots[s].voted_notar = st.slots[s].voted_notar
               /\ t.slots[s].voted_final = st.slots[s].voted_final
               /\ s \notin S => t.slots[s].voted_skip = st.slots[s].voted_skip,
           t.fnf = st.fnf,
           t.outbox = st.outbox \cup {[kind |-> "skip", id |-> <<s, 0>>] : s \in S}
    PROVE  OwnVotes(t)
<1>0. \A x : /\ [kind |-> "notarize", id |-> x] \in t.outbox <=>
                  [kind |-> "notarize", id |-> x] \in st.outbox
             /\ [kind |-> "finalize", id |-> x] \in t.outbox <=>
                  [kind |-> "finalize", id |-> x] \in st.outbox
  BY VoteIdentity, ZenonT(30)
<1>1. /\ MyNotarize(t) = MyNotarize(st)
      /\ MyFinalize(t) = MyFinalize(st)
  BY <1>0, ZenonT(30) DEF MyNotarize, MyFinalize
<1>2. MySkip(t) = MySkip(st) \cup S
  <2>1. \A s \in Tracked : [kind |-> "skip", id |-> <<s, 0>>] \in t.outbox <=>
                 [kind |-> "skip", id |-> <<s, 0>>] \in st.outbox \/ s \in S
    <3>1. ASSUME NEW s, NEW r, [kind |-> "skip", id |-> <<s, 0>>] = [kind |-> "skip", id |-> <<r, 0>>]
          PROVE  s = r
      <4>1. <<s, 0>> = <<r, 0>>
        BY <3>1, VoteIdentity, Zenon
      <4> QED BY <4>1, Zenon
    <3> QED BY <3>1, ZenonT(30)
  <2> QED BY <2>1, Ids, ZenonT(30) DEF MySkip
<1>3. \A s \in S : \A c \in MyFinalize(st) : slotOf[c] # s
  BY Ids, Zenon DEF OwnVotes, FlagsRemember
<1>4. FlagsRemember(t)
  BY <1>1, <1>2, <1>3, SMTT(60) DEF OwnVotes, FlagsRemember, Live
<1>5. VotesAgree(t)
  BY <1>1, <1>2, <1>3, Zenon DEF OwnVotes, VotesAgree
<1>6. OutboxIsDue(t)
  BY ZenonT(30) DEF OwnVotes, OutboxIsDue
<1> QED BY <1>4, <1>5, <1>6, Zenon DEF OwnVotes

(***************************************************************************)
(* Windows, cursors and timers.                                            *)
(***************************************************************************)

\* The cursors are slot numbers up to the one after the bound.
LEMMA Cursors ==
    ASSUME NEW st \in FsmState
    PROVE  /\ st.fnf \in Cursor /\ st.fnf \in Nat /\ st.fnf <= LastSlot + 1
           /\ st.fnp \in Cursor /\ st.fnp \in Nat /\ st.fnp <= LastSlot + 1
<1>1. st.fnf \in Cursor /\ st.fnp \in Cursor
  BY Zenon DEF FsmState
<1>2. \A x \in Cursor : x \in Nat /\ x <= LastSlot + 1
  BY Ids DEF Cursor
<1> QED BY <1>1, <1>2, Zenon

\* What every method that does not finalize a slot preserves.
Keeps(st, t) == FsmInv(t) /\ t.fnf = st.fnf

\* SameCore composes.
LEMMA SameCoreTrans ==
    ASSUME NEW st, NEW t, NEW u, SameCore(st, t), SameCore(t, u)
    PROVE  SameCore(st, u)
BY Zenon DEF SameCore, SameLedger

\* SameCore is reflexive on states.
LEMMA SameCoreRefl ==
    ASSUME NEW st \in FsmState
    PROVE  SameCore(st, st)
BY Zenon DEF SameCore, SameLedger

\* A step that keeps the core keeps the invariant.
LEMMA CoreKeeps ==
    ASSUME NEW st, NEW t, FsmInv(st), SameCore(st, t)
    PROVE  Keeps(st, t)
BY CoreKept, Zenon DEF Keeps, SameCore

\* ensure_window_exists only adds windows.
LEMMA EnsureKeeps ==
    ASSUME NEW st \in FsmState, NEW w \in Nat, NEW alloc
    PROVE  SameCore(st, ensure_window_exists(st, w, alloc))
<1>1. Max({st.w_hi, w + 1}) \in Nat
  BY MaxOfTwo, SMTT(60) DEF FsmState
<1>2. SameCore(st, [st EXCEPT !.w_hi = Max({st.w_hi, w + 1})])
  BY <1>1, SetSmallField, Zenon
<1> QED BY <1>2, SameCoreRefl, Zenon DEF ensure_window_exists

\* The same for the window of a slot.
LEMMA EnsureSlotKeeps ==
    ASSUME NEW st \in FsmState, NEW s \in Nat, NEW alloc
    PROVE  SameCore(st, EnsureSlot(st, s, alloc))
BY EnsureKeeps, WindowBounds, Zenon DEF EnsureSlot

\* Nothing is known of the slot after the bound.
LEMMA BeyondLast ==
    ASSUME NEW st \in FsmState, Beliefs(st)
    PROVE  ~ is_slot_progressed(st, LastSlot + 1) /\ ~ is_slot_skipped_cert(st, LastSlot + 1)
<1>1. LastSlot + 1 \in Tracked /\ LastSlot + 1 \notin Slot
  BY Ids DEF Cursor
<1>2. st.slots[LastSlot + 1].observed_notar \in BlockId
  BY <1>1, Zenon DEF FsmState, SlotState
<1>3. st.slots[LastSlot + 1].observed_notar = Unknown
  BY <1>1, <1>2, Ids DEF Beliefs, BlockId
<1>4. st.fnf <= LastSlot + 1
  BY Cursors, Zenon
<1>5. ~ st.slots[LastSlot + 1].skipped
  BY <1>1, <1>4, Zenon DEF Beliefs
<1> QED BY <1>3, <1>5, Zenon DEF is_slot_progressed, is_slot_skipped_cert

\* advance_progress_cursor moves the cursor only, within the bound.
LEMMA AdvanceCursorKeeps ==
    ASSUME NEW st, FsmInv(st)
    PROVE  SameCore(st, advance_progress_cursor(st))
<1> DEFINE P == {s \in st.fnp .. LastSlot + slots_per_leader_window :
                     ~ is_slot_progressed(st, s)}
<1>1. st \in FsmState /\ st.fnp \in Nat /\ st.fnp <= LastSlot + 1
  BY Cursors, Zenon DEF FsmInv
<1>2. LastSlot + 1 \in P
  BY <1>1, BeyondLast, Ids, WindowAssumption DEF FsmInv
<1>3. P \subseteq Nat
  BY <1>1, Ids, WindowAssumption
<1> HIDE DEF P
<1>4. Min(P) \in Nat /\ Min(P) <= LastSlot + 1
  BY <1>2, <1>3, MinExists, ZenonT(30)
<1>5. Min(P) \in Cursor
  BY <1>4, Ids DEF Cursor
<1>6. SameCore(st, [st EXCEPT !.fnp = Min(P)])
  BY <1>1, <1>5, SetSmallField, Zenon
<1> QED BY <1>6, Zenon DEF P, advance_progress_cursor

\* maybe_jump_progress_cursor_after_finalization moves the cursor only.
LEMMA JumpKeeps ==
    ASSUME NEW st \in FsmState, NEW s \in Slot
    PROVE  SameCore(st, maybe_jump_progress_cursor_after_finalization(st, s))
<1>1. Max({st.fnp, s + 1}) \in Cursor
  <2>1. s \in Nat /\ s + 1 \in Cursor /\ st.fnp \in Cursor /\ st.fnp \in Nat
    BY Cursors, Ids, Zenon
  <2> QED BY <2>1, MaxOfTwo
<1> QED
  BY <1>1, SetSmallField, Zenon DEF maybe_jump_progress_cursor_after_finalization

\* set_timeouts touches the timer only.
LEMMA TimeoutsKeep ==
    ASSUME NEW st \in FsmState
    PROVE  SameCore(st, set_timeouts(st))
<1>1. st.fnp \in Nat /\ st.window \in Nat
  BY Ids, Zenon DEF FsmState, Cursor
<1>2. WindowStart(st.window) \in Nat
  BY <1>1, WindowAssumption DEF WindowStart
<1> DEFINE x == Max({st.fnp, WindowStart(st.window)})
<1>3. x \in Nat
  BY <1>1, <1>2, MaxOfTwo
<1> HIDE DEF x
<1>4. SameCore(st, [st EXCEPT !.skip_slot = x, !.armed = TRUE])
  BY <1>3, ZenonT(30) DEF FsmState, SameCore, SameLedger
<1> QED BY <1>4, Zenon DEF x, set_timeouts

\* RescheduleAfter touches the timer only, or panics.
LEMMA RescheduleKeeps ==
    ASSUME NEW st \in FsmState, NEW s \in Slot
    PROVE  SameCore(st, RescheduleAfter(st, s))
<1>1. s + 1 \in Nat
  BY Ids, Zenon
<1>2. SameCore(st, [st EXCEPT !.skip_slot = s + 1])
  BY <1>1, SetSmallField, Zenon
<1>3. SameCore(st, [st EXCEPT !.panic = "timer offset underflow"])
  <2>1. "timer offset underflow" \in PanicReason
    BY Zenon DEF PanicReason
  <2> QED BY <2>1, SetSmallField, ZenonT(30)
<1> QED BY <1>2, <1>3, SameCoreRefl, ZenonT(30) DEF RescheduleAfter

(***************************************************************************)
(* Bases.                                                                  *)
(***************************************************************************)

\* A base that is notarized, or genesis, with skip certificates up to the
\* slot, may be stored.
LEMMA SetBaseKeeps ==
    ASSUME NEW st, FsmInv(st), NEW s \in Tracked, NEW b \in Candidate \cup {Genesis}, BaseFor(b, s)
    PROVE  Keeps(st, [st EXCEPT !.slots[s].available_base = b])
<1> DEFINE slot == [st.slots[s] EXCEPT !.available_base = b]
           f == [st.slots EXCEPT ![s] = slot]
           t == [st EXCEPT !.slots = f]
<1>1. st \in FsmState /\ st.slots \in [Tracked -> SlotState]
  BY Zenon DEF FsmInv, FsmState
<1>2. /\ slot \in SlotState
      /\ slot.available_base = b
      /\ slot.pending_block = st.slots[s].pending_block
      /\ slot.voted_notar = st.slots[s].voted_notar
      /\ slot.voted_final = st.slots[s].voted_final
      /\ slot.voted_skip = st.slots[s].voted_skip
      /\ slot.observed_notar = st.slots[s].observed_notar
      /\ slot.skipped = st.slots[s].skipped
  BY <1>1, Zenon DEF SlotState, Base
<1> HIDE DEF slot
<1>3. /\ f \in [Tracked -> SlotState] /\ f[s] = slot
      /\ \A x \in Tracked : x # s => f[x] = st.slots[x]
  BY <1>1, <1>2, Zenon
<1> HIDE DEF f
<1>4. /\ t \in FsmState /\ t.slots = f /\ t.fnf = st.fnf /\ t.outbox = st.outbox
      /\ t.skip_cert = st.skip_cert /\ t.skip_intervals = st.skip_intervals
      /\ SameLedger(st, t)
  BY <1>1, <1>3, SetSlots, Zenon
<1> HIDE DEF t
<1>5. OwnVotes(t)
  <2>1. SameFlags(st, t)
    BY <1>2, <1>3, <1>4, Zenon DEF SameFlags
  <2> QED BY <1>4, <2>1, OwnVotesKept, Zenon DEF FsmInv
<1>6. Beliefs(t)
  BY <1>2, <1>3, <1>4, SMTT(60) DEF FsmInv, Beliefs
<1>7. Indexed(t) /\ Ledger(t)
  BY <1>4, IndexKept, LedgerKept, Zenon DEF FsmInv
<1>8. Keeps(st, t)
  BY <1>4, <1>5, <1>6, <1>7, Zenon DEF Keeps, FsmInv
<1> QED BY <1>8, Zenon DEF t, f, slot

\* add_available_base_max stores the base or nothing.
LEMMA AddBaseKeeps ==
    ASSUME NEW st, FsmInv(st), NEW s \in Tracked, NEW b \in Candidate \cup {Genesis}, BaseFor(b, s)
    PROVE  Keeps(st, add_available_base_max(st, s, b))
<1>1. Keeps(st, [st EXCEPT !.slots[s].available_base = b])
  BY SetBaseKeeps, Zenon
<1>2. Keeps(st, st)
  BY Zenon DEF Keeps
<1> QED BY <1>1, <1>2, Zenon DEF add_available_base_max

(***************************************************************************)
(* try_final, try_notar, check_pending_blocks, on_candidate.               *)
(***************************************************************************)

\* The beliefs do not depend on our votes, and a parked candidate may go.
LEMMA BeliefsKept ==
    ASSUME NEW st, NEW t, Beliefs(st), t.fnf = st.fnf, t.skip_cert = st.skip_cert,
           \A s \in Tracked :
               /\ t.slots[s].observed_notar = st.slots[s].observed_notar
               /\ t.slots[s].available_base = st.slots[s].available_base
               /\ t.slots[s].skipped = st.slots[s].skipped
               /\ t.slots[s].pending_block \in {st.slots[s].pending_block, Unknown}
    PROVE  Beliefs(t)
BY SMTT(60) DEF Beliefs

\* A slot may be given another block that is certified, or parked.
LEMMA BeliefsOfSlot ==
    ASSUME NEW st, NEW t, Beliefs(st), t.fnf = st.fnf, t.skip_cert = st.skip_cert,
           NEW s \in Tracked, \A x \in Tracked : x # s => t.slots[x] = st.slots[x],
           t.slots[s].available_base = st.slots[s].available_base,
           t.slots[s].skipped = st.slots[s].skipped,
           t.slots[s].observed_notar # Unknown =>
               slotOf[t.slots[s].observed_notar] = s /\ NotarCert(t.slots[s].observed_notar),
           t.slots[s].pending_block # Unknown => slotOf[t.slots[s].pending_block] = s
    PROVE  Beliefs(t)
<1> SUFFICES ASSUME NEW x \in Tracked
             PROVE  /\ t.slots[x].observed_notar # Unknown =>
                          slotOf[t.slots[x].observed_notar] = x /\ NotarCert(t.slots[x].observed_notar)
                    /\ t.slots[x].pending_block # Unknown => slotOf[t.slots[x].pending_block] = x
                    /\ t.slots[x].available_base # Unknown => BaseFor(t.slots[x].available_base, x)
                    /\ t.skip_cert[x] => x \in Slot /\ SkipCert(x)
                    /\ t.slots[x].skipped /\ t.fnf <= x => t.skip_cert[x]
  BY ZenonT(30) DEF Beliefs
<1>1. /\ st.slots[x].observed_notar # Unknown =>
            slotOf[st.slots[x].observed_notar] = x /\ NotarCert(st.slots[x].observed_notar)
      /\ st.slots[x].pending_block # Unknown => slotOf[st.slots[x].pending_block] = x
      /\ st.slots[x].available_base # Unknown => BaseFor(st.slots[x].available_base, x)
      /\ st.skip_cert[x] => x \in Slot /\ SkipCert(x)
      /\ st.slots[x].skipped /\ st.fnf <= x => st.skip_cert[x]
  BY ZenonT(30) DEF Beliefs
<1>2. CASE x = s
  BY <1>1, <1>2, ZenonT(30)
<1>3. CASE x # s
  BY <1>1, <1>3, ZenonT(30)
<1> QED BY <1>2, <1>3, ZenonT(30)

\* One slot record is replaced.
LEMMA PutSlot ==
    ASSUME NEW st \in FsmState, NEW s \in Tracked, NEW slot \in SlotState
    PROVE  LET t == [st EXCEPT !.slots[s] = slot]
           IN  /\ t \in FsmState
               /\ t.slots[s] = slot
               /\ \A x \in Tracked : x # s => t.slots[x] = st.slots[x]
               /\ t.fnf = st.fnf
               /\ t.outbox = st.outbox
               /\ t.skip_cert = st.skip_cert
               /\ t.skip_intervals = st.skip_intervals
               /\ SameLedger(st, t)
<1> DEFINE f == [st.slots EXCEPT ![s] = slot]
<1>1. /\ f \in [Tracked -> SlotState] /\ f[s] = slot
      /\ \A x \in Tracked : x # s => f[x] = st.slots[x]
  BY Zenon DEF FsmState
<1> HIDE DEF f
<1>2. [st EXCEPT !.slots[s] = slot] = [st EXCEPT !.slots = f]
  BY Zenon DEF f
<1> DEFINE t == [st EXCEPT !.slots = f]
<1>3. /\ t \in FsmState /\ t.slots = f /\ t.fnf = st.fnf /\ t.outbox = st.outbox
      /\ t.skip_cert = st.skip_cert /\ t.skip_intervals = st.skip_intervals
      /\ SameLedger(st, t)
  BY <1>1, SetSlots, Zenon
<1> HIDE DEF t
<1>4. [st EXCEPT !.slots[s] = slot] = t
  BY <1>2, Zenon DEF t
<1> QED BY <1>1, <1>3, <1>4, ZenonT(30)

\* Broadcasting a vote leaves the rest of the record alone.
LEMMA BroadcastFacts ==
    ASSUME NEW st \in FsmState, NEW kind, NEW id, [kind |-> kind, id |-> id] \in Vote
    PROVE  /\ BroadcastVote(st, kind, id) \in FsmState
           /\ BroadcastVote(st, kind, id).outbox = st.outbox \cup {[kind |-> kind, id |-> id]}
           /\ BroadcastVote(st, kind, id).fnf = st.fnf
           /\ BroadcastVote(st, kind, id).slots = st.slots
           /\ BroadcastVote(st, kind, id).skip_cert = st.skip_cert
           /\ BroadcastVote(st, kind, id).skip_intervals = st.skip_intervals
           /\ SameLedger(st, BroadcastVote(st, kind, id))
<1>1. st.outbox \cup {[kind |-> kind, id |-> id]} \in SUBSET Vote
  BY Zenon DEF FsmState
<1> HIDE DEF FsmState
<1> QED BY <1>1, SetOutbox, Zenon DEF BroadcastVote

\* try_final casts a Finalize vote that the rules allow, or nothing.
LEMMA TryFinalKeeps ==
    ASSUME NEW st, FsmInv(st), VotingTypeOK, NEW c \in Candidate, st.fnf <= slotOf[c]
    PROVE  Keeps(st, try_final(st, c))
<1> DEFINE s == slotOf[c]
           t == EnsureSlot(st, s, "bounded")
           slot == [t.slots[s] EXCEPT !.voted_final = TRUE]
           u == [t EXCEPT !.slots[s] = slot]
           v == BroadcastVote(u, "finalize", c)
<1>1. s \in Tracked /\ s \in Nat /\ st \in FsmState
  BY Ids, Zenon DEF FsmInv
<1>2. Keeps(st, t)
  BY <1>1, EnsureSlotKeeps, CoreKeeps, Zenon
<1> HIDE DEF t
<1>3. t \in FsmState /\ t.slots[s] \in SlotState
  BY <1>1, <1>2, Zenon DEF Keeps, FsmInv, FsmState
<1>4. ASSUME CanFinalize(t, c) PROVE Keeps(st, v)
  <2>1. /\ slot \in SlotState
        /\ slot.voted_final
        /\ slot.available_base = t.slots[s].available_base
        /\ slot.pending_block = t.slots[s].pending_block
        /\ slot.voted_notar = t.slots[s].voted_notar
        /\ slot.voted_skip = t.slots[s].voted_skip
        /\ slot.observed_notar = t.slots[s].observed_notar
        /\ slot.skipped = t.slots[s].skipped
    BY <1>3, ZenonT(30) DEF SlotState
  <2> HIDE DEF slot
  <2>2. /\ u \in FsmState /\ u.slots[s] = slot
        /\ \A x \in Tracked : x # s => u.slots[x] = t.slots[x]
        /\ u.fnf = t.fnf /\ u.outbox = t.outbox /\ u.skip_cert = t.skip_cert
        /\ u.skip_intervals = t.skip_intervals /\ SameLedger(t, u)
    BY <1>1, <1>3, <2>1, PutSlot
  <2> HIDE DEF u
  <2>3. /\ v \in FsmState /\ v.slots = u.slots /\ v.fnf = t.fnf
        /\ v.outbox = t.outbox \cup {[kind |-> "finalize", id |-> c]}
        /\ v.skip_cert = t.skip_cert
        /\ v.skip_intervals = t.skip_intervals /\ SameLedger(t, v)
    <3>1. [kind |-> "finalize", id |-> c] \in Vote
      BY VotesAreVotes, ZenonT(30)
    <3>2. /\ v \in FsmState /\ v.outbox = u.outbox \cup {[kind |-> "finalize", id |-> c]}
          /\ v.fnf = u.fnf /\ v.slots = u.slots /\ v.skip_cert = u.skip_cert
          /\ v.skip_intervals = u.skip_intervals /\ SameLedger(u, v)
      BY <2>2, <3>1, BroadcastFacts, SMTT(60)
    <3> HIDE DEF v
    <3> QED BY <2>2, <3>2, Zenon DEF SameLedger
  <2> HIDE DEF v
  <2>4. /\ t.slots[s].observed_notar = c /\ t.slots[s].voted_notar = c
        /\ ~ t.slots[s].voted_final /\ ~ t.slots[s].voted_skip
    BY <1>4, Zenon DEF CanFinalize
  <2>5. NotarCert(c)
    <3>1. Beliefs(t) /\ t.slots[s].observed_notar # Unknown
      BY <1>2, <2>4, Ids, Zenon DEF Keeps, FsmInv
    <3> QED BY <1>1, <2>4, <3>1, Zenon DEF Beliefs
  <2>6. OwnVotes(v)
    <3> DEFINE F == {c}
    <3>1. \A d \in F : /\ t.fnf <= slotOf[d]
                       /\ t.slots[slotOf[d]].voted_notar = d
                       /\ ~ t.slots[slotOf[d]].voted_final
                       /\ ~ t.slots[slotOf[d]].voted_skip
                       /\ NotarCert(d)
                       /\ v.slots[slotOf[d]].voted_final
      BY <1>2, <2>1, <2>2, <2>3, <2>4, <2>5, Zenon DEF Keeps
    <3>2. \A x \in Tracked :
               /\ v.slots[x].voted_notar = t.slots[x].voted_notar
               /\ (\A d \in F : slotOf[d] # x) => v.slots[x].voted_final = t.slots[x].voted_final
               /\ v.slots[x].voted_skip = t.slots[x].voted_skip
      BY <2>1, <2>2, <2>3, Zenon
    <3>3. v.outbox = t.outbox \cup {[kind |-> "finalize", id |-> d] : d \in F}
      BY <2>3, Zenon
    <3>4. F \in SUBSET Candidate
      BY Zenon
    <3>5. OwnVotes(t)
      BY <1>2, Zenon DEF Keeps, FsmInv
    <3> HIDE DEF F
    <3> QED BY <1>3, <2>3, <3>1, <3>2, <3>3, <3>4, <3>5, CastFinalize, SMTT(60)
  <2>7. Beliefs(v)
    <3>1. \A x \in Tracked :
               /\ v.slots[x].observed_notar = t.slots[x].observed_notar
               /\ v.slots[x].available_base = t.slots[x].available_base
               /\ v.slots[x].skipped = t.slots[x].skipped
               /\ v.slots[x].pending_block \in {t.slots[x].pending_block, Unknown}
      BY <2>1, <2>2, <2>3, Zenon
    <3> QED BY <1>2, <2>3, <3>1, BeliefsKept, Zenon DEF Keeps, FsmInv
  <2>8. Indexed(v) /\ Ledger(v)
    BY <1>2, <2>3, IndexKept, LedgerKept, Zenon DEF Keeps, FsmInv
  <2> QED BY <1>2, <2>3, <2>6, <2>7, <2>8, Zenon DEF Keeps, FsmInv
<1> QED BY <1>2, <1>4, Zenon DEF try_final, t

\* A candidate that builds on the base of its slot is justified.
LEMMA JustifiedByBase ==
    ASSUME NEW st, Beliefs(st), NEW c \in Candidate,
           st.slots[slotOf[c]].available_base = parent[c]
    PROVE  Justified(c)
<1>1. slotOf[c] \in Tracked /\ parent[c] # Unknown
  BY Ids, Zenon
<1>2. BaseFor(parent[c], slotOf[c])
  BY <1>1, Zenon DEF Beliefs
<1> QED BY <1>2, Zenon DEF BaseFor, Justified

\* try_notar casts a Notarize vote that the rules allow and maybe the
\* Finalize vote that follows from it, or nothing.
LEMMA TryNotarKeeps ==
    ASSUME NEW st, FsmInv(st), VotingTypeOK, NEW c \in Candidate
    PROVE  Keeps(st, try_notar(st, c))
<1> DEFINE s == slotOf[c]
           t == EnsureSlot(st, s, "bounded")
           slot == [t.slots[s] EXCEPT !.voted_notar = c, !.pending_block = Unknown]
           u == [t EXCEPT !.slots[s] = slot]
           v == BroadcastVote(u, "notarize", c)
<1>1. s \in Tracked /\ s \in Nat /\ st \in FsmState
  BY Ids, Zenon DEF FsmInv
<1>2. Keeps(st, t)
  BY <1>1, EnsureSlotKeeps, CoreKeeps, Zenon
<1> HIDE DEF t
<1>3. t \in FsmState /\ t.slots \in [Tracked -> SlotState] /\ t.slots[s] \in SlotState
  BY <1>1, <1>2, Zenon DEF Keeps, FsmInv, FsmState
<1>4. ASSUME CanNotarize(t, c) PROVE Keeps(st, try_final(v, c))
  <2>1. /\ slot \in SlotState
        /\ slot.voted_notar = c
        /\ slot.pending_block = Unknown
        /\ slot.available_base = t.slots[s].available_base
        /\ slot.voted_final = t.slots[s].voted_final
        /\ slot.voted_skip = t.slots[s].voted_skip
        /\ slot.observed_notar = t.slots[s].observed_notar
        /\ slot.skipped = t.slots[s].skipped
    BY <1>3, ZenonT(30) DEF SlotState, BlockId
  <2> HIDE DEF slot
  <2>2. /\ u \in FsmState /\ u.slots[s] = slot
        /\ \A x \in Tracked : x # s => u.slots[x] = t.slots[x]
        /\ u.fnf = t.fnf /\ u.outbox = t.outbox /\ u.skip_cert = t.skip_cert
        /\ u.skip_intervals = t.skip_intervals /\ SameLedger(t, u)
    BY <1>1, <1>3, <2>1, PutSlot
  <2> HIDE DEF u
  <2>3. /\ v \in FsmState /\ v.slots = u.slots /\ v.fnf = t.fnf
        /\ v.outbox = t.outbox \cup {[kind |-> "notarize", id |-> c]}
        /\ v.skip_cert = t.skip_cert
        /\ v.skip_intervals = t.skip_intervals /\ SameLedger(t, v)
    <3>1. [kind |-> "notarize", id |-> c] \in Vote
      BY VotesAreVotes, ZenonT(30)
    <3>2. /\ v \in FsmState /\ v.outbox = u.outbox \cup {[kind |-> "notarize", id |-> c]}
          /\ v.fnf = u.fnf /\ v.slots = u.slots /\ v.skip_cert = u.skip_cert
          /\ v.skip_intervals = u.skip_intervals /\ SameLedger(u, v)
      BY <2>2, <3>1, BroadcastFacts, SMTT(60)
    <3> HIDE DEF v
    <3> QED BY <2>2, <3>2, Zenon DEF SameLedger
  <2> HIDE DEF v
  <2>4. /\ t.slots[s].voted_notar = Unknown /\ t.slots[s].available_base = parent[c]
        /\ t.fnf <= s
    BY <1>1, <1>3, <1>4, Cursors, Zenon DEF CanNotarize, HasSlot
  <2>5. Justified(c)
    BY <1>2, <2>4, JustifiedByBase, Zenon DEF Keeps, FsmInv
  <2>6. OwnVotes(v)
    <3> DEFINE N == {c}
    <3>1. \A d \in N : /\ t.fnf <= slotOf[d]
                       /\ t.slots[slotOf[d]].voted_notar = Unknown
                       /\ Justified(d)
                       /\ v.slots[slotOf[d]].voted_notar = d
      BY <2>1, <2>2, <2>3, <2>4, <2>5, Zenon
    <3>2. \A x \in Tracked :
               /\ (\A d \in N : slotOf[d] # x) => v.slots[x].voted_notar = t.slots[x].voted_notar
               /\ v.slots[x].voted_final = t.slots[x].voted_final
               /\ v.slots[x].voted_skip = t.slots[x].voted_skip
      BY <2>1, <2>2, <2>3, Zenon
    <3>3. v.outbox = t.outbox \cup {[kind |-> "notarize", id |-> d] : d \in N}
      BY <2>3, Zenon
    <3>4. N \in SUBSET Candidate
      BY Zenon
    <3>5. OwnVotes(t)
      BY <1>2, Zenon DEF Keeps, FsmInv
    <3> HIDE DEF N
    <3> QED BY <1>3, <2>3, <3>1, <3>2, <3>3, <3>4, <3>5, CastNotarize, ZenonT(30)
  <2>7. Beliefs(v)
    <3>1. \A x \in Tracked :
               /\ v.slots[x].observed_notar = t.slots[x].observed_notar
               /\ v.slots[x].available_base = t.slots[x].available_base
               /\ v.slots[x].skipped = t.slots[x].skipped
               /\ v.slots[x].pending_block \in {t.slots[x].pending_block, Unknown}
      BY <2>1, <2>2, <2>3, Zenon
    <3> QED BY <1>2, <2>3, <3>1, BeliefsKept, Zenon DEF Keeps, FsmInv
  <2>8. Indexed(v) /\ Ledger(v)
    BY <1>2, <2>3, IndexKept, LedgerKept, Zenon DEF Keeps, FsmInv
  <2>9. FsmInv(v) /\ v.fnf = st.fnf
    BY <1>2, <2>3, <2>6, <2>7, <2>8, Zenon DEF Keeps, FsmInv
  <2>10. Keeps(v, try_final(v, c))
    BY <2>3, <2>4, <2>9, TryFinalKeeps, Zenon
  <2> QED BY <2>9, <2>10, Zenon DEF Keeps
<1>5. [t EXCEPT !.slots[s].voted_notar = c, !.slots[s].pending_block = Unknown] = u
  BY <1>1, <1>3, ZenonT(30) DEF FsmState, SlotState
<1> QED BY <1>2, <1>4, <1>5, Zenon DEF try_notar, t

\* check_pending_blocks casts the votes that the rules allow for parked
\* candidates.
LEMMA CheckPendingKeeps ==
    ASSUME NEW st, FsmInv(st), VotingTypeOK
    PROVE  Keeps(st, check_pending_blocks(st))
<1> DEFINE Parked(s) == st.slots[s].pending_block
           open == {s \in st.pending_slots : HasSlot(st, s) /\ Parked(s) # Unknown}
           now == {s \in open : CanNotarize(st, Parked(s))}
           f == [s \in Tracked |-> IF s \in now THEN [st.slots[s] EXCEPT !.voted_notar = Parked(s),
                                                                         !.pending_block = Unknown]
                                                ELSE st.slots[s]]
           X == st.outbox \cup {[kind |-> "notarize", id |-> Parked(s)] : s \in now}
           t == [st EXCEPT !.slots = f, !.pending_slots = open \ now, !.outbox = X]
           final == {s \in now : CanFinalize(t, Parked(s))}
           g == [s \in Tracked |-> IF s \in final THEN [t.slots[s] EXCEPT !.voted_final = TRUE]
                                                  ELSE t.slots[s]]
           Y == t.outbox \cup {[kind |-> "finalize", id |-> Parked(s)] : s \in final}
           u == [t EXCEPT !.slots = g, !.outbox = Y]
           N == {Parked(s) : s \in now}
           F == {Parked(s) : s \in final}
<1>1. /\ st \in FsmState /\ st.pending_slots \subseteq Tracked /\ st.outbox \subseteq Vote
      /\ \A s \in Tracked : st.slots[s] \in SlotState
  BY Zenon DEF FsmInv, FsmState
<1>2. ASSUME NEW s \in now
      PROVE  /\ s \in Tracked /\ Parked(s) \in Candidate /\ slotOf[Parked(s)] = s
             /\ st.fnf <= s /\ st.slots[s].voted_notar = Unknown /\ Justified(Parked(s))
  <2>1. s \in Tracked /\ HasSlot(st, s) /\ Parked(s) # Unknown /\ CanNotarize(st, Parked(s))
    BY <1>1, Zenon
  <2>2. Parked(s) \in Candidate
    BY <1>1, <2>1, Zenon DEF SlotState, BlockId
  <2>3. slotOf[Parked(s)] = s
    BY <2>1, Zenon DEF FsmInv, Beliefs
  <2>4. st.slots[s].voted_notar = Unknown /\ st.slots[s].available_base = parent[Parked(s)]
    BY <2>1, <2>3, Zenon DEF CanNotarize
  <2>5. Justified(Parked(s))
    BY <2>2, <2>3, <2>4, JustifiedByBase, Zenon DEF FsmInv
  <2>6. st.fnf <= s
    BY <1>1, <2>1, Ids, Cursors, Zenon DEF HasSlot
  <2> QED BY <2>1, <2>2, <2>3, <2>4, <2>5, <2>6, Zenon
<1>3. /\ f \in [Tracked -> SlotState]
      /\ \A s \in Tracked :
            /\ s \in now => f[s].voted_notar = Parked(s) /\ f[s].pending_block = Unknown
            /\ s \notin now => f[s].voted_notar = st.slots[s].voted_notar
                               /\ f[s].pending_block = Parked(s)
            /\ f[s].available_base = st.slots[s].available_base
            /\ f[s].voted_final = st.slots[s].voted_final
            /\ f[s].voted_skip = st.slots[s].voted_skip
            /\ f[s].observed_notar = st.slots[s].observed_notar
            /\ f[s].skipped = st.slots[s].skipped
  <2>1. \A s \in now : Parked(s) \in Candidate
    BY <1>2, Zenon
  <2> HIDE DEF now
  <2>2. ASSUME NEW s \in Tracked, s \in now
        PROVE  LET x == [st.slots[s] EXCEPT !.voted_notar = Parked(s), !.pending_block = Unknown]
               IN  /\ f[s] = x /\ x \in SlotState
                   /\ x.voted_notar = Parked(s) /\ x.pending_block = Unknown
                   /\ x.available_base = st.slots[s].available_base
                   /\ x.voted_final = st.slots[s].voted_final
                   /\ x.voted_skip = st.slots[s].voted_skip
                   /\ x.observed_notar = st.slots[s].observed_notar
                   /\ x.skipped = st.slots[s].skipped
    <3>1. Parked(s) \in BlockId /\ Unknown \in BlockId
      BY <2>1, <2>2, Zenon DEF BlockId
    <3> QED BY <1>1, <2>2, <3>1, ZenonT(30) DEF SlotState
  <2>3. ASSUME NEW s \in Tracked, s \notin now
        PROVE  f[s] = st.slots[s]
    BY <2>3, Zenon
  <2>4. f \in [Tracked -> SlotState]
    <3>1. \A s \in Tracked : f[s] \in SlotState
      BY <1>1, <2>2, <2>3, ZenonT(30)
    <3> QED BY <3>1, ZenonT(30)
  <2> HIDE DEF f
  <2>5. ASSUME NEW s \in Tracked, s \in now
        PROVE  /\ f[s].voted_notar = Parked(s) /\ f[s].pending_block = Unknown
               /\ f[s].available_base = st.slots[s].available_base
               /\ f[s].voted_final = st.slots[s].voted_final
               /\ f[s].voted_skip = st.slots[s].voted_skip
               /\ f[s].observed_notar = st.slots[s].observed_notar
               /\ f[s].skipped = st.slots[s].skipped
    BY <2>2, <2>5, ZenonT(30)
  <2> QED BY <2>3, <2>4, <2>5, Zenon
<1>4. X \subseteq Vote /\ X = st.outbox \cup {[kind |-> "notarize", id |-> c] : c \in N}
  <2>1. \A s \in now : [kind |-> "notarize", id |-> Parked(s)] \in Vote
    BY <1>2, VotesAreVotes, ZenonT(30)
  <2> HIDE DEF now, Parked
  <2>2. X \subseteq Vote
    BY <1>1, <2>1, Zenon
  <2>3. {[kind |-> "notarize", id |-> Parked(s)] : s \in now}
            = {[kind |-> "notarize", id |-> c] : c \in N}
    BY Zenon
  <2> QED BY <2>2, <2>3, Zenon
<1>5. open \ now \in SUBSET Tracked
  BY <1>1, Zenon
<1>6. /\ t \in FsmState /\ t.slots = f /\ t.outbox = X /\ t.fnf = st.fnf
      /\ t.skip_cert = st.skip_cert
      /\ t.skip_intervals = st.skip_intervals /\ SameLedger(st, t)
  <2> HIDE DEF f, X, now, open
  <2>1. f \in [Tracked -> SlotState] /\ X \in SUBSET Vote
    BY <1>3, <1>4, Zenon
  <2> QED BY <1>1, <1>5, <2>1, ZenonT(30) DEF FsmState, SameLedger
<1> HIDE DEF t, f, X
<1>7. OwnVotes(t)
  <2>1. N \in SUBSET Candidate
    BY <1>2, Zenon
  <2>2. \A c \in N : /\ st.fnf <= slotOf[c]
                     /\ st.slots[slotOf[c]].voted_notar = Unknown
                     /\ Justified(c)
                     /\ t.slots[slotOf[c]].voted_notar = c
    <3> HIDE DEF now
    <3> QED BY <1>2, <1>3, <1>6, SMTT(60)
  <2>3. \A s \in Tracked :
            /\ (\A c \in N : slotOf[c] # s) => t.slots[s].voted_notar = st.slots[s].voted_notar
            /\ t.slots[s].voted_final = st.slots[s].voted_final
            /\ t.slots[s].voted_skip = st.slots[s].voted_skip
    <3> HIDE DEF now
    <3> QED BY <1>2, <1>3, <1>6, SMTT(60)
  <2>4. t.outbox = st.outbox \cup {[kind |-> "notarize", id |-> c] : c \in N}
    BY <1>4, <1>6, Zenon
  <2>5. OwnVotes(st)
    BY Zenon DEF FsmInv
  <2> HIDE DEF N
  <2> QED BY <1>1, <1>6, <2>1, <2>2, <2>3, <2>4, <2>5, CastNotarize, Zenon
<1>8. Beliefs(t)
  <2>1. \A s \in Tracked :
             /\ t.slots[s].observed_notar = st.slots[s].observed_notar
             /\ t.slots[s].available_base = st.slots[s].available_base
             /\ t.slots[s].skipped = st.slots[s].skipped
             /\ t.slots[s].pending_block \in {st.slots[s].pending_block, Unknown}
    BY <1>3, <1>6, Zenon
  <2> QED BY <1>6, <2>1, BeliefsKept, Zenon DEF FsmInv
<1>9. ASSUME NEW s \in final
      PROVE  /\ s \in Tracked /\ Parked(s) \in Candidate /\ slotOf[Parked(s)] = s /\ t.fnf <= s
             /\ t.slots[s].voted_notar = Parked(s) /\ ~ t.slots[s].voted_final
             /\ ~ t.slots[s].voted_skip /\ NotarCert(Parked(s))
  <2>1. s \in now /\ CanFinalize(t, Parked(s))
    BY Zenon
  <2>2. /\ s \in Tracked /\ Parked(s) \in Candidate /\ slotOf[Parked(s)] = s /\ t.fnf <= s
    BY <1>2, <1>6, <2>1, Zenon
  <2>3. /\ t.slots[s].voted_notar = Parked(s) /\ ~ t.slots[s].voted_final
        /\ ~ t.slots[s].voted_skip /\ t.slots[s].observed_notar = Parked(s)
    BY <2>1, <2>2, ZenonT(30) DEF CanFinalize
  <2>4. NotarCert(Parked(s))
    BY <1>8, <2>2, <2>3, Ids, Zenon DEF Beliefs
  <2> QED BY <2>2, <2>3, <2>4, Zenon
<1>10. /\ g \in [Tracked -> SlotState]
       /\ \A s \in Tracked :
            /\ s \in final => g[s].voted_final
            /\ s \notin final => g[s].voted_final = t.slots[s].voted_final
            /\ g[s].voted_notar = t.slots[s].voted_notar
            /\ g[s].pending_block = t.slots[s].pending_block
            /\ g[s].available_base = t.slots[s].available_base
            /\ g[s].voted_skip = t.slots[s].voted_skip
            /\ g[s].observed_notar = t.slots[s].observed_notar
            /\ g[s].skipped = t.slots[s].skipped
  <2>1. \A s \in Tracked : t.slots[s] \in SlotState
    BY <1>3, <1>6, Zenon
  <2> HIDE DEF final
  <2> QED BY <2>1, ZenonT(30) DEF SlotState
<1>11. Y \subseteq Vote /\ Y = t.outbox \cup {[kind |-> "finalize", id |-> c] : c \in F}
  <2>1. t.outbox \subseteq Vote
    BY <1>6, Zenon DEF FsmState
  <2>2. \A s \in final : [kind |-> "finalize", id |-> Parked(s)] \in Vote
    BY <1>9, VotesAreVotes, ZenonT(30)
  <2> HIDE DEF final, Parked
  <2>3. Y \subseteq Vote
    BY <2>1, <2>2, Zenon
  <2>4. {[kind |-> "finalize", id |-> Parked(s)] : s \in final}
            = {[kind |-> "finalize", id |-> c] : c \in F}
    BY Zenon
  <2> QED BY <2>3, <2>4, Zenon
<1>12. /\ u \in FsmState /\ u.slots = g /\ u.outbox = Y /\ u.fnf = t.fnf
       /\ u.skip_cert = t.skip_cert
       /\ u.skip_intervals = t.skip_intervals /\ SameLedger(t, u)
  <2> HIDE DEF g, Y
  <2>1. g \in [Tracked -> SlotState] /\ Y \in SUBSET Vote
    BY <1>10, <1>11, ZenonT(30)
  <2>2. t \in FsmState
    BY <1>6, Zenon
  <2> QED BY <2>1, <2>2, ZenonT(30) DEF FsmState, SameLedger
<1> HIDE DEF u, g, Y
<1>13. OwnVotes(u)
  <2>1. F \in SUBSET Candidate
    BY <1>9, Zenon
  <2>2. \A c \in F : /\ t.fnf <= slotOf[c]
                     /\ t.slots[slotOf[c]].voted_notar = c
                     /\ ~ t.slots[slotOf[c]].voted_final
                     /\ ~ t.slots[slotOf[c]].voted_skip
                     /\ NotarCert(c)
                     /\ u.slots[slotOf[c]].voted_final
    <3> HIDE DEF final
    <3> QED BY <1>9, <1>10, <1>12, SMTT(60)
  <2>3. \A s \in Tracked :
            /\ u.slots[s].voted_notar = t.slots[s].voted_notar
            /\ (\A c \in F : slotOf[c] # s) => u.slots[s].voted_final = t.slots[s].voted_final
            /\ u.slots[s].voted_skip = t.slots[s].voted_skip
    <3> HIDE DEF final
    <3> QED BY <1>9, <1>10, <1>12, SMTT(60)
  <2>4. u.outbox = t.outbox \cup {[kind |-> "finalize", id |-> c] : c \in F}
    BY <1>11, <1>12, Zenon
  <2> HIDE DEF F
  <2> QED BY <1>6, <1>7, <1>12, <2>1, <2>2, <2>3, <2>4, CastFinalize, SMTT(60)
<1>14. Beliefs(u)
  <2>1. \A s \in Tracked :
             /\ u.slots[s].observed_notar = t.slots[s].observed_notar
             /\ u.slots[s].available_base = t.slots[s].available_base
             /\ u.slots[s].skipped = t.slots[s].skipped
             /\ u.slots[s].pending_block \in {t.slots[s].pending_block, Unknown}
    BY <1>10, <1>12, ZenonT(30)
  <2> QED BY <1>8, <1>12, <2>1, BeliefsKept, Zenon
<1>15. Indexed(u) /\ Ledger(u)
  <2>1. SameLedger(st, u)
    BY <1>6, <1>12, Zenon DEF SameLedger
  <2> QED BY <1>6, <1>12, <2>1, IndexKept, LedgerKept, Zenon DEF FsmInv
<1>16. Keeps(st, u)
  BY <1>6, <1>12, <1>13, <1>14, <1>15, Zenon DEF Keeps, FsmInv
<1> QED BY <1>16, ZenonT(30) DEF u, g, Y, t, f, X, check_pending_blocks

\* on_candidate votes for the candidate, parks it, or drops it.
LEMMA OnCandidateKeeps ==
    ASSUME NEW st, FsmInv(st), VotingTypeOK, NEW c \in Candidate
    PROVE  Keeps(st, on_candidate(st, c))
<1> DEFINE s == slotOf[c]
           t == EnsureSlot(st, s, "bounded")
           slot == [t.slots[s] EXCEPT !.pending_block = c]
           u == [t EXCEPT !.slots[s] = slot]
           v == [u EXCEPT !.pending_slots = u.pending_slots \cup {s}]
<1>1. s \in Tracked /\ s \in Nat /\ st \in FsmState
  BY Ids, Zenon DEF FsmInv
<1>2. Keeps(st, t)
  BY <1>1, EnsureSlotKeeps, CoreKeeps, Zenon
<1> HIDE DEF t
<1>3. FsmInv(t) /\ t \in FsmState /\ t.slots \in [Tracked -> SlotState] /\ t.slots[s] \in SlotState
  BY <1>1, <1>2, Zenon DEF Keeps, FsmInv, FsmState
<1>4. Keeps(st, check_pending_blocks(try_notar(t, c)))
  <2>1. Keeps(t, try_notar(t, c))
    BY <1>3, TryNotarKeeps, Zenon
  <2>2. Keeps(try_notar(t, c), check_pending_blocks(try_notar(t, c)))
    BY <2>1, CheckPendingKeeps, Zenon DEF Keeps
  <2> QED BY <1>2, <2>1, <2>2, Zenon DEF Keeps
<1>5. Keeps(st, v)
  <2>1. /\ slot \in SlotState
        /\ slot.pending_block = c
        /\ slot.voted_notar = t.slots[s].voted_notar
        /\ slot.available_base = t.slots[s].available_base
        /\ slot.voted_final = t.slots[s].voted_final
        /\ slot.voted_skip = t.slots[s].voted_skip
        /\ slot.observed_notar = t.slots[s].observed_notar
        /\ slot.skipped = t.slots[s].skipped
    BY <1>3, Zenon DEF SlotState, BlockId
  <2> HIDE DEF slot
  <2>2. /\ u \in FsmState /\ u.slots[s] = slot
        /\ \A x \in Tracked : x # s => u.slots[x] = t.slots[x]
        /\ u.fnf = t.fnf /\ u.outbox = t.outbox /\ u.skip_cert = t.skip_cert
        /\ u.skip_intervals = t.skip_intervals /\ SameLedger(t, u)
    <3>1. s \in Tracked /\ t \in FsmState /\ slot \in SlotState
      BY <1>1, <1>3, <2>1, Zenon
    <3> HIDE DEF s
    <3> QED BY <3>1, PutSlot
  <2> HIDE DEF u
  <2>3. SameFlags(t, u)
    BY <2>1, <2>2, Zenon DEF SameFlags
  <2>4. OwnVotes(u)
    BY <1>3, <2>2, <2>3, OwnVotesKept, Zenon DEF FsmInv
  <2>5. Beliefs(u)
    <3>1. Beliefs(t)
      BY <1>3, Zenon DEF FsmInv
    <3>2. /\ u.slots[s].pending_block = c /\ slotOf[c] = s
          /\ u.slots[s].observed_notar = t.slots[s].observed_notar
          /\ u.slots[s].available_base = t.slots[s].available_base
          /\ u.slots[s].skipped = t.slots[s].skipped
      BY <2>1, <2>2, ZenonT(30)
    <3>3. t.slots[s].observed_notar # Unknown =>
              slotOf[t.slots[s].observed_notar] = s /\ NotarCert(t.slots[s].observed_notar)
      BY <1>1, <3>1, ZenonT(30) DEF Beliefs
    <3> HIDE DEF s
    <3> QED BY <1>1, <2>2, <3>1, <3>2, <3>3, BeliefsOfSlot
  <2>6. Indexed(u) /\ Ledger(u)
    BY <1>3, <2>2, IndexKept, LedgerKept, Zenon DEF FsmInv
  <2>7. FsmInv(u)
    BY <2>2, <2>4, <2>5, <2>6, Zenon DEF FsmInv
  <2>8. u.pending_slots \cup {s} \in SUBSET Tracked
    BY <1>1, <2>2, Zenon DEF FsmState
  <2>9. SameCore(u, v)
    BY <2>2, <2>8, SetSmallField, Zenon
  <2> QED BY <1>2, <2>2, <2>7, <2>9, CoreKeeps DEF Keeps
<1>6. [t EXCEPT !.slots[s].pending_block = c, !.pending_slots = @ \cup {s}] = v
  BY <1>1, <1>3, Zenon DEF FsmState, SlotState
<1>7. Keeps(st, st)
  BY Zenon DEF Keeps
<1> QED BY <1>2, <1>4, <1>5, <1>6, <1>7, Zenon DEF on_candidate, t
=============================================================================
