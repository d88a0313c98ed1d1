----------------------- MODULE SimplexProgress_proofs -----------------------
(***************************************************************************)
(* Notarized and skipped slots hand their bases on, cursors move, timers   *)
(* expire and old slots are collected: the methods of the FSM that do so   *)
(* keep its invariant.                                                     *)
(***************************************************************************)
EXTENDS SimplexState_proofs

(***************************************************************************)
(* Base propagation.                                                       *)
(***************************************************************************)

\* find_next_nonskipped_slot, through the index or by scanning, passes over
\* slots with a skip certificate only.
LEMMA NextNonSkipped ==
    ASSUME NEW st \in FsmState, Beliefs(st), NEW s \in Slot, st.fnf <= s + 1,
           \A r \in Slot : s < r => IndexedAt(st, r)
    PROVE  LET n == find_next_nonskipped_slot(st, s)
           IN  /\ n \in Cursor
               /\ s < n
               /\ \A r \in Slot : s < r /\ r < n => SkipCert(r)
               /\ n # s + 1 => st.skip_cert[s + 1]
<1> DEFINE boundaries == {b \in st.skip_intervals : b >= s + 1}
           E == {n \in s + 1 .. LastSlot + slots_per_leader_window : ~ is_slot_skipped_cert(st, n)}
<1>1. s \in Nat /\ s + 1 \in Cursor /\ s + 1 \in Tracked /\ s <= LastSlot /\ LastSlot \in Nat
  BY Ids
<1>2. \A r \in Tracked : is_slot_skipped_cert(st, r) => st.skip_cert[r] /\ r \in Slot /\ SkipCert(r)
  BY Ids, Cursors, Zenon DEF Beliefs, is_slot_skipped_cert, HasSlot
<1>3. CASE ~ is_slot_skipped_cert(st, s + 1)
  BY <1>1, <1>3, Ids DEF find_next_nonskipped_slot
<1>4. CASE /\ is_slot_skipped_cert(st, s + 1)
           /\ boundaries # {} /\ ~ is_slot_skipped_cert(st, Min(boundaries))
  <2>1. boundaries \subseteq Cursor /\ boundaries \subseteq Nat
    BY Ids, ZenonT(30) DEF FsmState
  <2> DEFINE n == Min(boundaries)
  <2>2. n \in boundaries /\ \A b \in boundaries : n <= b
    <3> HIDE DEF boundaries
    <3> QED BY <1>4, <2>1, MinExists, Zenon
  <2>3. n \in Cursor /\ n \in Nat /\ s < n
    BY <1>1, <2>1, <2>2
  <2>4. \A b \in st.skip_intervals : b >= s + 1 => n <= b
    BY <2>2, Zenon
  <2> HIDE DEF n
  <2>5. st.skip_cert[s + 1] /\ s + 1 \in Slot
    BY <1>1, <1>2, <1>4, Zenon
  <2> DEFINE Bad == {r \in Slot : s < r /\ r < n /\ ~ st.skip_cert[r]}
  <2>6. ASSUME Bad # {} PROVE FALSE
    <3>1. Bad \subseteq Nat
      BY Ids, Zenon
    <3> DEFINE m == Min(Bad)
    <3>2. m \in Bad /\ \A r \in Bad : m <= r
      <4> HIDE DEF Bad
      <4> QED BY <2>6, <3>1, MinExists, Zenon
    <3> HIDE DEF m
    <3>3. m \in Nat /\ m \in Slot /\ s < m /\ m < n /\ ~ st.skip_cert[m]
      BY <3>1, <3>2, Zenon
    <3>4. s + 1 < m
      BY <1>1, <2>5, <3>3
    <3>5. m - 1 \in Slot /\ s < m - 1 /\ m - 1 \notin Bad
      BY <1>1, <3>2, <3>3, <3>4, Ids
    <3>6. st.skip_cert[m - 1]
      BY <2>3, <3>3, <3>5
    <3>7. m \in st.skip_intervals
      <4>1. IndexedAt(st, m - 1)
        BY <3>5, Zenon
      <4>2. (m - 1) + 1 = m
        BY <3>3
      <4> QED BY <3>3, <3>6, <4>1, <4>2, Zenon DEF IndexedAt
    <3> QED BY <1>1, <2>3, <2>4, <3>3, <3>7
  <2>7. \A r \in Slot : s < r /\ r < n => SkipCert(r)
    BY <2>6, Ids, Zenon DEF Beliefs
  <2>8. find_next_nonskipped_slot(st, s) = n
    BY <1>4, Zenon DEF find_next_nonskipped_slot, n
  <2> QED BY <2>3, <2>5, <2>7, <2>8, Zenon
<1>5. CASE /\ is_slot_skipped_cert(st, s + 1)
           /\ ~ (boundaries # {} /\ ~ is_slot_skipped_cert(st, Min(boundaries)))
  <2>1. E \subseteq Nat
    BY <1>1, WindowAssumption
  <2>2. LastSlot + 1 \in E
    BY <1>1, BeyondLast, WindowAssumption
  <2> DEFINE n == Min(E)
  <2>3. n \in E /\ \A y \in E : n <= y
    <3> HIDE DEF E
    <3> QED BY <2>1, <2>2, MinExists, Zenon
  <2>4. find_next_nonskipped_slot(st, s) = n
    BY <1>5, Zenon DEF find_next_nonskipped_slot, FirstNonSkippedAfter
  <2> HIDE DEF n
  <2>5. n \in Nat /\ n <= LastSlot + 1 /\ s < n
    BY <1>1, <2>1, <2>2, <2>3
  <2>6. n \in Cursor
    BY <1>1, <2>5 DEF Cursor
  <2>7. ASSUME NEW r \in Slot, s < r, r < n PROVE SkipCert(r)
    <3>1. r \in Tracked /\ r \in Nat /\ r \notin E /\ r <= LastSlot
      BY <2>3, <2>5, <2>7, Ids
    <3>2. is_slot_skipped_cert(st, r)
      BY <1>1, <2>7, <3>1, WindowAssumption
    <3> QED BY <1>2, <3>1, <3>2, Zenon
  <2>8. st.skip_cert[s + 1]
    BY <1>1, <1>2, <1>5, Zenon
  <2> QED BY <2>4, <2>5, <2>6, <2>7, <2>8, Zenon
<1> QED BY <1>3, <1>4, <1>5, Zenon

\* advance_leader_window_on_progress_cursor enters a window; the base that it
\* hands to the first slot of the window is the one of the cursor slot.
LEMMA EnterWindowKeeps ==
    ASSUME NEW st, FsmInv(st)
    PROVE  Keeps(st, advance_leader_window_on_progress_cursor(st))
<1> DEFINE now_window == WindowIdx(st.fnp)
           t == EnsureSlot(st, st.fnp, "bounded")
           base == IF st.fnp = 0 THEN Genesis
                   ELSE IF HasSlot(t, st.fnp) THEN t.slots[st.fnp].available_base
                   ELSE Unknown
           first == WindowStart(now_window)
           entered == [t EXCEPT !.window = now_window]
           u == EnsureSlot(set_timeouts(entered), first, "bounded")
<1>1. /\ st \in FsmState /\ st.fnp \in Nat /\ st.fnp \in Tracked /\ now_window \in Nat
      /\ first \in Nat /\ first <= st.fnp /\ first \in Tracked
  <2>1. st \in FsmState /\ st.fnp \in Nat /\ st.fnp \in Cursor /\ st.fnp \in Tracked
    BY Cursors, Ids, Zenon DEF FsmInv
  <2>2. now_window \in Nat /\ first \in Nat /\ first <= st.fnp
    BY <2>1, WindowBounds, Zenon
  <2>3. first \in Tracked
    BY <2>1, <2>2, WindowAssumption DEF Tracked
  <2> QED BY <2>1, <2>2, <2>3, Zenon
<1>2. SameCore(st, t) /\ t \in FsmState
  BY <1>1, EnsureSlotKeeps DEF SameCore
<1> HIDE DEF t
<1>3. SameCore(t, entered) /\ entered \in FsmState
  BY <1>1, <1>2, SetSmallField DEF SameCore
<1> HIDE DEF entered, first, now_window
<1>4. SameCore(entered, set_timeouts(entered)) /\ set_timeouts(entered) \in FsmState
  BY <1>3, TimeoutsKeep, Zenon DEF SameCore
<1>5. SameCore(set_timeouts(entered), u)
  BY <1>1, <1>4, EnsureSlotKeeps, Zenon
<1>6. SameCore(st, u) /\ FsmInv(u) /\ FsmInv(t)
  BY <1>2, <1>3, <1>4, <1>5, SameCoreTrans, CoreKept, Zenon
<1>7. SameCore(t, [t EXCEPT !.panic = "progress cursor base unknown"])
  <2>1. "progress cursor base unknown" \in PanicReason
    BY Zenon DEF PanicReason
  <2> QED BY <1>2, <2>1, SetSmallField, ZenonT(30)
<1>8. ASSUME base # Unknown
      PROVE  Keeps(u, [u EXCEPT !.slots[first].available_base = base])
  <2>1. CASE st.fnp = 0
    <3>1. base = Genesis /\ first = 0
      BY <1>1, <2>1
    <3>2. BaseFor(base, first)
      BY <3>1, Ids DEF BaseFor
    <3> QED BY <1>1, <1>6, <3>1, <3>2, SetBaseKeeps, Zenon
  <2>2. CASE st.fnp # 0
    <3>1. base = t.slots[st.fnp].available_base
      BY <1>8, <2>2, Zenon
    <3>2. base \in Candidate \cup {Genesis}
      BY <1>1, <1>2, <1>8, <3>1, Zenon DEF FsmState, SlotState, Base
    <3>3. BaseFor(base, st.fnp)
      BY <1>1, <1>6, <1>8, <3>1, SMTT(60) DEF FsmInv, Beliefs
    <3> HIDE DEF base
    <3>4. BaseFor(base, first)
      BY <1>1, <3>3, Ids DEF BaseFor
    <3> QED BY <1>1, <1>6, <3>2, <3>4, SetBaseKeeps, Zenon
  <2> QED BY <2>1, <2>2, Zenon
<1>9. Keeps(st, u) /\ Keeps(st, [t EXCEPT !.panic = "progress cursor base unknown"])
  BY <1>2, <1>6, <1>7, CoreKeeps, SameCoreTrans, ZenonT(30)
<1>10. base # Unknown => Keeps(st, [u EXCEPT !.slots[first].available_base = base])
  BY <1>8, <1>9, ZenonT(30) DEF Keeps
<1>11. Keeps(st, st)
  BY Zenon DEF Keeps
<1> HIDE DEF u
<1> QED BY <1>9, <1>10, <1>11, ZenonT(30)
        DEF advance_leader_window_on_progress_cursor, u, t, entered, first, now_window

\* What follows a new base: the cursor moves, parked candidates are retried.
LEMMA RetryKeeps ==
    ASSUME NEW st, FsmInv(st), VotingTypeOK
    PROVE  Keeps(st, check_pending_blocks(advance_progress_cursor(st)))
<1>1. Keeps(st, advance_progress_cursor(st))
  BY AdvanceCursorKeeps, CoreKeeps, Zenon
<1> QED BY <1>1, CheckPendingKeeps, Zenon DEF Keeps

\* propagate_base_after_notarization hands a notarized candidate to the next
\* slot without a skip certificate.
LEMMA PropagateNotarKeeps ==
    ASSUME NEW st, FsmInv(st), VotingTypeOK, NEW c \in Candidate, NotarCert(c),
           st.fnf <= slotOf[c] + 1
    PROVE  Keeps(st, propagate_base_after_notarization(st, c))
<1> DEFINE s == slotOf[c]
           next == find_next_nonskipped_slot(st, s)
           t == EnsureSlot(st, next, "bounded")
           u == add_available_base_max(t, next, c)
<1>1. s \in Slot /\ s \in Nat /\ st \in FsmState /\ st.fnf \in Nat
  BY Ids, Cursors, Zenon DEF FsmInv
<1>2. /\ next \in Cursor /\ s < next
      /\ \A r \in Slot : s < r /\ r < next => SkipCert(r)
  <2>1. \A r \in Slot : s < r => IndexedAt(st, r)
    BY <1>1, Ids DEF FsmInv, Indexed
  <2> QED BY <1>1, <2>1, NextNonSkipped, Zenon DEF FsmInv
<1> HIDE DEF next
<1>3. next \in Tracked /\ next \in Nat
  BY <1>2, Ids, ZenonT(30)
<1>4. BaseFor(c, next)
  BY <1>2, Ids, Zenon DEF BaseFor, SlotOf
<1>5. Keeps(st, t)
  BY <1>1, <1>3, EnsureSlotKeeps, CoreKeeps, Zenon
<1> HIDE DEF t
<1>6. Keeps(t, u)
  BY <1>3, <1>4, <1>5, AddBaseKeeps, Zenon DEF Keeps
<1> HIDE DEF u
<1>7. Keeps(u, check_pending_blocks(advance_progress_cursor(u)))
  BY <1>6, RetryKeeps, Zenon DEF Keeps
<1>8. Keeps(st, check_pending_blocks(advance_progress_cursor(u)))
  BY <1>5, <1>6, <1>7, Zenon DEF Keeps
<1> QED BY <1>8, Zenon DEF propagate_base_after_notarization, u, t, next

\* A skip certificate was just stored for slot s: the index is out of date
\* at s until propagate_base_after_skip_cert has updated it.
SkipStored(st, s) ==
    /\ st \in FsmState /\ OwnVotes(st) /\ Beliefs(st) /\ Ledger(st)
    /\ s \in Slot /\ st.fnf <= s /\ st.skip_cert[s]
    /\ \A r \in Slot \ {s} : st.fnf <= r => IndexedAt(st, r)

\* MarkSkipped: the slot has its certificate.
LEMMA MarkSkippedKeeps ==
    ASSUME NEW st, NEW s, SkipStored(st, s)
    PROVE  SkipStored(MarkSkipped(st, s), s) /\ MarkSkipped(st, s).fnf = st.fnf
<1> DEFINE slot == [st.slots[s] EXCEPT !.skipped = TRUE]
           t == [st EXCEPT !.slots[s] = slot]
<1>1. st \in FsmState /\ s \in Tracked /\ st.slots[s] \in SlotState
  BY Ids, ZenonT(30) DEF SkipStored, FsmState
<1>2. /\ slot \in SlotState
      /\ slot.pending_block = st.slots[s].pending_block
      /\ slot.voted_notar = st.slots[s].voted_notar
      /\ slot.available_base = st.slots[s].available_base
      /\ slot.voted_final = st.slots[s].voted_final
      /\ slot.voted_skip = st.slots[s].voted_skip
      /\ slot.observed_notar = st.slots[s].observed_notar
  BY <1>1, ZenonT(30) DEF SlotState
<1> HIDE DEF slot
<1>3. /\ t \in FsmState /\ t.slots[s] = slot
      /\ \A x \in Tracked : x # s => t.slots[x] = st.slots[x]
      /\ t.fnf = st.fnf /\ t.outbox = st.outbox /\ t.skip_cert = st.skip_cert
      /\ t.skip_intervals = st.skip_intervals /\ SameLedger(st, t)
  BY <1>1, <1>2, PutSlot
<1> HIDE DEF t
<1>4. OwnVotes(t)
  <2>1. SameFlags(st, t)
    BY <1>2, <1>3, Zenon DEF SameFlags
  <2> QED BY <1>3, <2>1, OwnVotesKept, Zenon DEF SkipStored
<1>5. Beliefs(t)
  <2>1. Beliefs(st) /\ st.skip_cert[s]
    BY Zenon DEF SkipStored
  <2> QED BY <1>2, <1>3, <2>1, SMTT(60) DEF Beliefs
<1>6. Ledger(t)
  BY <1>3, LedgerKept, Zenon DEF SkipStored
<1>7. SkipStored(t, s)
  BY <1>3, <1>4, <1>5, <1>6, Zenon DEF SkipStored, IndexedAt
<1>8. [st EXCEPT !.slots[s].skipped = TRUE] = t
  BY Zenon DEF t, slot
<1> QED BY <1>3, <1>7, <1>8, ZenonT(30) DEF MarkSkipped

\* Adding windows does not disturb SkipStored.
LEMMA SkipStoredCore ==
    ASSUME NEW st, NEW t, NEW s, SkipStored(st, s), SameCore(st, t)
    PROVE  SkipStored(t, s) /\ t.fnf = st.fnf
<1>1. SameFlags(st, t)
  BY Zenon DEF SameCore, SameFlags
<1>2. OwnVotes(t)
  BY <1>1, OwnVotesKept, Zenon DEF SkipStored, SameCore
<1>3. Beliefs(t)
  BY SMTT(60) DEF SkipStored, SameCore, Beliefs
<1>4. Ledger(t)
  BY LedgerKept, Zenon DEF SkipStored, SameCore
<1> QED BY <1>2, <1>3, <1>4, Zenon DEF SkipStored, SameCore, IndexedAt

\* update_skip_intervals_after_skip_cert brings the index up to date.
LEMMA UpdateIndexKeeps ==
    ASSUME NEW st, NEW s, SkipStored(st, s)
    PROVE  Keeps(st, update_skip_intervals_after_skip_cert(
                         st, s, find_next_nonskipped_slot(st, s)))
<1> DEFINE next == find_next_nonskipped_slot(st, s)
           I == (st.skip_intervals \ {s}) \cup (IF next = s + 1 THEN {next} ELSE {})
           u == [st EXCEPT !.skip_intervals = I]
<1>1. /\ st \in FsmState /\ Beliefs(st) /\ s \in Slot /\ s \in Nat /\ st.fnf \in Nat
      /\ st.fnf <= s /\ s + 1 \in Cursor
  BY Ids, Cursors, Zenon DEF SkipStored
<1>2. next \in Cursor /\ (next # s + 1 => st.skip_cert[s + 1])
  <2>1. \A r \in Slot : s < r => IndexedAt(st, r)
    BY <1>1, Ids DEF SkipStored
  <2>2. st.fnf <= s + 1
    BY <1>1
  <2> QED BY <1>1, <2>1, <2>2, NextNonSkipped, Zenon
<1> HIDE DEF next
<1>3. I \in SUBSET Cursor
  BY <1>1, <1>2, Zenon DEF FsmState
<1>4. /\ s + 1 \in I \/ st.skip_cert[s + 1]
      /\ \A x : x \in st.skip_intervals /\ x # s => x \in I
  BY <1>2, Zenon
<1> HIDE DEF I
<1>5. /\ u \in FsmState /\ u.skip_intervals = I /\ u.fnf = st.fnf /\ u.slots = st.slots
      /\ u.outbox = st.outbox /\ u.skip_cert = st.skip_cert /\ SameLedger(st, u)
  BY <1>1, <1>3, ZenonT(30) DEF FsmState, SameLedger
<1> HIDE DEF u
<1>6. Indexed(u)
  <2> SUFFICES ASSUME NEW r \in Slot, st.fnf <= r, st.skip_cert[r]
               PROVE  st.skip_cert[r + 1] \/ r + 1 \in I
    BY <1>5, Zenon DEF Indexed, IndexedAt
  <2>1. CASE r = s
    BY <1>4, <2>1, Zenon
  <2>2. CASE r # s
    <3>1. st.skip_cert[r + 1] \/ r + 1 \in st.skip_intervals
      BY <2>2, Zenon DEF SkipStored, IndexedAt
    <3>2. st.skip_cert[s]
      BY Zenon DEF SkipStored
    <3> QED BY <1>4, <3>1, <3>2, Zenon
  <2> QED BY <2>1, <2>2, Zenon
<1>7. OwnVotes(u)
  <2>1. SameFlags(st, u)
    BY <1>5, Zenon DEF SameFlags
  <2> QED BY <1>5, <2>1, OwnVotesKept, Zenon DEF SkipStored
<1>8. Beliefs(u)
  BY <1>1, <1>5, SMTT(60) DEF Beliefs
<1>9. Ledger(u)
  BY <1>5, LedgerKept, Zenon DEF SkipStored
<1>10. Keeps(st, u)
  BY <1>5, <1>6, <1>7, <1>8, <1>9, Zenon DEF Keeps, FsmInv
<1> QED BY <1>10, Zenon DEF u, I, next, update_skip_intervals_after_skip_cert

\* propagate_base_after_skip_cert: the base of a skipped slot passes to the
\* next slot without a skip certificate.
LEMMA SkipProgressKeeps ==
    ASSUME NEW st, NEW s, SkipStored(st, s), VotingTypeOK
    PROVE  Keeps(st, SkipProgress(st, s))
<1> DEFINE e == EnsureSlot(st, s, "bounded")
           t == MarkSkipped(e, s)
           next == find_next_nonskipped_slot(t, s)
           u == update_skip_intervals_after_skip_cert(t, s, next)
           base == IF HasSlot(u, s) THEN u.slots[s].available_base ELSE Unknown
           w == EnsureSlot(u, next, "bounded")
           x == add_available_base_max(w, next, base)
<1>1. /\ st \in FsmState /\ s \in Slot /\ s \in Nat /\ s \in Tracked
      /\ st.fnf \in Nat /\ st.fnf <= s
  BY Ids, Cursors, Zenon DEF SkipStored
<1>2. SkipStored(e, s) /\ e.fnf = st.fnf
  BY <1>1, EnsureSlotKeeps, SkipStoredCore, Zenon
<1> HIDE DEF e
<1>3. SkipStored(t, s) /\ t.fnf = st.fnf
  BY <1>2, MarkSkippedKeeps, Zenon
<1> HIDE DEF t
<1>4. Keeps(t, u)
  BY <1>3, UpdateIndexKeeps, Zenon
<1>5. FsmInv(u) /\ u.fnf = st.fnf
  BY <1>3, <1>4, Zenon DEF Keeps
<1>6. /\ next \in Cursor /\ s < next
      /\ \A r \in Slot : s < r /\ r < next => SkipCert(r)
  <2>1. \A r \in Slot : s < r => IndexedAt(t, r)
    BY <1>1, <1>3, Ids DEF SkipStored
  <2>2. t.fnf <= s + 1 /\ t \in FsmState /\ Beliefs(t)
    BY <1>1, <1>3 DEF SkipStored
  <2> QED BY <1>1, <2>1, <2>2, NextNonSkipped, Zenon
<1>7. next \in Tracked /\ next \in Nat
  BY <1>6, Ids, ZenonT(30)
<1>8. SkipCert(s)
  BY <1>1, <1>3, Zenon DEF SkipStored, Beliefs
<1> HIDE DEF next, u
<1>9. Keeps(u, w)
  BY <1>5, <1>7, EnsureSlotKeeps, CoreKeeps, Zenon DEF FsmInv
<1>10. ASSUME base # Unknown PROVE Keeps(w, x)
  <2>1. base = u.slots[s].available_base
    BY <1>10, Zenon
  <2>2. base \in Candidate \cup {Genesis}
    BY <1>1, <1>5, <1>10, <2>1, Zenon DEF FsmInv, FsmState, SlotState, Base
  <2>3. BaseFor(base, s)
    BY <1>1, <1>5, <1>10, <2>1, Zenon DEF FsmInv, Beliefs
  <2> HIDE DEF base
  <2>4. BaseFor(base, next)
    BY <1>1, <1>6, <1>7, <1>8, <2>3, Ids, SMTT(60) DEF BaseFor
  <2>5. FsmInv(w)
    BY <1>9, Zenon DEF Keeps
  <2> HIDE DEF w
  <2> QED BY <1>7, <2>2, <2>4, <2>5, AddBaseKeeps, Zenon
<1>11. CASE base = Unknown
  <2>1. Keeps(u, check_pending_blocks(u))
    BY <1>5, CheckPendingKeeps, Zenon
  <2>2. SkipProgress(st, s) = check_pending_blocks(u)
    BY <1>11, Zenon DEF SkipProgress, propagate_base_after_skip_cert, u, next, t, e
  <2> QED BY <1>5, <2>1, <2>2, Zenon DEF Keeps
<1>12. CASE base # Unknown
  <2> DEFINE y == check_pending_blocks(advance_progress_cursor(x))
  <2>1. FsmInv(x) /\ x.fnf = st.fnf
    <3>1. Keeps(w, x)
      BY <1>10, <1>12, ZenonT(30)
    <3> HIDE DEF w, x
    <3> QED BY <1>5, <1>9, <3>1, ZenonT(30) DEF Keeps
  <2>2. SkipProgress(st, s) = advance_leader_window_on_progress_cursor(y)
    BY <1>12, ZenonT(30) DEF SkipProgress, propagate_base_after_skip_cert, u, next, t, e
  <2> HIDE DEF x
  <2>3. Keeps(x, y)
    BY <2>1, RetryKeeps, ZenonT(30)
  <2> HIDE DEF y
  <2>4. Keeps(y, advance_leader_window_on_progress_cursor(y))
    BY <2>3, EnterWindowKeeps, Zenon DEF Keeps
  <2> QED BY <2>1, <2>2, <2>3, <2>4, Zenon DEF Keeps
<1> QED BY <1>11, <1>12, Zenon

\* on_block_notarized: a certified block is observed, becomes the base of a
\* later slot, and may be finalized by us.
LEMMA OnNotarizedKeeps ==
    ASSUME NEW st, FsmInv(st), VotingTypeOK, NEW c \in Candidate, NotarCert(c)
    PROVE  Keeps(st, on_block_notarized(st, c))
<1> DEFINE s == slotOf[c]
           t == EnsureSlot(st, s, "bounded")
           slot == [t.slots[s] EXCEPT !.observed_notar = c]
           o == [t EXCEPT !.slots[s] = slot]
           u == IF HasWindow(t, s) THEN o ELSE t
           p == propagate_base_after_notarization(u, c)
           a == advance_leader_window_on_progress_cursor(p)
           r == RescheduleAfter(a, s)
<1>1. s \in Slot /\ s \in Nat /\ s \in Tracked /\ st \in FsmState /\ st.fnf \in Nat
  BY Ids, Cursors, Zenon DEF FsmInv
<1>2. Keeps(st, t) /\ t \in FsmState
  BY <1>1, EnsureSlotKeeps, CoreKeeps, Zenon DEF Keeps, FsmInv
<1> HIDE DEF t
<1>3. t.slots[s] \in SlotState
  BY <1>1, <1>2, Zenon DEF FsmState
<1>4. /\ slot \in SlotState
      /\ slot.observed_notar = c
      /\ slot.pending_block = t.slots[s].pending_block
      /\ slot.voted_notar = t.slots[s].voted_notar
      /\ slot.available_base = t.slots[s].available_base
      /\ slot.voted_final = t.slots[s].voted_final
      /\ slot.voted_skip = t.slots[s].voted_skip
      /\ slot.skipped = t.slots[s].skipped
  BY <1>3, Zenon DEF SlotState, BlockId
<1> HIDE DEF slot
<1>5. /\ o \in FsmState /\ o.slots[s] = slot
      /\ \A x \in Tracked : x # s => o.slots[x] = t.slots[x]
      /\ o.fnf = t.fnf /\ o.outbox = t.outbox /\ o.skip_cert = t.skip_cert
      /\ o.skip_intervals = t.skip_intervals /\ SameLedger(t, o)
  <2>1. t \in FsmState /\ s \in Tracked /\ slot \in SlotState
    BY <1>1, <1>2, <1>4, Zenon
  <2> HIDE DEF s
  <2> QED BY <2>1, PutSlot, SMTT(60)
<1>6. [t EXCEPT !.slots[s].observed_notar = c] = o
  BY Zenon DEF slot
<1> HIDE DEF o
<1>7. FsmInv(t)
  BY <1>2, Zenon DEF Keeps
<1>8. OwnVotes(o)
  <2>1. SameFlags(t, o)
    BY <1>4, <1>5, Zenon DEF SameFlags
  <2> QED BY <1>5, <1>7, <2>1, OwnVotesKept, Zenon DEF FsmInv
<1>9. Beliefs(o)
  <2>1. Beliefs(t)
    BY <1>7, Zenon DEF FsmInv
  <2> QED BY <1>4, <1>5, <2>1, SMTT(60) DEF Beliefs
<1>10. Indexed(o) /\ Ledger(o)
  BY <1>5, <1>7, IndexKept, LedgerKept, Zenon DEF FsmInv
<1>11. FsmInv(u) /\ u.fnf = st.fnf
  <2>1. FsmInv(o)
    BY <1>5, <1>8, <1>9, <1>10, Zenon DEF FsmInv
  <2>2. o.fnf = st.fnf /\ t.fnf = st.fnf
    BY <1>2, <1>5, Zenon DEF Keeps
  <2> QED BY <1>7, <2>1, <2>2, Zenon
<1>12. on_block_notarized(st, c) = IF s < st.fnf THEN st ELSE try_final(r, c)
  BY <1>6, Zenon DEF on_block_notarized, t
<1> HIDE DEF u
<1>13. CASE st.fnf <= s
  <2>1. Keeps(u, p)
    <3>1. u.fnf <= s + 1
      BY <1>1, <1>11, <1>13
    <3> QED BY <1>11, <3>1, PropagateNotarKeeps, Zenon
  <2> HIDE DEF p
  <2>2. Keeps(p, a)
    BY <2>1, EnterWindowKeeps, Zenon DEF Keeps
  <2> HIDE DEF a
  <2>3. Keeps(a, r)
    BY <1>1, <2>2, RescheduleKeeps, CoreKeeps, Zenon DEF Keeps, FsmInv
  <2> HIDE DEF r
  <2>4. FsmInv(r) /\ r.fnf = st.fnf
    BY <1>11, <2>1, <2>2, <2>3, Zenon DEF Keeps
  <2>5. Keeps(r, try_final(r, c))
    BY <1>13, <2>4, TryFinalKeeps, Zenon
  <2> QED BY <1>1, <1>12, <1>13, <2>4, <2>5, Zenon DEF Keeps
<1>14. CASE ~ (st.fnf <= s)
  <2>1. s < st.fnf
    BY <1>1, <1>14
  <2> QED BY <1>12, <2>1, Zenon DEF Keeps
<1> QED BY <1>13, <1>14, Zenon

\* Recording votes leaves the rest of the invariant alone.
LEMMA RecordKeeps ==
    ASSUME NEW st, NEW t, FsmInv(st), SameButLedger(st, t), Ledger(t)
    PROVE  Keeps(st, t)
<1>1. SameFlags(st, t)
  BY Zenon DEF SameButLedger, SameFlags
<1>2. OwnVotes(t)
  BY <1>1, OwnVotesKept, Zenon DEF FsmInv, SameButLedger
<1>3. Beliefs(t)
  BY Zenon DEF FsmInv, SameButLedger, Beliefs
<1>4. Indexed(t)
  BY IndexKept, Zenon DEF FsmInv, SameButLedger
<1> QED BY <1>2, <1>3, <1>4, Zenon DEF FsmInv, Keeps, SameButLedger

(***************************************************************************)
(* Timers and garbage collection.                                          *)
(***************************************************************************)

\* try_skip_window: a window that still holds open slots is skipped, except
\* for the slots that we voted to finalize.
LEMMA SkipWindowKeeps ==
    ASSUME NEW st, FsmInv(st), VotingTypeOK, NEW s \in Slot, st.fnf <= s
    PROVE  Keeps(st, try_skip_window(st, WindowIdx(s)))
<1> DEFINE w == WindowIdx(s)
           t == ensure_window_exists(st, w, "bounded")
           skip == SlotsToSkip(t, w)
           f == [r \in Tracked |-> IF r \in skip THEN [t.slots[r] EXCEPT !.voted_skip = TRUE]
                                                 ELSE t.slots[r]]
           x == t.outbox \cup {[kind |-> "skip", id |-> <<r, 0>>] : r \in skip}
           u == [t EXCEPT !.slots = f, !.outbox = x]
<1>1. s \in Nat /\ st \in FsmState /\ st.fnf \in Nat /\ w \in Nat
  BY Ids, Cursors, WindowBounds, Zenon DEF FsmInv
<1>2. FsmInv(t) /\ t.fnf = st.fnf
  BY <1>1, EnsureKeeps, CoreKeeps, Zenon DEF Keeps
<1>3. try_skip_window(st, w) = u
  BY Zenon DEF try_skip_window
<1> HIDE DEF t
<1>4. t \in FsmState /\ t.slots \in [Tracked -> SlotState] /\ t.outbox \in SUBSET Vote
  BY <1>2, Zenon DEF FsmInv, FsmState
<1>5. ASSUME NEW r \in skip
      PROVE  /\ r \in Slot /\ r \in Tracked /\ Live(t, r) /\ ~ t.slots[r].voted_final
             /\ [kind |-> "skip", id |-> <<r, 0>>] \in Vote
  <2>1. r \in WindowSlots(w) /\ ~ t.slots[r].voted_final
    BY Zenon DEF SlotsToSkip
  <2>2. r \in Slot
    BY <2>1, WindowInUse, Zenon
  <2>3. WindowIdx(r) = w
    BY <1>1, <2>1, <2>2, WindowOfSlot, Ids, Zenon
  <2>4. WindowIdx(st.fnf) <= w
    BY <1>1, WindowMonotone, Zenon
  <2>5. Live(t, r)
    BY <1>2, <2>3, <2>4, Zenon DEF Live
  <2> QED BY <2>1, <2>2, <2>5, Ids, VotesAreVotes, Zenon
<1>6. skip \in SUBSET Slot /\ x \in SUBSET Vote
  BY <1>4, <1>5, ZenonT(30)
<1> HIDE DEF skip
<1>7. /\ f \in [Tracked -> SlotState]
      /\ \A r \in Tracked :
            /\ f[r].available_base = t.slots[r].available_base
            /\ f[r].pending_block = t.slots[r].pending_block
            /\ f[r].voted_notar = t.slots[r].voted_notar
            /\ f[r].voted_final = t.slots[r].voted_final
            /\ f[r].observed_notar = t.slots[r].observed_notar
            /\ f[r].skipped = t.slots[r].skipped
            /\ r \in skip => f[r].voted_skip
            /\ r \notin skip => f[r].voted_skip = t.slots[r].voted_skip
  <2>1. ASSUME NEW r \in Tracked
        PROVE  /\ f[r] \in SlotState
               /\ f[r].available_base = t.slots[r].available_base
               /\ f[r].pending_block = t.slots[r].pending_block
               /\ f[r].voted_notar = t.slots[r].voted_notar
               /\ f[r].voted_final = t.slots[r].voted_final
               /\ f[r].observed_notar = t.slots[r].observed_notar
               /\ f[r].skipped = t.slots[r].skipped
               /\ r \in skip => f[r].voted_skip
               /\ r \notin skip => f[r].voted_skip = t.slots[r].voted_skip
    <3>1. t.slots[r] \in SlotState
      BY <1>4, Zenon
    <3>2. CASE r \in skip
      <4>1. f[r] = [t.slots[r] EXCEPT !.voted_skip = TRUE]
        BY <3>2, Zenon
      <4> HIDE DEF f
      <4> QED BY <3>1, <3>2, <4>1, ZenonT(30) DEF SlotState
    <3>3. CASE r \notin skip
      <4>1. f[r] = t.slots[r]
        BY <3>3, Zenon
      <4> HIDE DEF f
      <4> QED BY <3>1, <3>3, <4>1, Zenon
    <3> QED BY <3>2, <3>3, ZenonT(30)
  <2>2. f \in [Tracked -> SlotState]
    BY <2>1, ZenonT(30)
  <2> HIDE DEF f
  <2> QED BY <2>1, <2>2, Zenon
<1> HIDE DEF f
<1>8. /\ u \in FsmState /\ u.slots = f /\ u.outbox = x /\ u.fnf = t.fnf
      /\ u.skip_cert = t.skip_cert /\ u.skip_intervals = t.skip_intervals /\ SameLedger(t, u)
  <2> HIDE DEF x
  <2> QED BY <1>4, <1>6, <1>7, ZenonT(30) DEF FsmState, SameLedger
<1> HIDE DEF u
<1>9. OwnVotes(u)
  <2>1. \A r \in skip : Live(t, r) /\ ~ t.slots[r].voted_final /\ u.slots[r].voted_skip
    BY <1>5, <1>7, <1>8, ZenonT(30) DEF skip
  <2>2. \A r \in Tracked :
            /\ u.slots[r].voted_notar = t.slots[r].voted_notar
            /\ u.slots[r].voted_final = t.slots[r].voted_final
            /\ r \notin skip => u.slots[r].voted_skip = t.slots[r].voted_skip
    BY <1>7, <1>8, Zenon
  <2>3. OwnVotes(t)
    BY <1>2, Zenon DEF FsmInv
  <2>4. /\ t \in FsmState /\ u \in FsmState /\ skip \in SUBSET Slot /\ u.fnf = t.fnf
        /\ u.outbox = t.outbox \cup {[kind |-> "skip", id |-> <<r, 0>>] : r \in skip}
    BY <1>4, <1>6, <1>8, Zenon
  <2> QED BY <2>1, <2>2, <2>3, <2>4, CastSkip, ZenonT(30)
<1>10. Beliefs(u)
  <2>1. Beliefs(t)
    BY <1>2, Zenon DEF FsmInv
  <2>2. \A r \in Tracked :
            /\ u.slots[r].observed_notar = t.slots[r].observed_notar
            /\ u.slots[r].available_base = t.slots[r].available_base
            /\ u.slots[r].skipped = t.slots[r].skipped
            /\ u.slots[r].pending_block \in {t.slots[r].pending_block, Unknown}
    BY <1>7, <1>8, Zenon
  <2> QED BY <1>8, <2>1, <2>2, BeliefsKept, Zenon
<1>11. Indexed(u) /\ Ledger(u)
  BY <1>2, <1>8, IndexKept, LedgerKept, Zenon DEF FsmInv
<1> QED BY <1>2, <1>3, <1>8, <1>9, <1>10, <1>11, Zenon DEF FsmInv, Keeps

\* process_timeouts.
LEMMA TimeoutKeeps ==
    ASSUME NEW st, FsmInv(st), VotingTypeOK, st.skip_slot <= LastSlot
    PROVE  FsmInv(process_timeouts(st))
<1> DEFINE s == st.skip_slot
           next == [st EXCEPT !.skip_slot = s + 1]
           t == EnsureSlot(next, s, "bounded")
           u == try_skip_window(t, WindowIdx(s))
           e == WindowStart(WindowIdx(s) + 1)
           x == [u EXCEPT !.skip_slot = e, !.armed = FALSE]
<1>1. st \in FsmState /\ s \in Nat /\ s \in Slot /\ st.fnf \in Nat
  <2>1. st \in FsmState /\ s \in Nat
    BY Zenon DEF FsmInv, FsmState
  <2> QED BY <2>1, Cursors, Ids
<1>2. Keeps(st, next)
  <2>1. s + 1 \in Nat
    BY <1>1
  <2>2. SameCore(st, next)
    BY <1>1, <2>1, SetSmallField, Zenon
  <2> QED BY <2>2, CoreKeeps, Zenon
<1>3. process_timeouts(st) =
          IF s < st.fnf THEN next
          ELSE IF ~ HasWindow(t, s) \/ t.slots[s].voted_final \/ t.slots[s].voted_skip THEN t
          ELSE x
  BY Zenon DEF process_timeouts
<1> HIDE DEF next
<1>4. Keeps(next, t)
  BY <1>1, <1>2, EnsureSlotKeeps, CoreKeeps, Zenon DEF Keeps, FsmInv
<1> HIDE DEF t
<1>5. CASE s < st.fnf
  BY <1>2, <1>3, <1>5, Zenon DEF Keeps
<1>6. CASE ~ (s < st.fnf)
  <2>1. FsmInv(t) /\ t.fnf <= s
    BY <1>1, <1>2, <1>4, <1>6 DEF Keeps
  <2> HIDE DEF s
  <2>2. Keeps(t, u)
    BY <1>1, <2>1, SkipWindowKeeps, Zenon
  <2> HIDE DEF u
  <2>3. u \in FsmState /\ e \in Nat
    BY <1>1, <2>2, WindowBounds, WindowAssumption DEF Keeps, FsmInv, WindowStart
  <2> HIDE DEF e
  <2>4. SameCore(u, x)
    BY <2>3, ZenonT(30) DEF FsmState, SameCore, SameLedger
  <2> HIDE DEF x
  <2>5. FsmInv(x)
    BY <2>2, <2>4, CoreKeeps, Zenon DEF Keeps
  <2> QED BY <1>3, <1>6, <2>1, <2>5, Zenon
<1> QED BY <1>5, <1>6, Zenon

\* Every nonempty set of slots has a last one.
LEMMA MaxExists ==
    ASSUME NEW S \in SUBSET Slot, S # {}
    PROVE  Max(S) \in S /\ \A y \in S : y <= Max(S)
<1> DEFINE D == {LastSlot - x : x \in S}
<1>1. S \subseteq 0 .. LastSlot /\ LastSlot \in Nat
  BY Ids, Zenon
<1>2. D \in SUBSET Nat /\ D # {}
  <2>1. \A y \in S : LastSlot - y \in Nat
    BY <1>1
  <2> QED BY <2>1, Zenon
<1> DEFINE d == Min(D)
<1>3. d \in D /\ \A y \in D : d <= y
  <2> HIDE DEF D
  <2> QED BY <1>2, MinExists, Zenon
<1> HIDE DEF d
<1>4. PICK m \in S : d = LastSlot - m
  BY <1>3, Zenon
<1>5. ASSUME NEW y \in S PROVE m >= y
  <2>1. LastSlot - y \in D
    BY Zenon
  <2>2. d <= LastSlot - y
    BY <1>3, <2>1, Zenon
  <2> QED BY <1>1, <1>4, <2>2
<1>6. Max(S) \in S /\ \A y \in S : Max(S) >= y
  BY <1>5, Zenon DEF Max
<1> QED BY <1>1, <1>6, Zenon

\* cleanup_slots forgets finalized slots only, and whole windows of them.
LEMMA CleanupKeeps ==
    ASSUME NEW st, FsmInv(st), NEW up_to_slot \in Nat
    PROVE  Keeps(st, cleanup_slots(st, up_to_slot))
<1> DEFINE boundary == CleanupBoundary(st, up_to_slot)
           Old(s) == s < boundary
           gone == WindowIdx(boundary)
           lo == Max({st.w_lo, Min({gone, st.w_hi})})
           slots == [s \in Tracked |-> IF WindowIdx(s) < gone THEN NewSlot ELSE st.slots[s]]
           votes == [s \in Tracked |->
                        IF Old(s) THEN [v \in Validator |-> NoVotes] ELSE st.votes[s]]
           nw == [c \in Candidate |-> IF Old(slotOf[c]) THEN 0 ELSE st.notarize_weight[c]]
           fw == [c \in Candidate |-> IF Old(slotOf[c]) THEN 0 ELSE st.finalize_weight[c]]
           sw == [s \in Tracked |-> IF Old(s) THEN 0 ELSE st.skip_weight[s]]
           ow == [s \in Tracked |-> IF Old(s) THEN 0 ELSE st.notarize_or_skip_weight[s]]
           nc == [s \in Tracked |-> IF Old(s) THEN Unknown ELSE st.notar_cert[s]]
           fc == [s \in Tracked |-> IF Old(s) THEN Unknown ELSE st.final_cert[s]]
           sc == [s \in Tracked |-> IF Old(s) THEN FALSE ELSE st.skip_cert[s]]
           t == [st EXCEPT !.w_lo = lo, !.slots = slots, !.votes = votes,
                           !.notarize_weight = nw, !.finalize_weight = fw,
                           !.skip_weight = sw, !.notarize_or_skip_weight = ow,
                           !.notar_cert = nc, !.final_cert = fc, !.skip_cert = sc]
<1>1. cleanup_slots(st, up_to_slot) = IF boundary = 0 THEN st ELSE t
  BY Zenon DEF cleanup_slots
<1>2. st \in FsmState /\ st.fnf \in Nat /\ st.w_lo \in Nat /\ st.w_hi \in Nat
  BY Cursors, Zenon DEF FsmInv, FsmState
<1>3. boundary \in Nat /\ boundary <= st.fnf
  BY <1>2, MinOfTwo DEF CleanupBoundary
<1> HIDE DEF boundary
<1>4. gone \in Nat /\ gone <= WindowIdx(st.fnf) /\ WindowIdx(st.fnf) \in Nat
  BY <1>2, <1>3, WindowBounds, WindowMonotone, Zenon
<1> HIDE DEF gone
<1>5. lo \in Nat
  BY <1>2, <1>4, MaxOfTwo, MinOfTwo, SMTT(60)
<1>6. /\ slots \in [Tracked -> SlotState]
      /\ votes \in [Tracked -> [Validator -> SlotVotes]]
      /\ nw \in [Candidate -> Nat] /\ fw \in [Candidate -> Nat]
      /\ sw \in [Tracked -> Nat] /\ ow \in [Tracked -> Nat]
      /\ nc \in [Tracked -> BlockId] /\ fc \in [Tracked -> BlockId]
      /\ sc \in [Tracked -> BOOLEAN]
  <2>1. NewSlot \in SlotState
    BY Zenon DEF NewSlot, SlotState, Base, BlockId
  <2>2. NoVotes \in SlotVotes
    BY Zenon DEF NoVotes, SlotVotes, BlockId
  <2>3. /\ st.slots \in [Tracked -> SlotState]
        /\ st.votes \in [Tracked -> [Validator -> SlotVotes]]
        /\ st.notarize_weight \in [Candidate -> Nat] /\ st.finalize_weight \in [Candidate -> Nat]
        /\ st.skip_weight \in [Tracked -> Nat] /\ st.notarize_or_skip_weight \in [Tracked -> Nat]
        /\ st.notar_cert \in [Tracked -> BlockId] /\ st.final_cert \in [Tracked -> BlockId]
        /\ st.skip_cert \in [Tracked -> BOOLEAN] /\ Unknown \in BlockId
    BY <1>2, Zenon DEF FsmState, BlockId
  <2> HIDE DEF Old
  <2>4. slots \in [Tracked -> SlotState]
    BY <2>1, <2>3, Zenon
  <2>5. votes \in [Tracked -> [Validator -> SlotVotes]]
    BY <2>2, <2>3, Zenon
  <2>6. nw \in [Candidate -> Nat] /\ fw \in [Candidate -> Nat]
    BY <2>3, Zenon
  <2>7. sw \in [Tracked -> Nat] /\ ow \in [Tracked -> Nat]
    BY <2>3, Zenon
  <2>8. nc \in [Tracked -> BlockId] /\ fc \in [Tracked -> BlockId] /\ sc \in [Tracked -> BOOLEAN]
    BY <2>3, ZenonT(30)
  <2> QED BY <2>4, <2>5, <2>6, <2>7, <2>8, ZenonT(30)
<1>7. /\ \A s \in Tracked : /\ WindowIdx(s) < gone => slots[s] = NewSlot
                            /\ ~ (WindowIdx(s) < gone) => slots[s] = st.slots[s]
      /\ \A s \in Tracked : /\ Old(s) => /\ votes[s] = [v \in Validator |-> NoVotes]
                                         /\ sw[s] = 0 /\ ow[s] = 0 /\ sc[s] = FALSE
                            /\ ~ Old(s) => /\ votes[s] = st.votes[s]
                                           /\ sw[s] = st.skip_weight[s]
                                           /\ ow[s] = st.notarize_or_skip_weight[s]
                                           /\ sc[s] = st.skip_cert[s]
      /\ \A c \in Candidate : /\ Old(slotOf[c]) => nw[c] = 0 /\ fw[c] = 0
                              /\ ~ Old(slotOf[c]) => /\ nw[c] = st.notarize_weight[c]
                                                     /\ fw[c] = st.finalize_weight[c]
  BY ZenonT(30)
<1> HIDE DEF lo, slots, votes, nw, fw, sw, ow, nc, fc, sc
<1>8. /\ t \in FsmState /\ t.fnf = st.fnf /\ t.slots = slots /\ t.votes = votes
      /\ t.notarize_weight = nw /\ t.finalize_weight = fw
      /\ t.skip_weight = sw /\ t.notarize_or_skip_weight = ow /\ t.skip_cert = sc
      /\ t.outbox = st.outbox /\ t.skip_intervals = st.skip_intervals
  BY <1>2, <1>5, <1>6, ZenonT(30) DEF FsmState
<1> HIDE DEF t
<1>9. ASSUME NEW s \in Tracked, st.fnf <= s
      PROVE  ~ Old(s) /\ ~ (WindowIdx(s) < gone)
  <2>1. s \in Nat
    BY Ids, Zenon
  <2>2. WindowIdx(st.fnf) <= WindowIdx(s) /\ WindowIdx(s) \in Nat
    BY <1>2, <1>9, <2>1, WindowMonotone, WindowBounds, Zenon
  <2> QED BY <1>2, <1>3, <1>4, <1>9, <2>1, <2>2
<1>10. OwnVotes(t)
  <2>1. MyNotarize(t) = MyNotarize(st) /\ MyFinalize(t) = MyFinalize(st) /\ MySkip(t) = MySkip(st)
    BY <1>8, Zenon DEF MyNotarize, MyFinalize, MySkip
  <2>2. FlagsRemember(st)
    BY Zenon DEF FsmInv, OwnVotes
  <2>3. FlagsRemember(t)
    <3> SUFFICES ASSUME NEW s \in Tracked
                 PROVE  /\ ~ (slots[s].voted_final /\ slots[s].voted_skip)
                        /\ Live(t, s) =>
                            /\ \A c \in MyNotarize(st) : slotOf[c] = s => slots[s].voted_notar = c
                            /\ \A c \in MyFinalize(st) :
                                  slotOf[c] = s => slots[s].voted_final /\ slots[s].voted_notar = c
                            /\ s \in MySkip(st) => slots[s].voted_skip
      BY <1>8, <2>1, Zenon DEF FlagsRemember
    <3>1. WindowIdx(s) \in Nat
      BY WindowBounds, Ids, Zenon
    <3>2. CASE WindowIdx(s) < gone
      <4>1. ~ Live(t, s)
        BY <1>4, <1>8, <3>1, <3>2 DEF Live
      <4>2. slots[s] = NewSlot
        BY <1>7, <3>2, Zenon
      <4>3. ~ (slots[s].voted_final /\ slots[s].voted_skip)
        BY <4>2 DEF NewSlot
      <4> QED BY <4>1, <4>3, Zenon
    <3>3. CASE ~ (WindowIdx(s) < gone)
      BY <1>7, <1>8, <2>2, <3>3 DEF FlagsRemember, Live
    <3> QED BY <3>2, <3>3, Zenon
  <2>4. VotesAgree(t)
    BY <2>1, Zenon DEF FsmInv, OwnVotes, VotesAgree
  <2>5. OutboxIsDue(t)
    BY <1>8, ZenonT(30) DEF FsmInv, OwnVotes, OutboxIsDue
  <2> QED BY <2>3, <2>4, <2>5, Zenon DEF OwnVotes
<1>11. Beliefs(t)
  <2>1. Beliefs(st)
    BY Zenon DEF FsmInv
  <2> SUFFICES ASSUME NEW s \in Tracked
               PROVE  /\ slots[s].observed_notar # Unknown =>
                            /\ slotOf[slots[s].observed_notar] = s
                            /\ NotarCert(slots[s].observed_notar)
                      /\ slots[s].pending_block # Unknown => slotOf[slots[s].pending_block] = s
                      /\ slots[s].available_base # Unknown => BaseFor(slots[s].available_base, s)
                      /\ sc[s] => s \in Slot /\ SkipCert(s)
                      /\ slots[s].skipped /\ st.fnf <= s => sc[s]
    BY <1>8, Zenon DEF Beliefs
  <2>2. sc[s] => s \in Slot /\ SkipCert(s)
    BY <1>7, <2>1, Zenon DEF Beliefs
  <2>3. slots[s].skipped /\ st.fnf <= s => sc[s]
    BY <1>7, <1>9, <2>1, Zenon DEF Beliefs
  <2>4. CASE WindowIdx(s) < gone
    BY <1>7, <2>2, <2>3, <2>4, SMTT(60) DEF NewSlot
  <2>5. CASE ~ (WindowIdx(s) < gone)
    <3>1. slots[s] = st.slots[s]
      BY <1>7, <2>5, Zenon
    <3> QED BY <2>1, <2>2, <2>3, <3>1 DEF Beliefs
  <2> QED BY <2>4, <2>5, Zenon
<1>12. Indexed(t)
  <2> SUFFICES ASSUME NEW s \in Slot, st.fnf <= s, sc[s]
               PROVE  sc[s + 1] \/ s + 1 \in st.skip_intervals
    BY <1>8, Zenon DEF Indexed, IndexedAt
  <2>1. s \in Tracked /\ s + 1 \in Tracked /\ st.fnf <= s + 1
    BY <1>2, Ids
  <2>2. sc[s] = st.skip_cert[s] /\ sc[s + 1] = st.skip_cert[s + 1]
    <3>1. ~ Old(s) /\ ~ Old(s + 1)
      BY <1>9, <2>1, Zenon
    <3> HIDE DEF Old
    <3> QED BY <1>7, <2>1, <3>1, ZenonT(30)
  <2> QED BY <2>2, Zenon DEF FsmInv, Indexed, IndexedAt
<1>13. RecordedAreSigned(t)
  <2> SUFFICES ASSUME NEW s \in Tracked, NEW v \in Validator
               PROVE  Signed(votes[s][v], s, v)
    BY <1>8, Zenon DEF RecordedAreSigned
  <2>1. Signed(st.votes[s][v], s, v)
    BY Zenon DEF FsmInv, Ledger, RecordedAreSigned
  <2>2. CASE Old(s)
    BY <1>7, <2>2, SMTT(60) DEF NoVotes, Signed
  <2>3. CASE ~ Old(s)
    BY <1>7, <2>1, <2>3, Zenon
  <2> QED BY <2>2, <2>3, Zenon
<1>14. WeightsExact(t)
  <2>1. WeightsExact(st)
    BY Zenon DEF FsmInv, Ledger
  <2>2. ASSUME NEW c \in Candidate
        PROVE  nw[c] = WeightOf(Notarizers(t, c)) /\ fw[c] = WeightOf(Finalizers(t, c))
    <3>1. slotOf[c] \in Tracked /\ c # Unknown
      BY Ids, Zenon
    <3>2. CASE Old(slotOf[c])
      <4>1. Notarizers(t, c) = {} /\ Finalizers(t, c) = {}
        BY <1>7, <1>8, <3>1, <3>2, SMTT(60) DEF Notarizers, Finalizers, NoVotes
      <4> QED BY <1>7, <3>2, <4>1, WeightIsMeasure, SMTT(60)
    <3>3. CASE ~ Old(slotOf[c])
      <4>1. Notarizers(t, c) = Notarizers(st, c) /\ Finalizers(t, c) = Finalizers(st, c)
        BY <1>7, <1>8, <3>1, <3>3, Zenon DEF Notarizers, Finalizers
      <4> QED BY <1>7, <2>1, <3>3, <4>1, Zenon DEF WeightsExact
    <3> QED BY <3>2, <3>3, Zenon
  <2>3. ASSUME NEW s \in Tracked
        PROVE  sw[s] = WeightOf(Skippers(t, s)) /\ ow[s] = WeightOf(Progressers(t, s))
    <3>1. CASE Old(s)
      <4>1. Skippers(t, s) = {} /\ Progressers(t, s) = {}
        BY <1>7, <1>8, <3>1, SMTT(60) DEF Skippers, Progressers, NoVotes
      <4> QED BY <1>7, <3>1, <4>1, WeightIsMeasure, Zenon
    <3>2. CASE ~ Old(s)
      <4>1. Skippers(t, s) = Skippers(st, s) /\ Progressers(t, s) = Progressers(st, s)
        BY <1>7, <1>8, <3>2, Zenon DEF Skippers, Progressers
      <4> QED BY <1>7, <2>1, <3>2, <4>1, Zenon DEF WeightsExact
    <3> QED BY <3>1, <3>2, Zenon
  <2> QED BY <1>8, <2>2, <2>3, Zenon DEF WeightsExact
<1>15. Keeps(st, t)
  BY <1>8, <1>10, <1>11, <1>12, <1>13, <1>14, Zenon DEF Keeps, FsmInv, Ledger
<1> QED BY <1>1, <1>15, Zenon DEF Keeps

\* process_simplex_events collects garbage behind the last skipped slot.
LEMMA EventsKeep ==
    ASSUME NEW st, FsmInv(st)
    PROVE  FsmInv(process_simplex_events(st))
<1> DEFINE s == Max(st.skip_events)
           up == s - MAX_HISTORY_SLOTS + 1
           t == IF st.skip_events = {} \/ s < MAX_HISTORY_SLOTS
                THEN st
                ELSE cleanup_slots(st, up)
<1>1. st.skip_events \in SUBSET Slot
  BY Zenon DEF FsmInv, FsmState
<1>2. FsmInv(t)
  <2>1. CASE st.skip_events = {} \/ s < MAX_HISTORY_SLOTS
    BY <2>1, Zenon
  <2>2. CASE ~ (st.skip_events = {} \/ s < MAX_HISTORY_SLOTS)
    <3>1. s \in Slot
      BY <1>1, <2>2, MaxExists, Zenon
    <3>2. s \in Nat /\ MAX_HISTORY_SLOTS \in Nat
      BY <3>1, Ids, NodeAssumption, Zenon
    <3> HIDE DEF s
    <3>3. up \in Nat
      BY <2>2, <3>2
    <3> HIDE DEF up
    <3>4. Keeps(st, cleanup_slots(st, up))
      BY <3>3, CleanupKeeps, Zenon
    <3> QED BY <2>2, <3>4, Zenon DEF Keeps
  <2> QED BY <2>1, <2>2, Zenon
<1> HIDE DEF t
<1>3. t \in FsmState /\ {} \in SUBSET Slot
  BY <1>2, Zenon DEF FsmInv
<1>4. SameCore(t, [t EXCEPT !.skip_events = {}])
  BY <1>3, SetSmallField, Zenon
<1>5. FsmInv([t EXCEPT !.skip_events = {}])
  BY <1>2, <1>4, CoreKeeps, Zenon DEF Keeps
<1> QED BY <1>5, Zenon DEF process_simplex_events, t, up, s

=============================================================================
