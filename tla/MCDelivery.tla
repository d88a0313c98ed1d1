----------------------------- MODULE MCDelivery -----------------------------
(* Chains for SimplexDelivery: two blocks and an empty candidate that repeats *)
(* the second one; and two blocks.                                            *)
EXTENDS SimplexDelivery

MCGenesis == <<-1, 0>>

a0 == <<0, 1>>
b1 == <<1, 1>>
e2 == <<2, 0>>

Repeated == {a0, b1, e2}
Blocks == {a0, b1}

MCSlotOf == [c \in Candidate |-> c[1]]
MCParent == [c \in Candidate |-> CASE c = a0 -> MCGenesis [] c = b1 -> a0 [] OTHER -> b1]
MCIsEmpty == [c \in Candidate |-> c = e2]
NoWrites == {}
FirstWrite == {a0}
OneWrite == {b1}

\* Everything about the candidates in known is stored, but they are not final.
Known(known) ==
    [NothingStored EXCEPT !.infos = known, !.payloads = known, !.notar_certs = known]

\* One candidate of the chain is not known; or its body, or its certificate is
\* not; or the first block is final; or a finalization came without its record;
\* or the final record of the second block was lost, and the info of the first;
\* or the slot of a missing candidate was skipped.
OneMissing ==
    {Known(Candidate \ {c}) : c \in Candidate}
    \cup {[Known(Candidate) EXCEPT !.infos = @ \ {b1}],
          [Known(Candidate) EXCEPT !.notar_certs = @ \ {a0}],
          [Known({a0}) EXCEPT !.records = {a0}, !.is_final = {a0}],
          [Known({a0, e2}) EXCEPT !.final_certs = {b1}],
          [Known({a0, e2}) EXCEPT !.notar_certs = Candidate, !.skip_certs = {1}],
          [Known({e2}) EXCEPT !.infos = {a0, e2}, !.records = {a0}],
          [Known(Candidate) EXCEPT !.infos = @ \ {b1}, !.records = {a0, b1}, !.is_final = {b1}]}

NewSession == {NothingStored}
=============================================================================
