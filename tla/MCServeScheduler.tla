--------------------------- MODULE MCServeScheduler ---------------------------
EXTENDS ServeScheduler

\* Prompts that share prefixes: a, ab and abb, and b apart.
SharedPrompts == {<<"a">>, <<"a", "b">>, <<"a", "b", "b">>}
TwoPrompts    == {<<"a">>, <<"a", "b">>}

\* Models that keep talking, stop after b, and stop after a but repeat b.
TwoModels   == {[a |-> "b", b |-> "a", eos |-> "a"], [a |-> "b", b |-> "eos", eos |-> "b"]}
ThreeModels == TwoModels \cup {[a |-> "eos", b |-> "b", eos |-> "a"]}

(* The pool under every order of admission, eviction and finish: what runs  *)
(* on a state keeps it, and the byte budget is exceeded by pinned states    *)
(* only.                                                                    *)
PoolSound == LivePathsPinned /\ PoolWithinBudget

(* Eviction and batching cost a running sequence neither its states nor a   *)
(* step.                                                                    *)
SequencesUndisturbed == LiveNodesStay /\ LiveSequencesAdvance
=============================================================================
