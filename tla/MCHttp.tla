-------------------------------- MODULE MCHttp --------------------------------
EXTENDS HttpFrontEnd

\* A prompt, what follows it at the input token of a decode, and at an accepted draft;
\* and the models that keep talking, or stop after b.
NestedPrompts == {<<"a">>, <<"a", "b">>, <<"a", "b", "a">>}
TwoModels == {[a |-> "b", b |-> "a", eos |-> "a"], [a |-> "b", b |-> "eos", eos |-> "b"]}
=============================================================================
