------------------------- MODULE MCIncrementalReader -------------------------
(* Small instances of IncrementalReader for TLC. *)
EXTENDS IncrementalReader

\* What GHCi prints, in characters; a response ends at the start of a line, where
\* an escape may precede the prompt.
MCSymbols == {<<"t">>, <<"n">>, <<"u1", "u2">>, <<"x">>, <<"c1", "c2">>, <<"e">>}
MCResponsesOf(symbols, len) ==
    LET bodies == {FlattenSeq(s) : s \in SeqOf(symbols, len)}
    IN {b \o e : b \in {x \in bodies : x = <<>> \/ Last(x) = "n"}, e \in {<<>>, <<"e">>}}
MCResponses == MCResponsesOf(MCSymbols, 3)
MCFollowUps == {<<>>, <<"u1", "u2", "n">>, <<"e">>}
=============================================================================
