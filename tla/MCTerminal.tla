----------------------------- MODULE MCTerminal -----------------------------
(* Two threads, a screen of two lines of two columns and bytes of four       *)
(* values: four characters scroll it in both ways and use both registers.    *)
EXTENDS Terminal, TLC

CONSTANTS t1, t2
MCWriters == {t1, t2}
MCSymmetry == Permutations(MCWriters)
MCNewline == "\n"
MCStrings == {<<>>, <<"\n">>, <<"a", "a", "a">>}
MCKeys == [scancode \in {16, 28} |-> IF scancode = 28 THEN "\n" ELSE "q"]
MCReleased == {144}
=============================================================================
