------------------------------- MODULE MCShell -------------------------------
EXTENDS Shell

MCGlyphs  == {"a", "A", "1", "!", " ", "/", "#", "x"}
MCPrompt  == <<"/", "#">>
MCOutputs == {<< >>, <<"x", "HT", "x", "LF">>}
=============================================================================
