-------------------------- MODULE MCFrameConversion --------------------------
(* Model of FrameConversion: every file name of up to MaxFile tokens.      *)
EXTENDS FrameConversion, SequencesExt

CONSTANT MaxFile

MCWords == {"app", "_Zf", "??:0", "f.cpp:12"}
MCFiles == BoundedSeq({"app"} \cup Stops, MaxFile) \ {<<>>}
MCFuncs == {<<>>, <<"_Zf">>}
MCOutputs == {Unknown, <<"f.cpp:12">>, <<>>}
=============================================================================
