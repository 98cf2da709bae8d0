-------------------------- MODULE MCFileInheritance --------------------------
(* Model values of FileInheritance: few or many inherited descriptors,     *)
(* with one of two digits that begins like a standard stream.              *)
EXTENDS FileInheritance

MCInherited == {{0, 1, 2}, {0, 2, 5}, 0..4, (0..3) \cup (5..10)}
MCFull      == {0..MaxFd}
=============================================================================
