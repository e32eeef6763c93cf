---------------------------- MODULE MCClassroom ----------------------------
(* Small instances of Classroom.  Names are interchangeable.                *)
EXTENDS Classroom, TLC

InterchangeableNames == Permutations(Names)
=============================================================================
