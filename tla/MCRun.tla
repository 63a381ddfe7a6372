------------------------------- MODULE MCRun -------------------------------
(* Two textures.  Config files with one or two sections, one with a        *)
(* section without frames and one with an error; two states of the         *)
(* sources, one of which has room for two frames only.                     *)
EXTENDS Run

MCConfigs == {<<1>>, <<2, 1>>, <<1, 0>>, <<1, -1>>}

MCFirst == {<<2, 1>>}

MCRoom == [s \in Sources |-> IF s = "big" THEN 3 ELSE 2]
=============================================================================
