------------------------------- MODULE MCcINI -------------------------------
(* A small instance of cINI: files of up to three lines of six kinds,      *)
(* with and without an end of the last line.                               *)
EXTENDS cINI

S == <<"S">>
T == <<"T">>
k == <<"k">>
j == <<"j">>

Lines == { <<"[">> \o S \o <<"]">>, <<"[">> \o T \o <<"]">>,
           <<"[">> \o S, <<"[", "x", "y", "]">>,
           <<"k", SP, "=", SP, "v">>, <<"k">> }

(* The lines with an end of line between them, and after the last or not. *)
Joined(ls, last) ==
  FoldLeft(LAMBDA t, l : t \o <<NL>> \o l, Head(ls), Tail(ls)) \o last

Begun == <<"[">> \o S \o <<"]">>

Regular == { <<"[">> \o S \o <<"]">>, <<"[">> \o T \o <<"]">>,
             <<"k", SP, "=", SP, "v">> }

(* All files of one line or two with an end of the last line, and without  *)
(* it those of one line and those of two that begin with [S]; and files of *)
(* three headers and keys that begin with [S].                             *)
MCTexts == {<<>>} \cup
  {Joined(<<l>>, last) : l \in Lines, last \in {<<>>, <<NL>>}} \cup
  {Joined(<<Begun, l>>, <<>>) : l \in Lines} \cup
  {Joined(<<l, r>>, <<NL>>) : l, r \in Lines} \cup
  {Joined(<<Begun, l, r>>, <<NL>>) : l, r \in Regular}

MCNames == {S, T}
MCKeys == {k, j}
MCValues == {<<"v", SP, "w">>}
=============================================================================
