----------------------------- MODULE MCcHeader -----------------------------
(* A small instance of cHeader: a chunk of the buffer is as long as one    *)
(* and a half lines, a name has one word or two.                           *)
EXTENDS cHeader

MCNames == {<<"A">>, <<"A", "2">>, <<"A", "B">>, <<"LONG">>}
MCWordLen == [w \in {"A", "B", "2", "LONG"} |-> IF w = "LONG" THEN 60 ELSE 1]
MCValues == {0, 120}
MCNumbers == [w \in {"2"} |-> 2]
=============================================================================
