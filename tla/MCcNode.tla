------------------------------ MODULE MCcNode -------------------------------
(* Every sequence of Insert calls, with every box up to MaxW by MaxH, into *)
(* roots of two shapes.                                                    *)
EXTENDS cNode

CONSTANTS MaxW, MaxH

MCRootSizes == {[w |-> MaxW, h |-> MaxH], [w |-> MaxW, h |-> MaxH - 1]}

MCBoxSizes == [w : 1 .. MaxW, h : 1 .. MaxH]
=============================================================================
