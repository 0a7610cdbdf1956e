---------------------------- MODULE MCXBIFParser ----------------------------
(***************************************************************************)
(* TLC instance of XBIFParser: a network with evidence, one with the same  *)
(* names that puts tables first, and one with a number that is none.       *)
(***************************************************************************)
EXTENDS XBIFParser

A == <<"a">>
B == <<"b", "b">>

Vbl(name, values, observed) ==
  [kind |-> "variable", name |-> name, values |-> values, observed |-> observed]
Cpt(for, given, table) ==
  [kind |-> "probability", for |-> for, given |-> given, table |-> table]

WithEvidence == <<Vbl(A, <<"2">>, <<"1">>), Vbl(B, <<"3">>, None),
                  Cpt(A, <<>>, <<"x", " ", "y">>), Cpt(B, <<A>>, <<"z", " ", "w">>)>>
TablesFirst  == <<Cpt(A, <<B>>, <<"u">>), Vbl(B, <<"2">>, None), Vbl(A, <<"3">>, None)>>
NotANumber   == <<Vbl(A, <<"2">>, <<"?">>), Cpt(A, <<>>, <<"v">>)>>

Integers123 == {<<"1">>, <<"2">>, <<"3">>}

Files == {WithEvidence, TablesFirst, NotANumber}
=============================================================================
