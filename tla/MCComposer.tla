------------------------------- MODULE MCComposer -------------------------------
(* A small collection: the names there are, and the files there are at first.   *)
EXTENDS Composer

MCOrder == <<"alpha", "beta">>
MCInitial == <<"alpha">>
=============================================================================
