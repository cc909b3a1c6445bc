----------------------------- MODULE MCScpiHeap ------------------------------
(***************************************************************************)
(* Texts of every length up to the whole buffer, each with letters of its  *)
(* own, some with quotes, and one that does not fit.                       *)
(***************************************************************************)
EXTENDS ScpiHeap

MCTexts == {<<>>, <<"a">>, <<"b", "\"">>, <<"\"", "e", "f">>, <<"a", "b", "\"", "\"">>,
            <<"d", "\"", "b", "a", "f", "\"">>, <<"e", "f", "a", "b", "c", "d", "e">>}
MCLetter == {"a", "b", "c", "d", "e", "f", "\"", "x"}
MCDescription == <<"x">>
==============================================================================
