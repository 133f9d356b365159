------------------------------ MODULE MCOverlay -------------------------------
EXTENDS Overlay
MCPath == {<<"a">>, <<"b">>, <<"c">>, <<"a", "c">>, <<"b", "c">>}
MCMoves == {<<<<"a">>, <<"b">>>>, <<<<"b">>, <<"a">>>>, <<<<"c">>, <<"a">>>>,
            <<<<"c">>, <<"a", "c">>>>, <<<<"a", "c">>, <<"c">>>>}
\* A directory with a file, an empty directory, a file at the top.
MCLowers ==
  {[files |-> <<"a", "c">> :> "low", dirs |-> {<<"a">>}, links |-> << >>],
   [files |-> <<"c">> :> "low", dirs |-> {<<"a">>}, links |-> << >>]}
===============================================================================
