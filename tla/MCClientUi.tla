------------------------------- MODULE MCClientUi -------------------------------
(* Model checking of ClientUi on small instances.                           *)
EXTENDS ClientUi, TLC

CONSTANTS f1, f2, menu, game, credits, name_input

MCOwnerOf == name_input :> menu

\* setup_touch_kb with fewer keys to a row.
MCKeyboard ==
    [keys |-> <<"Q", "ENTER">>,
     rows |-> <<Row(7, 0, TRUE, <<>>), Row(25, 1, FALSE, <<3, 1>>)>>]

MCPads ==
    {[keys |-> <<"BACK">>, side |-> "FIT_BOTTOM", size |-> 30]}

\* The engine's resolution is 320 x 200; a window is larger in one direction.
MCFirstWindow == [w |-> 320, h |-> 200]
MCWindows == {MCFirstWindow, [w |-> 320, h |-> 568]}

\* The icon, which the keyboard leaves free, and places that are in several keys of the
\* two sets, between keys, and in none, depending on the window.
MCPoints == {[x |-> 20, y |-> 10], [x |-> 50, y |-> 190], [x |-> 280, y |-> 190]}
MCIcon == [w |-> 70, h |-> 30]

\* Theorems are about applications whose layouts fit; these do.
ASSUME MCLayoutsFit == LayoutsFit

Symmetry == Permutations(Fingers)
=============================================================================
