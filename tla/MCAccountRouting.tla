----------------------- MODULE MCAccountRouting -----------------------
(* Bounded instance of AccountRouting. *)
EXTENDS AccountRouting, TLC

CONSTANTS k1, k2

\* Two users: the sub "u|v" of the second one, cut at its separator, is that
\* of the first one.
MCParts == {"u", "v"}
MCSubs  == {<<"u">>, <<"u", "v">>}

\* A demandeur d'emploi, and a user of whom France Travail answers no code.
MCcodeStatutIndividu == (<<"u">> :> "1") @@ (<<"u", "v">> :> "absent")

\* A key is rotated: alone, then after the new one, then gone.
MCKeys     == {k1, k2}
MCKeyLists == {<<k1>>, <<k2, k1>>, <<k2>>}
=======================================================================
