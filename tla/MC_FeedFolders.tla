--------------------------- MODULE MC_FeedFolders ---------------------------
(* Instances of FeedFolders for TLC: one feed that replaces the contents of *)
(* its folder and may move to another one, and one feed that appends.       *)
EXTENDS FeedFolders

CONSTANTS s1, s2, r1, f1, f2, x, y   \* subscriptions, feeds, ids

Devcon == <<"devcon">>
Devconnect == <<"devconnect">>
Side == <<"devcon", "side">>

OneSub == s1 :> f1
ThreeSubs == (s1 :> f1) @@ (r1 :> f1) @@ (s2 :> f2)

ThreeFolders == {Devcon, Devconnect, Side}
Names == {<<"devconnect", "devcon">>}
Moving == (f1 :> <<Devcon, Devconnect>>) @@ (f2 :> <<Side>>)
Tickets == (f1 :> {x, y}) @@ (f2 :> {y})
=============================================================================
