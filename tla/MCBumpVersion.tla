---------------------------- MODULE MCBumpVersion ----------------------------
(* A chain, two ways to the same package, and a cycle. *)
EXTENDS BumpVersion
MCShapes == {{<<2, 1>>, <<3, 2>>}, {<<2, 1>>, <<3, 1>>, <<3, 2>>}, {<<1, 3>>, <<2, 1>>, <<3, 2>>}}
MCVersions == {<<0, 1, 0>>, <<0, 1, 1>>}
=============================================================================
