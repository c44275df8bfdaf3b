----------------------------- MODULE MCRouting -------------------------------
(* Networks for model checking Routing. *)
EXTENDS Routing

CONSTANTS o, a, b, z

Both(pairs) == pairs \cup {<<p[2], p[1]>> : p \in pairs}

\* o -- a -- z: one relay between the two ends.
Line3 == Both({<<o, a>>, <<a, z>>})

\* o -- a -- b -- z, where the two relays hear each other's rebroadcasts.
Line4 == Both({<<o, a>>, <<a, b>>, <<b, z>>})

\* The line closed: z hears o directly and over a.
Triangle == Line3 \cup Both({<<o, z>>})

OneWay == {<<o, z>>}
TwoDests == {<<o, z>>, <<o, a>>}
=============================================================================
