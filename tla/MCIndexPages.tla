---------------------------- MODULE MCIndexPages ----------------------------
(***************************************************************************)
(* Five objects, b1 and b2 of the same name; a needs b1, which needs c.    *)
(***************************************************************************)
EXTENDS IndexPages, TLC

CONSTANTS a, b1, b2, c, d

MCName == (a :> 1) @@ (b1 :> 2) @@ (b2 :> 2) @@ (c :> 3) @@ (d :> 4)
MCDigest == (a :> 4) @@ (b1 :> 1) @@ (b2 :> 3) @@ (c :> 0) @@ (d :> 2)
MCRefs == (a :> {b1}) @@ (b1 :> {b1, c}) @@ (b2 :> {}) @@ (c :> {}) @@ (d :> {d})
MCNarSize == (a :> 1) @@ (b1 :> 10) @@ (b2 :> 20) @@ (c :> 100) @@ (d :> 5)

\* No search, or one that matches some names.
MCQueries == {Paths, {b1, b2, d}}
=============================================================================
