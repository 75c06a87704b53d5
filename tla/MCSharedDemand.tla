--------------------------- MODULE MCSharedDemand ---------------------------
(* Small instances of SharedDemand: x is a server of the catalog, enabled,  *)
(* merely offered, or gone, and d is configured directly, outside it.       *)
EXTENDS SharedDemand, TLC

CONSTANTS s1, s2, c1, c2, c3, x, d

\* The first session selects twice, the second once.
MCOwnerOf == (c1 :> s1) @@ (c2 :> s2) @@ (c3 :> s1)
MCReselections == {{x}, {d}}

\* One call by each of two sessions.
MCOwnerOfTwo == (c1 :> s1) @@ (c2 :> s2)
MCOneSelection == {{x}}

Offer(offered, base) == [offered |-> offered, base |-> base]
MCOneCatalog == {Offer({x}, {x})}
MCOfferOrNot == {Offer({x}, {}), Offer({x}, {x}), Offer({}, {})}
=============================================================================
