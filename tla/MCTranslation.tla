--------------------------- MODULE MCTranslation ----------------------------
(* Two documents with one paragraph, which is two parts in one and one part in *)
(* the other: paragraphParts segments by the locale of its process, and the    *)
(* cache outlives processes.                                                   *)
EXTENDS Translation, TLC

CONSTANTS p, first, second, copy, copied, whole, opening, closing

MCTextOf == (p :> whole) @@ (first :> opening) @@ (second :> closing)
            @@ (copy :> whole) @@ (copied :> opening)
MCPartsOf == (p :> {first, second}) @@ (copy :> {copied})
=============================================================================
