---------------------------- MODULE MCManifests ----------------------------
(***************************************************************************)
(* Values of Manifests' constants for TLC: a marker, a blank line, a whole *)
(* manifest, one without any field (as a comment), those that have all     *)
(* fields but a usable name, and a broken document.                        *)
(***************************************************************************)
EXTENDS Manifests

Mapping(kind, version, metadata, name) ==
    [text |-> "mapping", kind |-> kind, version |-> version, metadata |-> metadata, name |-> name]

Comment == Mapping(FALSE, FALSE, "none", FALSE)

SomeLines ==
    {[Comment EXCEPT !.text = t] : t \in {"marker", "blank", "broken"}}
    \cup {Comment, Mapping(TRUE, TRUE, "mapping", TRUE), Mapping(TRUE, TRUE, "scalar", FALSE),
          Mapping(TRUE, TRUE, "mapping", FALSE)}
=============================================================================
