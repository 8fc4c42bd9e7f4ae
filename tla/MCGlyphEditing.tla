----------------------------- MODULE MCGlyphEditing -----------------------------
(* Instances of GlyphEditing for TLC: its configurations give every        *)
(* constant a value.                                                       *)
EXTENDS GlyphEditing
================================================================================
