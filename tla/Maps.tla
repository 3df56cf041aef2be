-------------------------------- MODULE Maps --------------------------------
(***************************************************************************)
(* Maps, such as the sections of a template or of a document, as functions.*)
(* TLC's :> and @@, by definitions that can be expanded in proofs.         *)
(***************************************************************************)

(* The map of one key, and that of f with what g has for other keys.       *)
Only(key, value) == [k \in {key} |-> value]
f ++ g == [k \in DOMAIN f \cup DOMAIN g |-> IF k \in DOMAIN f THEN f[k] ELSE g[k]]
=============================================================================
