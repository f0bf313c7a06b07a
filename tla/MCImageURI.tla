----------------------------- MODULE MCImageURI -----------------------------
(* Every input over a three-character alphabet holding both separators.    *)
EXTENDS ImageURI

MCChars == {"a", Slash, Colon}
==============================================================================
