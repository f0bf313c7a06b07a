------------------------- MODULE MCTemplateService -------------------------
(* Two requests importing a template with two registries and two images,   *)
(* one image per registry.                                                 *)
EXTENDS TemplateService

CONSTANTS r1, r2, g1, g2

MCRequests == {r1, r2}
MCTemplateRegs == {g1, g2}
MCRegOf == <<g1, g2>>
==============================================================================
