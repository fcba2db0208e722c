------------------------------ MODULE MCWgHub ------------------------------
(* Small instances of WgHub. *)
EXTENDS WgHub

CONSTANTS c1, c2

MCBody(on, profile, exit, style, key) ==
  [on |-> on, profile |-> profile, port |-> IF on THEN 2 ELSE 1, exit |-> exit,
   obf |-> IF style = "none" THEN NoBlock ELSE [style |-> style, rev |-> Operator, key |-> key]]
MCBodies ==
  { MCBody(TRUE, "plain", NoUser, "none", NoKey), MCBody(FALSE, "awg3", NoUser, "none", NoKey),
    MCBody(TRUE, "awg2", NoUser, "manual", NoKey), MCBody(TRUE, "pathology", 1, "advanced", NoKey),
    MCBody(TRUE, "pathology", NoUser, "auto", OwnKey) }
=============================================================================
