--------------------------- MODULE MCActionBroker ---------------------------
(***************************************************************************)
(* Three actions, the first two of them the same request made twice under  *)
(* one key.  Grant 1 covers all three, grant 2 the last two, grant 3 only  *)
(* the third.  With one use per grant the repeated request would still     *)
(* find a grant, if its key did not stop it.                               *)
(***************************************************************************)
EXTENDS ActionBroker

MCKeyOf == [a \in Actions |-> IF a \in {"write", "write again"} THEN "k1" ELSE "k2"]
MCCovers == [g \in Grants |-> CASE g = 1 -> Actions
                               [] g = 2 -> {"write again", "read"}
                               [] OTHER -> {"read"}]

=============================================================================
