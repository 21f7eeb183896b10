--------------------------- MODULE MCControlPlane ---------------------------
(***************************************************************************)
(* Small instances of what the core agent shares with the other services:  *)
(* the target of a volume, which io-engines, front-end and agent have a    *)
(* part in, or a message on its way from one service to another.  The      *)
(* variable part says which a behaviour is about; the variables of the     *)
(* other keep their initial values.                                        *)
(***************************************************************************)
EXTENDS VolumeTarget, TLC

CONSTANTS n1, n2, r1, r2

VARIABLES part, path, input, rec, hop, skew, error

\* Where the replicas are.
HomeOf == (r1 :> n1) @@ (r2 :> n2)

W == INSTANCE Wire

wireVars == <<path, input, rec, hop, skew, error>>
allVars  == <<part, vars, wireVars>>

InTarget == part = "target"
InWire   == part = "wire"

InitAll ==
  /\ part \in {"target", "wire"}
  /\ Init
  /\ IF InWire THEN W!Init
     ELSE path = "none" /\ input = <<>> /\ rec = <<>> /\ hop = 0 /\ skew = "no" /\ error = "none"

NextAll ==
  \/ InTarget /\ Next /\ UNCHANGED <<part, wireVars>>
  \/ InWire /\ W!Next /\ UNCHANGED <<part, vars>>

SpecAll == InitAll /\ [][NextAll]_allVars

=============================================================================
