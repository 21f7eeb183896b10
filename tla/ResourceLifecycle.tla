------------------------- MODULE ResourceLifecycle -------------------------
(***************************************************************************)
(* What the persistent store shows of a resource over time, whatever        *)
(* operations are tried again, fail or are cut off by a restart: it is      *)
(* announced, created with the value asked for, updated, condemned and       *)
(* deleted, in that order.  GuardedOps implements it for as long as no       *)
(* operation runs on a specification which was removed before.               *)
(***************************************************************************)
CONSTANTS Vals, InitVal, NoVal

VARIABLES life,  \* "absent", the status of the stored record, or "void"
          val    \* the value of a created resource, NoVal otherwise

vars == <<life, val>>

Init == life = "absent" /\ val = NoVal

Announce == life = "absent" /\ life' = "Creating" /\ UNCHANGED val

\* The create request completed: the resource has the value it asked for.
Establish == life = "Creating" /\ life' = "Created" /\ val' = InitVal

Update == life = "Created" /\ UNCHANGED life /\ val' \in Vals

\* A destroy request, which may come before the create request is recorded, or
\* the clean-up after a create that failed.
Condemn == life \in {"absent", "Creating", "Created"} /\ life' = "Deleting" /\ val' = NoVal

\* Only what was condemned, or never created, goes away.
Delete == life \in {"Creating", "Deleting"} /\ life' = "absent" /\ val' = NoVal

\* Nothing is promised once an operation ran on a removed specification.
Void == life' = "void" /\ val' = NoVal

Next == Announce \/ Establish \/ Update \/ Condemn \/ Delete \/ Void

Spec == Init /\ [][Next]_vars
=============================================================================
