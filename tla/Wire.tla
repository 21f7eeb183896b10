-------------------------------- MODULE Wire --------------------------------
(***************************************************************************)
(* A value on its way through the conversions of the control plane.        *)
(*                                                                         *)
(* A request or a resource crosses several representations: the JSON body  *)
(* of the REST API, the transport types, the protobuf messages between the *)
(* services, the validated requests, the persisted specs and the messages  *)
(* of the io-engine.  Every conversion is a table: the fields it produces, *)
(* the field each one is read from and how it is read.  A path is the      *)
(* sequence of conversions that one request or resource goes through, and  *)
(* this module walks a record along a path while the two ends of a gRPC    *)
(* connection may be of different releases.                                *)
(*                                                                         *)
(* The content of a field is abstracted to its identity: the content of a  *)
(* field is the field's own name, so that a value delivered to the wrong   *)
(* place shows; the content of an enumeration is its variant.              *)
(***************************************************************************)
EXTENDS WireNode

VARIABLES path,   \* the path taken, one of Paths
          input,  \* the record at its start
          rec,    \* the record after the hops done so far
          hop,    \* the number of hops done
          skew,   \* the field a peer of another release left out or changed
          error   \* "none", or why a conversion refused the record

vars == <<path, input, rec, hop, skew, error>>

Paths == VolumePaths @@ PoolPaths @@ ReplicaPaths @@ NexusPaths @@ EngineRequestPaths @@ EngineReplyPaths
           @@ SnapshotPaths @@ NodePaths

-----------------------------------------------------------------------------
(* Values: "none" is absent, "default" the receiver's default, "bad" a     *)
(* string that does not parse, "new" an enumeration number of a later      *)
(* release, "invalid" a value kept but marked.                             *)

EnumKinds == {"enum", "optenum", "defaultenum", "laxenum", "optlaxenum"}
ParseKinds == {"parse", "parseplain", "optparse", "laxparse", "parseall", "markinvalid", "expect"}

\* The value that `how` makes of v, or the error it fails with.
Value(how, v) ==
  CASE how.kind = "fixed" -> how.zero
    [] how.kind \in EnumKinds /\ v \in DOMAIN how.map -> how.map[v]
    [] how.kind \in {"enum", "defaultenum"} /\ v = "none" -> how.zero
    [] how.kind \in {"enum", "defaultenum"} -> "invalid_argument"
    [] how.kind = "optenum" -> IF v = "none" THEN v ELSE "invalid_argument"
    [] how.kind = "laxenum" -> how.zero
    [] how.kind = "optlaxenum" -> IF v = "none" THEN v ELSE how.zero
    [] v = "none" -> CASE how.kind \in {"plain", "default", "parseall"} -> "default"
                       [] how.kind \in {"need", "parse"} -> "missing_argument"
                       [] how.kind = "parseplain" -> "invalid_argument"
                       [] how.kind = "expect" -> "panic"
                       [] how.kind = "markinvalid" -> "invalid"
                       [] OTHER -> "none"
    [] v = "bad" -> CASE how.kind \in {"parse", "parseplain", "optparse", "parseall", "need"} -> "invalid_argument"
                      [] how.kind = "laxparse" -> "none"
                      [] how.kind = "expect" -> "panic"
                      [] how.kind = "markinvalid" -> "invalid"
                      [] OTHER -> v
    [] OTHER -> v

Errors == {"missing_argument", "invalid_argument", "panic"}

\* What the record holds for a member, and what `how` reads of it.
Held(r, g) == IF g \in DOMAIN r THEN r[g] ELSE "none"
Source(how, r) == IF how.kind = "either" /\ Held(r, how.from) = "none" THEN Held(r, how.or) ELSE Held(r, how.from)

Convert(table, r) == [f \in DOMAIN table |-> Value(table[f], Source(table[f], r))]

-----------------------------------------------------------------------------
(* Walking along a path.                                                   *)

Hops(p) == p.hops
Table(p, n) == Hops(p)[n].table

\* How the first conversion reads the member g of the record at the start.
Reader(p, g) == CHOOSE how \in {Table(p, 1)[f] : f \in DOMAIN Table(p, 1)} :
                  how.from = g /\ how.kind # "fixed"

Members(p) == {Table(p, 1)[f].from : f \in {f \in DOMAIN Table(p, 1) : Table(p, 1)[f].kind # "fixed"}}

\* What the member g may hold: an enumeration any of its variants, an
\* optional member nothing, and everything else its own content.
Contents(p, g) ==
  LET how == Reader(p, g)
  IN  (IF how.kind \in EnumKinds THEN DOMAIN how.map ELSE {g})
        \cup (IF how.kind \in {"opt", "optparse", "laxparse", "optenum", "optlaxenum", "defaultenum", "default", "either"} THEN {"none"} ELSE {})

\* The usual record, in which every member is there ...
Full(p) == [g \in Members(p) |-> CHOOSE v \in Contents(p, g) : v # "none"]

\* ... and the records that differ from it in one member.
Inputs(p) == UNION {{[Full(p) EXCEPT ![g] = v] : v \in Contents(p, g)} : g \in Members(p)}

Init == /\ path \in {Paths[p] : p \in DOMAIN Paths}
        /\ input \in Inputs(path)
        /\ rec = input
        /\ hop = 0
        /\ skew = "no"
        /\ error = "none"

Walking == error = "none" /\ hop < Len(Hops(path))

\* The next conversion: it hands its record on, or fails with one of the
\* errors its members give.
Step ==
  /\ Walking
  /\ LET out == Convert(Table(path, hop + 1), rec)
         bad == {f \in DOMAIN out : out[f] \in Errors}
     IN  IF bad = {} THEN rec' = out /\ UNCHANGED error
                     ELSE \E f \in bad : error' = out[f] /\ UNCHANGED rec
  /\ hop' = hop + 1
  /\ UNCHANGED <<path, input, skew>>

\* The sender of the next message runs another release: it leaves out a
\* field, or uses a variant or a format that this receiver does not know.
Skew ==
  /\ Walking
  /\ Hops(path)[hop + 1].peer
  /\ skew = "no"
  /\ \E f \in DOMAIN Table(path, hop + 1) :
       LET how == Table(path, hop + 1)[f]
       IN  /\ how.from \in DOMAIN rec
           /\ \E v \in {"none"} \cup (IF how.kind \in EnumKinds THEN {"new"} ELSE {})
                                \cup (IF how.kind \in ParseKinds \cup {"need"} THEN {"bad"} ELSE {}) :
                /\ rec' = [rec EXCEPT ![how.from] = v]
                /\ skew' = v
  /\ UNCHANGED <<path, input, hop, error>>

Arrived == error = "none" /\ hop = Len(Hops(path))

\* The walk is over.
Stay == ~Walking /\ UNCHANGED vars

Next == Step \/ Skew \/ Stay

Spec == Init /\ [][Next]_vars

-----------------------------------------------------------------------------
(* What the conversions promise.  The field renamed of a path names the    *)
(* members that the last representation knows under another name, lost the *)
(* members of the last representation that no conversion fills, and        *)
(* dropped the members of the first one that nothing carries on.           *)

\* The member of the first record that f of the last one stands for.
Origin(p, f) == IF f \in DOMAIN p.renamed THEN p.renamed[f] ELSE f

Carried(p) == DOMAIN Table(p, Len(Hops(p))) \ p.lost

\* What the last representation shows for the variant v in the member f.
Known(p, f, v) == IF f \in DOMAIN p.merged /\ v \in DOMAIN p.merged[f]
                  THEN p.merged[f][v] ELSE v

\* f holds at the end what its origin held at the start.
Kept(f) == LET v == Known(path, f, input[Origin(path, f)])
           IN  IF v = "none" THEN rec[f] \in {"none", "default"} ELSE rec[f] = v

\* The member of the first record whose content f is to hold: another one
\* than its origin when that is absent and f falls back on the other.
Root(f) == LET v == Known(path, f, input[Origin(path, f)])
           IN  IF v \in Members(path) THEN v ELSE Origin(path, f)

TypeOK ==
  /\ hop \in 0..Len(Hops(path))
  /\ DOMAIN input = Members(path)
  /\ skew \in {"no", "none", "new", "bad"}
  /\ error \in Errors \cup {"none"}

\* Between services of one release no conversion refuses a record, and what
\* arrives is what was sent: every member of the REST body, the transport
\* type or the spec reaches its namesake at the other end, an absent member
\* stays absent or gets the receiver's default, and nothing is delivered to
\* another member.  The members that are known not to be carried are listed
\* with the path (the From and TryFrom implementations of grpc/src/operations
\* and of stor-port).
Delivered ==
  skew = "no" =>
    /\ error = "none"
    /\ Arrived => /\ \A f \in Carried(path) : Kept(f)
                  /\ Members(path) \ path.dropped = {Origin(path, f) : f \in Carried(path)}

\* A message of another release disturbs no more than the member it differs
\* in: it is refused as a whole, or every other member still arrives.
SkewContained ==
  Arrived /\ skew # "no" => Cardinality({Root(f) : f \in {f \in Carried(path) : ~Kept(f)}}) <= 1

\* A variant that only a later release knows, or text that does not parse, is
\* refused or shows as absent, unknown or invalid; it never arrives as
\* something with a meaning of its own.  The enumerations that are read as
\* their default on purpose are listed with the path.
UnknownStaysUnknown ==
  Arrived /\ skew \in {"new", "bad"} =>
    \A f \in Carried(path) : Kept(f) \/ rec[f] \in {"none", "default", "invalid", "Unknown"} \cup path.lax
=============================================================================
