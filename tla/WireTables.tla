----------------------------- MODULE WireTables -----------------------------
(***************************************************************************)
(* The vocabulary in which the conversions of the control plane are        *)
(* written down: a conversion is a table that gives every member it        *)
(* produces the member it is read from and the way it is read.             *)
(***************************************************************************)
EXTENDS Naturals, Sequences, FiniteSets, TLC

\* The fields fs are read in the same way as their namesakes.
Read(kind, fs) == [f \in fs |-> [from |-> f, kind |-> kind, map |-> <<>>, zero |-> ""]]

\* A scalar of proto3, or a member that the source type always has.
Plain(fs) == Read("plain", fs)

\* An optional value that is passed on as it is.
Opt(fs) == Read("opt", fs)

\* A string in a wrapper message which must be there and must parse.
Parse(fs) == Read("parse", fs)

\* A plain string which must parse; left out, it is the empty string.
ParsePlain(fs) == Read("parseplain", fs)

\* An optional string which must parse when it is there.
OptParse(fs) == Read("optparse", fs)

\* A list or map whose elements must all parse; left out, it is empty.
ParseAll(fs) == Read("parseall", fs)

\* An optional string which counts as absent when it does not parse.
LaxParse(fs) == Read("laxparse", fs)

\* A string kept under an "invalid" variant when it does not parse.
MarkInvalid(fs) == Read("markinvalid", fs)

\* A nested message which must be there.
Need(fs) == Read("need", fs)

\* The same where the code unwraps: anything else ends the task.
Expect(fs) == Read("expect", fs)

\* An optional value which gets a default when it is absent.
Default(fs) == Read("default", fs)

\* A member that the conversion does not take from its source.
Set(to, value) == to :> [from |-> to, kind |-> "fixed", map |-> <<>>, zero |-> value]
Fixed(fs) == [f \in fs |-> [from |-> f, kind |-> "fixed", map |-> <<>>, zero |-> "default"]]
Absent(fs) == [f \in fs |-> [from |-> f, kind |-> "fixed", map |-> <<>>, zero |-> "none"]]

\* The member `to` is read from the member `from` of the source.
As(to, from, kind) == to :> [from |-> from, kind |-> kind, map |-> <<>>, zero |-> ""]

\* The member `from`, or the member `other` when it is absent.
Either(to, from, other) == to :> [from |-> from, kind |-> "either", map |-> <<>>, zero |-> "none", or |-> other]

\* An enumeration: variant |-> variant; an unknown number is refused.
Enum(to, from, map, zero) == to :> [from |-> from, kind |-> "enum", map |-> map, zero |-> zero]

\* An optional enumeration.
OptEnum(to, from, map) == to :> [from |-> from, kind |-> "optenum", map |-> map, zero |-> "none"]

\* An enumeration whose unknown numbers are read as `zero`.
LaxEnum(to, from, map, zero) == to :> [from |-> from, kind |-> "laxenum", map |-> map, zero |-> zero]

\* The same for an optional enumeration.
OptLaxEnum(to, from, map, zero) == to :> [from |-> from, kind |-> "optlaxenum", map |-> map, zero |-> zero]

\* An optional enumeration which is `zero` when it is absent.
DefaultEnum(to, from, map, zero) == to :> [from |-> from, kind |-> "defaultenum", map |-> map, zero |-> zero]

\* The identity on a set of variants.
Same(vs) == [v \in vs |-> v]

\* A hop between two services, which may run different releases ...
Grpc(table) == [peer |-> TRUE, table |-> table]

\* ... and one within a process.
Own(table) == [peer |-> FALSE, table |-> table]

\* A path whose last representation has the members of the first: the hops,
\* the members of the last representation under another name than in the
\* first, those that nothing fills, the members of the first representation
\* that nothing carries on, the variants without a name at the end, and the
\* values that stand for an unknown variant.
Path(hops) == [hops |-> hops, renamed |-> <<>>, lost |-> {}, dropped |-> {},
               merged |-> <<>>, lax |-> {}]
=============================================================================
