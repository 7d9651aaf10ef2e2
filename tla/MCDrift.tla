------------------------------- MODULE MCDrift -------------------------------
(***************************************************************************)
(* Pairs of scans of up to three resources: one of them in seven variants  *)
(* that differ from the first in a field or two, twice in some scans.      *)
(***************************************************************************)
EXTENDS Drift

A == [id |-> "a", name |-> "web", region |-> "east", tags |-> Nil,
      props |-> [size |-> "s", ports |-> "80"], updated |-> "mon", rest |-> "vpc-1"]
Variants == {A,
  [A EXCEPT !.name = "db"],
  [A EXCEPT !.tags = Empty, !.region = "west"],
  [A EXCEPT !.tags = "env=prod", !.updated = "tue"],
  [A EXCEPT !.props = [size |-> "s"], !.updated = Nil],
  [A EXCEPT !.props = [size |-> "m", ports |-> "80"]],
  [A EXCEPT !.tags = Empty, !.updated = "tue", !.rest = "vpc-2"]}
B == [A EXCEPT !.id = "b", !.tags = "env=prod"]
C == [A EXCEPT !.id = "c", !.props = <<>>]

Scans == {<<>>, <<B>>, <<C, B>>, <<B, A, C>>} \cup {<<r>> : r \in Variants}
         \cup {<<r, B>> : r \in Variants} \cup {<<B, r>> : r \in {A}}
         \cup {<<r, B, A>> : r \in Variants}
Export(f, s) == [format |-> f, scan |-> s]

MCPairs == {<<Export("json", s), Export("json", t)>> : s, t \in Scans}
           \cup {<<Export("yaml", s), Export("yaml", t)>> : s, t \in {<<A>>, <<B, A>>}}
           \cup {<<Export("json", <<A>>), Export("dot", <<A>>)>>}

\* A resource without tags that stays as it is, saved in two formats; one with
\* tags whose relationships changed; and a repository of GitHub, which numbers
\* its repositories and its teams separately, with a new team of its number.
Moved == [B EXCEPT !.rest = "vpc-2"]
Repo7 == [B EXCEPT !.id = "7", !.name = "site", !.rest = "github:repository"]
Team7 == [B EXCEPT !.id = "7", !.name = "staff", !.rest = "github:team"]
MCResources == Variants \cup {B, C, Moved, Repo7, Team7}
MCDocumented == {<<Export("json", <<A, B, Repo7>>), Export("yaml", <<A, Moved, Repo7, Team7>>)>>}
==============================================================================
