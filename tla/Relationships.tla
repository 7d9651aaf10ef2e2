---------------------------- MODULE Relationships ----------------------------
(***************************************************************************)
(* DiscoverRelationships of every provider, which goes once over the       *)
(* collection and appends to the relationships that the converters made,   *)
(* and the two readers of the result: the DOT export and resource.Graph.   *)
(*                                                                         *)
(* A collection is the sequence of its resources; its index holds the last *)
(* one added of each ID.  Graph has no caller in the program: any use of   *)
(* it follows the discovery here.                                          *)
(***************************************************************************)
EXTENDS Converters, FiniteSets

CONSTANTS
  Inventories,     \* what was collected: [provider, objects, answers]; objects
                   \* is a sequence of API objects, answers gives for an ID what
                   \* the service says of its members or roles
  Additions,       \* arguments of AddRelationship: [from, rel]
  TypeSets,        \* arguments of GetSubgraph
  MaxUses          \* bound on the uses of a graph

Text     == Seq(STRING)
\* The constants, and the literals in the collectors.
RelationTypes == {"contains", "belongs_to", "attached_to", "assumes", "has_access",
                  "references", "depends_on", "has_role", "in_resource_group"}
ResourceTypes == {row.type : row \in Rows} \cup {"aws:kms:key"}
LinkType == [rel : RelationTypes, target : Text, type : ResourceTypes]

IsSequence(s) == Len(s) \in Nat /\ DOMAIN s = 1..Len(s)
\* What a converter reads of an object is there.
Convertible(o) ==
  /\ o.via \in Rows /\ o.forms[o.via.id] \in Text
  /\ \A l \in ToSet(o.via.links) : l.ref \in DOMAIN o.refs =>
       /\ IsSequence(o.refs[l.ref])
       /\ \A n \in DOMAIN o.refs[l.ref] : o.refs[l.ref][n][l.form] \in Text

ASSUME RelationshipsAssumption ==
  /\ MaxUses \in Nat
  /\ \A v \in Inventories :
       /\ IsSequence(v.objects)
       /\ \A j \in DOMAIN v.objects : /\ Convertible(v.objects[j])
                                      /\ v.objects[j].via.provider = v.provider
       /\ \A id \in DOMAIN v.answers : v.answers[id] \in Seq(Text)
  /\ \A a \in Additions : a.rel \in LinkType

\* An ID that EC2 or GitHub gives is one object's within its type, however often
\* that is listed.
ASSUME IdsAssumption ==
  \A v \in Inventories : \A j, k \in DOMAIN v.objects :
    LET o == v.objects[j]
        p == v.objects[k]
    IN  (/\ o.via.type \in {"aws:ec2:subnet", "aws:ec2:security-group",
                            "github:repository", "github:team"}
         /\ o.via.type = p.via.type /\ o.forms[o.via.id] = p.forms[p.via.id])
          => Links(o) = Links(p)

\* What an API names in a role is of the type that the converter says.
ASSUME RefsAssumption ==
  \A v \in Inventories : \A j, k \in DOMAIN v.objects :
    LET o == v.objects[j]
        p == v.objects[k]
    IN  \A role \in DOMAIN o.refs : p.forms \in ToSet(o.refs[role]) =>
          \E l \in ToSet(o.via.links) : l.ref = role /\ l.target = p.via.type

VARIABLES
  inventory,
  pc,              \* "discover", "ready", "nodes", "edges", "graph" or "done"
  i,               \* the resource reached
  resources,       \* collection.Resources
  failed, warned,  \* positions whose call failed, and that stderr told of
  nodes, arrows,   \* what the DOT file has so far
  edges,           \* g.edges
  uses

vars == <<inventory, pc, i, resources, failed, warned, nodes, arrows, edges, uses>>
drawing == <<nodes, arrows>>
graph == <<edges, uses>>

Objects == inventory.objects
AsCollected == [j \in DOMAIN Objects |-> ToResource(Objects[j])]

\* A Go map after map[keys[n]] = values[n], for each n in order.
Assigned(keys, values) ==
  LET upTo[n \in 0..Len(keys)] ==
        IF n = 0 THEN [k \in {} |-> k]
        ELSE [k \in DOMAIN upTo[n - 1] \cup {keys[n]} |->
                IF k = keys[n] THEN values[n] ELSE upTo[n - 1][k]]
  IN  upTo[Len(keys)]

Ids(rs)      == [j \in DOMAIN rs |-> rs[j].id]
IdsOf(rs)    == {rs[j].id : j \in DOMAIN rs}
\* The index that Collection.Add fills, with positions, and Collection.Get.
Index(rs)    == Assigned(Ids(rs), [j \in DOMAIN rs |-> j])
Get(rs, id)  == Index(rs)[id]
Targets(res) == [l \in DOMAIN res.links |-> res.links[l].target]
\* The resources, or relationships, of these types.
OfTypes(s, types) ==
  FlattenSeq([j \in DOMAIN s |-> IF s[j].type \in types THEN <<s[j]>> ELSE <<>>])

Init ==
  /\ inventory \in Inventories
  /\ resources = AsCollected
  /\ pc = "discover" /\ i = 1
  /\ failed = {} /\ warned = {}
  /\ nodes = <<>> /\ arrows = <<>>
  /\ edges = <<>> /\ uses = 0

-----------------------------------------------------------------------------
(* Discovery: the round of the loop for resources[i], by its type.         *)

Discovering(types) ==
  pc = "discover" /\ i <= Len(resources) /\ resources[i].type \in types
NextResource == i' = i + 1 /\ UNCHANGED <<inventory, pc, drawing, graph>>
Appended(links) == resources' = [resources EXCEPT ![i].links = @ \o links]

\* The types whose belongs_to a VPC and an organization answer.
Containers == {"aws:ec2:vpc", "github:organization"}
ContainedTypes_NoTeams(type) ==            \* mutant: one of the loops forgotten
  CASE type = "aws:ec2:vpc"         -> {"aws:ec2:subnet", "aws:ec2:security-group"}
    [] type = "github:organization" -> {"github:repository"}
ContainedTypes(type) ==
  CASE type = "aws:ec2:vpc"         -> {"aws:ec2:subnet", "aws:ec2:security-group"}
    [] type = "github:organization" -> {"github:repository", "github:team"}

Inverses(container, res) ==
  IF res.type \notin ContainedTypes(container.type) THEN <<>>
  ELSE FlattenSeq([l \in DOMAIN res.links |->
         IF res.links[l].target = container.id /\ res.links[l].rel = "belongs_to"
         THEN <<Relationship("contains", res.id, res.type)>> ELSE <<>>])

\* A member of an organization is collected under its name, and has no link.
Member(container, res) ==
  IF container.type = "github:organization" /\ res.type = "github:user"
     /\ <<res.account>> = container.name
  THEN <<Relationship("contains", res.id, "github:user")>> ELSE <<>>

DiscoverContents ==
  /\ Discovering(Containers)
  /\ LET c == resources[i] IN
     Appended(FlattenSeq([j \in DOMAIN resources |->
               Inverses(c, resources[j]) \o Member(c, resources[j])]))
  /\ NextResource /\ UNCHANGED <<failed, warned>>

\* The first resource group of that name.
DiscoverResourceGroup ==
  /\ Discovering({"azure:compute:vm", "azure:network:vnet"})
  /\ LET groups == {j \in DOMAIN resources :
           /\ resources[j].type = "azure:resourcegroup"
           /\ resources[j].name = resources[i].props.resource_group.text}
     IN  Appended(IF groups = {} THEN <<>>
                 ELSE <<Relationship("in_resource_group", resources[Min(groups)].id,
                                     "azure:resourcegroup")>>)
  /\ NextResource /\ UNCHANGED <<failed, warned>>

\* The call's one page: the users of an Okta group, the roles of an Auth0 user.
Asking == {"okta:group", "auth0:user"}
Answer(res) ==
  LET members == IF res.id \in DOMAIN inventory.answers THEN inventory.answers[res.id] ELSE <<>>
  IN  [m \in DOMAIN members |->
         IF res.type = "okta:group" THEN Relationship("contains", members[m], "okta:user")
                                    ELSE Relationship("has_role", members[m], "auth0:role")]
DiscoverMembers ==
  /\ Discovering(Asking)
  /\ Appended(Answer(resources[i]))
  /\ NextResource /\ UNCHANGED <<failed, warned>>

MembersFail_Ends ==                        \* mutant: the error ends the pass
  /\ Discovering(Asking)
  /\ failed' = failed \cup {i}
  /\ warned' = IF resources[i].type = "okta:group" THEN warned \cup {i} ELSE warned
  /\ i' = Len(resources) + 1
  /\ UNCHANGED <<inventory, pc, drawing, graph, resources>>
\* Okta: a warning.  Auth0: nothing.
MembersFail ==
  /\ Discovering(Asking)
  /\ failed' = failed \cup {i}
  /\ warned' = IF resources[i].type = "okta:group" THEN warned \cup {i} ELSE warned
  /\ NextResource /\ UNCHANGED resources

DiscoverNothing ==
  /\ pc = "discover" /\ i <= Len(resources)
  /\ resources[i].type \notin
       Containers \cup {"azure:compute:vm", "azure:network:vnet"} \cup Asking
  /\ NextResource /\ UNCHANGED <<resources, failed, warned>>

Discovered ==
  /\ pc = "discover" /\ i > Len(resources)
  /\ pc' = "ready" /\ i' = 1
  /\ UNCHANGED <<inventory, resources, failed, warned, drawing, graph>>

-----------------------------------------------------------------------------
(* The DOT export: all nodes, then all edges.                              *)

Replaced == {":", "/", "-", "."}
sanitizeID(id) == [c \in DOMAIN id |-> IF id[c] \in Replaced THEN "_" ELSE id[c]]

Draw ==
  /\ pc = "ready" /\ pc' = "nodes"
  /\ UNCHANGED <<inventory, i, resources, failed, warned, drawing, graph>>

writeNode ==
  /\ pc = "nodes" /\ i <= Len(resources)
  /\ nodes' = Append(nodes, sanitizeID(resources[i].id))
  /\ i' = i + 1
  /\ UNCHANGED <<inventory, pc, resources, failed, warned, arrows, graph>>

NodesWritten ==
  /\ pc = "nodes" /\ i > Len(resources)
  /\ pc' = "edges" /\ i' = 1
  /\ UNCHANGED <<inventory, resources, failed, warned, drawing, graph>>

Arrow(from, to, label) == [from |-> from, to |-> to, label |-> label]
writeEdges_RawTarget ==                    \* mutant: the target as it is
  /\ pc = "edges" /\ i <= Len(resources)
  /\ LET res == resources[i] IN
     arrows' = arrows \o [l \in DOMAIN res.links |->
       Arrow(sanitizeID(res.id), res.links[l].target, res.links[l].rel)]
  /\ i' = i + 1
  /\ UNCHANGED <<inventory, pc, resources, failed, warned, nodes, graph>>
writeEdges ==
  /\ pc = "edges" /\ i <= Len(resources)
  /\ LET res == resources[i] IN
     arrows' = arrows \o [l \in DOMAIN res.links |->
       Arrow(sanitizeID(res.id), sanitizeID(res.links[l].target), res.links[l].rel)]
  /\ i' = i + 1
  /\ UNCHANGED <<inventory, pc, resources, failed, warned, nodes, graph>>

Drawn ==
  /\ pc = "edges" /\ i > Len(resources)
  /\ pc' = "done"
  /\ UNCHANGED <<inventory, i, resources, failed, warned, drawing, graph>>

-----------------------------------------------------------------------------
(* resource.Graph                                                          *)

buildGraph_Joined(rs) ==                   \* mutant: the list is not made anew
  [id \in IdsOf(rs) |->
     FlattenSeq([j \in DOMAIN rs |-> IF rs[j].id = id THEN Targets(rs[j]) ELSE <<>>])]
\* Each resource starts the list of its ID anew.
buildGraph(rs) == Assigned(Ids(rs), [j \in DOMAIN rs |-> Targets(rs[j])])

NewGraph ==
  /\ pc = "ready"
  /\ edges' = buildGraph(resources)
  /\ pc' = "graph"
  /\ UNCHANGED <<inventory, i, resources, failed, warned, drawing, uses>>

Using == pc = "graph" /\ uses < MaxUses /\ uses' = uses + 1
         /\ UNCHANGED <<inventory, pc, i, failed, warned, drawing>>

AddRelationship_Absent(from, rel) ==       \* mutant: an edge without a resource
  /\ Using
  /\ edges' = (from :> <<rel.target>>) @@ edges
  /\ UNCHANGED resources
\* Nothing is done for an ID that was not collected.
AddRelationship(from, rel) ==
  /\ Using
  /\ from \in IdsOf(resources)
  /\ resources' = [resources EXCEPT ![Get(resources, from)].links = Append(@, rel)]
  /\ edges' = [edges EXCEPT ![from] = Append(@, rel.target)]

\* Copies, with the relationships to these types; and their own index.
GetSubgraph(types) ==
  /\ Using
  /\ LET of  == OfTypes(resources, types)
         sub == [j \in DOMAIN of |-> [of[j] EXCEPT !.links = OfTypes(@, types)]]
     IN  resources' = sub /\ edges' = buildGraph(sub)

Terminating ==
  /\ pc = "done" \/ (pc = "graph" /\ uses = MaxUses)
  /\ UNCHANGED vars

Next ==
  \/ DiscoverContents \/ DiscoverResourceGroup \/ DiscoverNothing
  \/ DiscoverMembers \/ MembersFail \/ Discovered
  \/ Draw \/ writeNode \/ NodesWritten \/ writeEdges \/ Drawn
  \/ NewGraph
  \/ \E a \in Additions : AddRelationship(a.from, a.rel)
  \/ \E types \in TypeSets : GetSubgraph(types)
  \/ Terminating

Spec == Init /\ [][Next]_vars

-----------------------------------------------------------------------------
(* Every variable has its type, and a graph has an entry for each ID.      *)
TypeOK ==
  /\ inventory \in Inventories
  /\ pc \in {"discover", "ready", "nodes", "edges", "graph", "done"}
  /\ i \in 1..(Len(Objects) + 1)
  /\ \A j \in DOMAIN resources : resources[j].links \in Seq(LinkType)
  /\ warned \subseteq failed /\ failed \subseteq DOMAIN Objects
  /\ Len(nodes) <= Len(resources)
  /\ pc = "graph" => DOMAIN edges = IdsOf(resources)
  /\ uses \in 0..MaxUses

Has(res, rel, id, type) ==
  \E l \in ToSet(res.links) : l.rel = rel /\ l.target = id /\ l.type = type

Mirrored(c, r) ==
  Has(c, "contains", r.id, r.type) <=> Has(r, "belongs_to", c.id, c.type)

(* What belongs to a collected VPC or organization is in its contents, and *)
(* nothing else is: the two directions agree over the whole collection,    *)
(* also where a container was listed twice, where the other's was not      *)
(* collected, and where resources of different types share an ID.          *)
MirrorHolds ==
  pc = "ready" =>
    \A c, r \in ToSet(resources) :
      /\ (c.type = "aws:ec2:vpc" /\ r.type \in {"aws:ec2:subnet", "aws:ec2:security-group"})
           => Mirrored(c, r)
      /\ (c.type = "github:organization" /\ r.type \in {"github:repository", "github:team"})
           => Mirrored(c, r)

(* What an API refers to by whatever form - a name, a number, an ARN - is  *)
(* linked under the ID and the type it was collected with, if it was: the  *)
(* converters of the two objects agree.  GCP's subnetworks refer to their  *)
(* network by its URL, and the network is collected by its number.         *)
RefersByURL(o) == \E l \in ToSet(o.via.links) : l.form = "url"
LinksResolve ==
  pc = "ready" =>
    \A j, k \in DOMAIN Objects :
      \A role \in DOMAIN Objects[j].refs :
        (Objects[k].forms \in ToSet(Objects[j].refs[role]) /\ ~RefersByURL(Objects[j]))
          => \E l \in ToSet(resources[j].links) :
               l.target = resources[k].id /\ l.type = resources[k].type

(* A failed call for the members of one group or the roles of one user     *)
(* costs these and nothing else, Okta's are reported, and the pass only    *)
(* ever adds to what the converters found.                                 *)
MembershipFailuresLocal ==
  pc = "ready" =>
    \A j \in DOMAIN resources :
      LET res == resources[j] IN
      /\ IsPrefix(AsCollected[j].links, res.links)
      /\ (res.type \in Asking /\ j \notin failed) =>
           ToSet(Answer(res)) \subseteq ToSet(res.links)
      /\ (res.type = "okta:group" /\ j \in failed) => j \in warned

(* An edge is drawn from the node of the resource to the node of the one   *)
(* it is related to, if that was collected: whatever is replaced in an ID  *)
(* is replaced where the node is drawn and at both ends of an edge.        *)
EdgesMeetNodes ==
  pc = "done" =>
    /\ \A a \in ToSet(arrows) : a.from \in ToSet(nodes)
    /\ \A j \in DOMAIN resources : \A l \in ToSet(resources[j].links) :
         l.target \in IdsOf(resources) =>
           Arrow(nodes[j], nodes[Get(resources, l.target)], l.rel) \in ToSet(arrows)

(* The graph and the index give the same resource of several with one ID:  *)
(* the edges of an ID are the relationships that GetRelationships returns, *)
(* after any additions and in a subgraph too.                              *)
GraphAgrees ==
  pc = "graph" =>
    \A id \in DOMAIN edges : edges[id] = Targets(resources[Get(resources, id)])
==============================================================================
