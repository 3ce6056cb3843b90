---------------------------- MODULE SubresourceTree ----------------------------
(***************************************************************************)
(* The subresource tree of listWithSubresources (src/pkg/apiwatch/        *)
(* resources.go): the resources of one group version, as discovery lists  *)
(* them, are inserted one by one into an arMap by their "/"-split names;  *)
(* toList then emits one spec per node that has a spec of its own, with   *)
(* the specs of its children nested as SubResources, and drops a node     *)
(* without a spec ("Gap in subresource structure") together with its      *)
(* subtree.                                                               *)
(*                                                                         *)
(* A name is a sequence of segments; a spec is identified by the name it  *)
(* was discovered under.  An arMap is a function from segments to arTuple *)
(* records [spec, sub].  Go map iteration order is unspecified, so toList *)
(* is the set of outputs it can produce.                                  *)
(***************************************************************************)
EXTENDS Naturals, Sequences, SequencesExt, ArMap

CONSTANTS
    Segments,   \* path segments, e.g. pods, status, scale
    MaxDepth,   \* longest name, in segments
    MaxNames    \* most resources in one discovered group version

ASSUME MaxDepth \in Nat \ {0} /\ MaxNames \in Nat /\ NoSpec \notin Seq(Segments)

(* The names discovery may report: "pods", "pods/status", ...             *)
Names == UNION {[1..n -> Segments] : n \in 1..MaxDepth}

VARIABLES
    discovered,  \* the names in group.APIResources
    feed,        \* the names enumAPIResourcesLocked has still to consume
    am,          \* the arMap built so far
    outs         \* the toList outputs of the Lists made so far

vars == <<discovered, feed, am, outs>>

-----------------------------------------------------------------------------
(* Discovery reports distinct names for one group version, in some order. *)
Init ==
    /\ feed \in {s \in BoundedSeq(Names, MaxNames) :
                    \A i, j \in DOMAIN s : i # j => s[i] # s[j]}
    /\ discovered = ToSet(feed)
    /\ am = EmptyMap
    /\ outs = <<>>

(* The consumer given to enumAPIResourcesLocked: split the resource name *)
(* on "/" and insert its spec.                                           *)
InsertNext ==
    /\ feed # <<>>
    /\ am' = Insert(am, Head(feed), Head(feed))
    /\ feed' = Tail(feed)
    /\ UNCHANGED <<discovered, outs>>

(* am.toList once every resource is inserted.  A second List over the    *)
(* same discovery answer builds the same arMap and runs toList again.    *)
ToList ==
    /\ feed = <<>>
    /\ Len(outs) < 2
    /\ \E out \in ToLists(am) : outs' = Append(outs, out)
    /\ UNCHANGED <<discovered, feed, am>>

Next == InsertNext \/ ToList

Spec == Init /\ [][Next]_vars

-----------------------------------------------------------------------------
TypeOK ==
    /\ discovered \subseteq Names
    /\ feed \in Seq(Names)
    /\ \A i \in DOMAIN outs : \A j \in DOMAIN outs[i] :
          /\ outs[i][j].name \in Segments
          /\ outs[i][j].spec \in discovered

(* Whatever order discovery reports the names in and toList visits the   *)
(* map in, a List holds exactly the specs whose parents were discovered, *)
(* each once, under its own segment, nested under its parent.            *)
ListMatchesReference ==
    \A i \in DOMAIN outs : Unordered(outs[i]) = RefForest(discovered, <<>>)

(* Two Lists over the same discovery answer produce the same APIResource *)
(* objects: the store keys items by name, so the order of the items does *)
(* not matter, but the SubResources of an item are part of the object.   *)
ListIsDeterministic ==
    Len(outs) = 2 => ToSet(outs[1]) = ToSet(outs[2])

=============================================================================
