---------------------------- MODULE ResourceListing ----------------------------
(***************************************************************************)
(* The items a List of src/pkg/apiwatch/resources.go returns for one      *)
(* discovery answer, in its two modes:                                    *)
(*                                                                         *)
(*  - listWithSubresources: ServerGroupsAndResources; for every discovered *)
(*    group version that is its group's preferred one, the resources are  *)
(*    inserted into an arMap and toList's specs are completed by          *)
(*    specComplete;                                                        *)
(*  - listSansSubresources: ServerPreferredResources; every resource it   *)
(*    answers is completed by specComplete as it is.                      *)
(*                                                                         *)
(* The discovery answer is the environment: which versions the server     *)
(* serves for each group, the preferred one, and the resources of every   *)
(* group version whose request did not fail.  Definers and the other      *)
(* fields of a spec are left out (ResourcesListWatcher models them).      *)
(***************************************************************************)
EXTENDS Naturals, Sequences, SequencesExt, ArMap

CONSTANTS
    Groups,        \* API groups
    Versions,      \* API versions
    VersionOrder,  \* the order in which the server lists a group's versions
    NameChoices    \* the resource names a group version may serve

ASSUME /\ VersionOrder \in Seq(Versions) /\ ToSet(VersionOrder) = Versions
       /\ \A n \in NameChoices : n \in Seq(UNION {ToSet(m) : m \in NameChoices})

VARIABLES
    serves,        \* serves[g]: the versions the server serves for group g
    preferred,     \* preferred[g]: ag.PreferredVersion.Version
    resourceList,  \* group version -> names, for the requests that succeeded
    subOut,        \* the items listWithSubresources returned
    sansOut,       \* the items listSansSubresources returned
    done           \* the modes that have listed

vars == <<serves, preferred, resourceList, subOut, sansOut, done>>

GV == Groups \X Versions

-----------------------------------------------------------------------------
(* specComplete: the object's name is gv.Group + ":" + gv.Version + ":"   *)
(* + spec.Name.  Neither a group nor a version holds a ":", so the name   *)
(* is the triple it is joined from.  The object also carries the group   *)
(* and version enumAPIResourcesLocked put in its spec (rsc.Version is     *)
(* empty for the resources modelled, so it is gv's version).              *)
SpecComplete(spec, gv) ==
    [key |-> <<gv[1], gv[2], spec.name>>, gv |-> gv, spec |-> spec]

(* The arMap of one group version: every resource name inserted, in the   *)
(* order discovery gives them (the order does not change the map).        *)
BuildArMap(names) ==
    FoldLeft(LAMBDA m, n : Insert(m, n, n), EmptyMap, SetToSeq(names))

(* The group versions listWithSubresources keeps: groupToVersion[gv.Group] *)
(* equals gv.Version (a group missing from the group list maps to "",     *)
(* which no version equals).  schema.ParseGroupVersion does not fail on   *)
(* the group versions a server reports, so its "continue" never fires.   *)
ListedGVs == {gv \in DOMAIN resourceList : preferred[gv[1]] = gv[2]}

(* listWithSubresources, with the order of the items forgotten: every    *)
(* toList order gives the same items (run tree_reference).                *)
ListWithSubresources ==
    UNION { { SpecComplete(item, gv) :
                item \in ToSet(CHOOSE o \in ToLists(BuildArMap(resourceList[gv])) : TRUE) } :
            gv \in ListedGVs }

(* ServerPreferredResources of client-go: names with a "/" are skipped,   *)
(* and each group resource is answered in the preferred version if that  *)
(* serves it, else in the first version listed that does.                 *)
ChosenVersion(g, n) ==
    IF <<g, preferred[g]>> \in DOMAIN resourceList /\ n \in resourceList[<<g, preferred[g]>>]
    THEN preferred[g]
    ELSE VersionOrder[CHOOSE i \in DOMAIN VersionOrder :
            /\ <<g, VersionOrder[i]>> \in DOMAIN resourceList
            /\ n \in resourceList[<<g, VersionOrder[i]>>]
            /\ \A j \in 1..(i - 1) : ~(<<g, VersionOrder[j]>> \in DOMAIN resourceList
                                       /\ n \in resourceList[<<g, VersionOrder[j]>>])]

PreferredResources ==
    [gv \in DOMAIN resourceList |->
        {n \in resourceList[gv] : Len(n) = 1 /\ ChosenVersion(gv[1], n) = gv[2]}]

(* listSansSubresources: every answered resource, named by rsc.Name,      *)
(* without subresources.                                                  *)
ListSansSubresources ==
    LET prl == PreferredResources IN
    UNION { { SpecComplete([name |-> n[1], spec |-> n, subs |-> <<>>], gv) :
                n \in prl[gv] } :
            gv \in DOMAIN prl }

-----------------------------------------------------------------------------
(* A discovery answer: the groups, the versions served for each with one  *)
(* of them preferred, and the resources of the group versions whose       *)
(* request succeeded (a failed one is missing).                          *)
Init ==
    /\ serves \in [Groups -> SUBSET Versions]
    /\ preferred \in {p \in [Groups -> Versions] :
                        \A g \in Groups : serves[g] # {} => p[g] \in serves[g]}
    /\ \E ok \in SUBSET {gv \in GV : gv[2] \in serves[gv[1]]} :
          resourceList \in [ok -> SUBSET NameChoices]
    /\ subOut = {} /\ sansOut = {} /\ done = {}

(* List with includeSubresources.                                         *)
ListSub ==
    /\ "sub" \notin done
    /\ subOut' = ListWithSubresources
    /\ done' = done \cup {"sub"}
    /\ UNCHANGED <<serves, preferred, resourceList, sansOut>>

(* List without includeSubresources.                                      *)
ListSans ==
    /\ "sans" \notin done
    /\ sansOut' = ListSansSubresources
    /\ done' = done \cup {"sans"}
    /\ UNCHANGED <<serves, preferred, resourceList, subOut>>

Next == ListSub \/ ListSans

Spec == Init /\ [][Next]_vars

-----------------------------------------------------------------------------
TypeOK ==
    /\ done \subseteq {"sub", "sans"}
    /\ \A i \in subOut \cup sansOut :
          /\ i.key \in Groups \X Versions \X UNION {ToSet(n) : n \in NameChoices}
          /\ i.spec.spec \in NameChoices

(* The two List modes present one catalog in two shapes: a resource of *)
(* a group is a top-level item of listWithSubresources exactly when      *)
(* listSansSubresources lists it, in whichever version.  The design      *)
(* describes the plain mode as the simpler "preferred resources only"   *)
(* feed of the same catalog.                                             *)
ModesListSameResources ==
    done = {"sub", "sans"} =>
       {<<i.key[1], i.key[3]>> : i \in subOut}
         = {<<i.key[1], i.key[3]>> : i \in sansOut}

=============================================================================
