-------------------------------- MODULE ArMap --------------------------------
(***************************************************************************)
(* The arMap of src/pkg/apiwatch/resources.go (lines 304-339): a tree of  *)
(* resource-name segments built by insert and flattened into nested       *)
(* APIResourceSpecs by toList.  A name is a sequence of segments; a spec  *)
(* is identified by the name it was discovered under; an arMap is a       *)
(* function from segments to arTuple records [spec, sub].  Go map         *)
(* iteration order is unspecified, so toList is the set of outputs it can *)
(* produce.                                                               *)
(***************************************************************************)
EXTENDS Naturals, Sequences, SequencesExt

CONSTANT NoSpec   \* an arTuple whose spec is nil

EmptyMap == <<>>

-----------------------------------------------------------------------------
(* Mutant: a new arTuple is created but never stored in the map, so only *)
(* the path of an existing node survives.                                *)
RECURSIVE InsertUnstored(_, _, _)
InsertUnstored(m, name, spec) ==
    LET k == Head(name) IN
    IF k \notin DOMAIN m THEN m
    ELSE LET art == m[k]
             new == IF Len(name) < 2 THEN [art EXCEPT !.spec = spec]
                    ELSE [art EXCEPT !.sub = InsertUnstored(art.sub, Tail(name), spec)]
         IN [x \in DOMAIN m |-> IF x = k THEN new ELSE m[x]]

(* arMap.insert: walk or create the node of each segment and attach the  *)
(* spec to the last one (a later spec for the same name replaces it).    *)
RECURSIVE Insert(_, _, _)
Insert(m, name, spec) ==
    LET k == Head(name)
        art == IF k \in DOMAIN m THEN m[k] ELSE [spec |-> NoSpec, sub |-> EmptyMap]
        new == IF Len(name) < 2 THEN [art EXCEPT !.spec = spec]
               ELSE [art EXCEPT !.sub = Insert(art.sub, Tail(name), spec)]
    IN [x \in DOMAIN m \cup {k} |-> IF x = k THEN new ELSE m[x]]

(* Mutant: toList without the "continue" on a gap: a node without a spec *)
(* is emitted with a nil spec.                                           *)
RECURSIVE EmitsNoSkip(_, _), ToListsNoSkip(_)
EmitsNoSkip(m, ks) ==
    IF ks = <<>> THEN {<<>>}
    ELSE { <<[name |-> Head(ks), spec |-> m[Head(ks)].spec, subs |-> c]>> \o rest :
             c \in ToListsNoSkip(m[Head(ks)].sub),
             rest \in EmitsNoSkip(m, Tail(ks)) }
ToListsNoSkip(m) == UNION {EmitsNoSkip(m, o) : o \in SetToSeqs(DOMAIN m)}

(* arMap.toList visiting the keys in the order ks: a gap is skipped, any *)
(* other node becomes a spec named by its segment whose SubResources are  *)
(* the toList output of its children, appended in their visiting order.  *)
RECURSIVE Emits(_, _), ToLists(_)
Emits(m, ks) ==
    IF ks = <<>> THEN {<<>>}
    ELSE IF m[Head(ks)].spec = NoSpec THEN Emits(m, Tail(ks))
    ELSE { <<[name |-> Head(ks), spec |-> m[Head(ks)].spec, subs |-> c]>> \o rest :
             c \in ToLists(m[Head(ks)].sub),
             rest \in Emits(m, Tail(ks)) }

(* Every output toList can give: "for name, art := range am" visits the  *)
(* keys in an unspecified order, at every level independently.           *)
ToLists(m) == UNION {Emits(m, o) : o \in SetToSeqs(DOMAIN m)}

-----------------------------------------------------------------------------
(* The reference: the specs a nested listing of the discovered names ns  *)
(* should hold below prefix.  A name is listed, nested under its parent,  *)
(* exactly when every proper prefix of it was discovered too.            *)
RECURSIVE RefForest(_, _)
RefForest(ns, prefix) ==
    { [name |-> Last(p), spec |-> p, subs |-> RefForest(ns, p)] :
        p \in {q \in ns : Len(q) = Len(prefix) + 1 /\ IsPrefix(prefix, q)} }

(* An output with the order of every level forgotten.                    *)
RECURSIVE Unordered(_)
Unordered(out) ==
    { [name |-> r.name, spec |-> r.spec, subs |-> Unordered(r.subs)] : r \in ToSet(out) }

=============================================================================
