------------------------- MODULE MCResourceListing -------------------------
(* Two groups, two versions listed v1 first, and group versions serving   *)
(* pods, pods/status or scale/status (a subresource whose parent is       *)
(* missing).                                                              *)
EXTENDS ResourceListing, TLC

CONSTANTS g1, g2, v1, v2, pods, status, scale

MCGroups == {g1, g2}
MCVersions == {v1, v2}
MCVersionOrder == <<v1, v2>>
(* The groups are interchangeable: nothing in the discovery answer or in *)
(* the code tells one from another.                                      *)
GroupSymmetry == Permutations(MCGroups)
MCNameChoices == {<<pods>>, <<pods, status>>, <<scale, status>>}
=============================================================================
