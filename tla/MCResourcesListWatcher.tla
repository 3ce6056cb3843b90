----------------------- MODULE MCResourcesListWatcher -----------------------
(* Fixes the constants of ResourcesListWatcher for TLC: two definers, one *)
(* of which defines a resource with a subresource-free GVR of its own and *)
(* one that shares it, plus a builtin resource.                           *)
EXTENDS ResourcesListWatcher, TLC

CONSTANTS d1, d2, rPods, rWidgets, rGadgets

MCDefiners == {d1, d2}
MCResources == {rPods, rWidgets, rGadgets}
MCBuiltin == {rPods}
MCDefines == (d1 :> {rWidgets}) @@ (d2 :> {rWidgets, rGadgets})
=============================================================================
