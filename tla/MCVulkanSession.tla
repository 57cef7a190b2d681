--------------------------- MODULE MCVulkanSession ---------------------------
(* Two shaders, two entry points and one or two bindings: each component of *)
(* the pipeline key tells two of the requests apart on its own.             *)
EXTENDS VulkanSession

Req(w, e, b) == [words |-> w, entry |-> e, bindings |-> b]

MCRequests ==
  {Req("shader", "main", <<0>>), Req("shader", "other", <<0>>),
   Req("shader", "main", <<0, 1>>), Req("shader2", "main", <<0, 1>>)}
=============================================================================
