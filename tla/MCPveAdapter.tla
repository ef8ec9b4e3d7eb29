----------------------------- MODULE MCPveAdapter -----------------------------
(***************************************************************************)
(* A small instance of PveAdapter for TLC.                                 *)
(***************************************************************************)
EXTENDS PveAdapter

\* Every kind of request, right and wrong, with and without a node.
AllRequests ==
    [type : {"PRECHECK", "START", "RESTORE"}, vmid : {"valid", "invalid"},
     cluster : {"own", "other"}, snapshot : {"valid", "invalid"},
     node : {NoNode, BadNode, "n1"}]

AllPlaces == {"n1", "n2", BadNode, NotQemu, Outside}

\* A redirect, every status with a meaning, and of the others those around the
\* limits of what is transient.
SomeStatuses == {302, 400, 401, 403, 404, 405, 408, 409, 410, 422, 429, 499, 500, 503}
=============================================================================
