---------------------------- MODULE MCHttpServer ----------------------------
(***************************************************************************)
(* One request of each kind that the server tells apart, of at most two    *)
(* pieces of body, from two clients that come back.                        *)
(***************************************************************************)
EXTENDS HttpServer

R(method, path, length, body) ==
    [method |-> method, path |-> path, length |-> length, body |-> body]

McRequests == {R("GET", "open", 0, "json"), R("GET", "status", 1, "json"),
               R("other", "rpc", 1, "json"), R("POST", "anchors", 1, "json"),
               R("POST", "rpc", 2, "json"), R("POST", "rpc", 1, "malformed"),
               R("POST", "rpc", 1, "notText"), R("POST", "configure", 1, "der")}
=============================================================================
