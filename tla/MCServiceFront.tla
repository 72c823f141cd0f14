--------------------------- MODULE MCServiceFront ---------------------------
(***************************************************************************)
(* Three requests at a time against two threads and a limit of one hit a   *)
(* minute, from two API keys and an address: the mixes make requests share *)
(* a quota, run out of threads, and be refused in every way.               *)
(***************************************************************************)
EXTENDS ServiceFront

CONSTANTS r1, r2, r3, alice, bob, address

MCRequests == {r1, r2, r3}
MCClients  == {alice, bob, address}

Post(route, client) ==
    [route |-> route, client |-> client, apiKey |-> "good", bearer |-> "none", body |-> "valid",
     newTask |-> TRUE]

Extractions == {"extract", "document", "stream", "a2a"}

Others ==
    {[Post("extract", address) EXCEPT !.apiKey = "none"],
     [Post("extract", bob) EXCEPT !.apiKey = "bad", !.bearer = "bad"],
     [Post("extract", address) EXCEPT !.apiKey = "none", !.bearer = "good"],
     [Post("document", alice) EXCEPT !.bearer = "bad"],
     [Post("extract", alice) EXCEPT !.body = "invalid"],
     [Post("a2a", alice) EXCEPT !.body = "invalid"],
     [Post("a2a", alice) EXCEPT !.newTask = FALSE],
     [Post("health", address) EXCEPT !.apiKey = "none"],
     [Post("schemas", address) EXCEPT !.apiKey = "none"],
     Post("schemas", alice)}

Mix(p, q, s) == (r1 :> p) @@ (r2 :> q) @@ (r3 :> s)

MCTraffic ==
    {Mix(Post(a, alice), Post(b, alice), Post(c, bob)) :
        a \in Extractions, b \in Extractions, c \in {"extract", "a2a"}}
      \cup {Mix(Post("extract", alice), p, Post("extract", alice)) : p \in Others}
=============================================================================
