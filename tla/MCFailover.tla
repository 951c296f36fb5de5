----------------------------- MODULE MCFailover -----------------------------
(***************************************************************************)
(* Two requests and two backends, one of which fails.  The mixes: every    *)
(* route and every error of a backend, with clients that stay; the routes  *)
(* on which a hang-up is not recorded, with clients that hang up; the      *)
(* chats and streams of Ollama against terminal refusals; and clients that *)
(* hang up on embeddings.                                                  *)
(***************************************************************************)
EXTENDS Failover

MCTraffics ==
    {[kinds |-> Kinds, errors |-> Errors \ {"cancelled"}],
     [kinds |-> Kinds \ {"embed"}, errors |-> {"terminal", "cancelled"}],
     [kinds |-> {"chat", "stream"}, errors |-> {"terminal"}],
     [kinds |-> {"chat", "embed"}, errors |-> {"terminal", "cancelled"}]}

(* Chats alone, against a backend that refuses or limits the rate.         *)
LimitedChats == {[kinds |-> {"chat"}, errors |-> {"terminal", "rateLimited"}]}
=============================================================================
