----------------------------- MODULE MCRpcCall -----------------------------
(* Two services with a method of the same name, offered as different kinds *)
(* of call, so that a dispatch by half of the key goes wrong.              *)
EXTENDS RpcCall
CONSTANTS s1, s2, m
MCOffers == {<<s1, k, m>> : k \in Kind \ {"requestStream"}} \cup {<<s2, "requestStream", m>>}
=============================================================================
