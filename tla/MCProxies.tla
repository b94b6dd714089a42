------------------------------ MODULE MCProxies ------------------------------
(* Proxies on a small instance, for TLC. *)
EXTENDS Proxies

OneTopic == {1}
TopicOne == <<1>>
NoTopics == <<>>
==============================================================================
