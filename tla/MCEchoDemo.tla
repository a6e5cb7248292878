------------------------------- MODULE MCEchoDemo -------------------------------
(* EchoDemo with two clients, of any kind, version and name, and different texts. *)
EXTENDS EchoDemo

CONSTANTS c1, c2, hello, bye

MCClients == {c1, c2}
MCText == [c \in MCClients |-> IF c = c1 THEN hello ELSE bye]
Everything == {k \in [kind : Kinds, version : Versions, name : Names] :
                 k.kind = "plain" => k.name = "echo"}
Reaching == {k \in Everything : k.name = "echo" /\ (k.kind = "plain" <=> k.version = "v1")}
================================================================================
