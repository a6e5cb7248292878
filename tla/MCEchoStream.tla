------------------------------ MODULE MCEchoStream ------------------------------
(* EchoStream with an artifact that converts, one that the handler cannot encode *)
(* and one that the client cannot decode.                                        *)
EXTENDS EchoStream

CONSTANTS good, unenc, undec

MCArtifacts == {good, unenc, undec}
MCEvents == {Submitted, Working, Completed} \cup MCArtifacts
MCUnencodable == {unenc}
MCUndecodable == {undec}
================================================================================
