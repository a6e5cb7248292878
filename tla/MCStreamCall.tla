------------------------------ MODULE MCStreamCall ------------------------------
(* StreamCall on a small instance: one ordinary event, one the handler cannot  *)
(* encode and one the client cannot decode.                                    *)
EXTENDS StreamCall

CONSTANTS good, unenc, undec

MCEvents == {good, unenc, undec}
MCUnencodable == {unenc}
MCUndecodable == {undec}
================================================================================
