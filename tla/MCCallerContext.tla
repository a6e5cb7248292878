------------------------------ MODULE MCCallerContext ------------------------------
(* CallerContext with two requests, one relayed from the other or both from      *)
(* clients and handled side by side, and two peers that may each be client and   *)
(* agent.                                                                        *)
EXTENDS CallerContext, TLC

CONSTANTS r1, r2, alice, relay, peerSubject, payloadSig, appKey, forged

MCRequests == {r1, r2}
MCPeers == {alice, relay}
MCSessionKeys == {peerSubject, payloadSig}
MCAppKeys == {appKey}
MCValues == {forged}

Symmetry == Permutations(MCRequests)
================================================================================
