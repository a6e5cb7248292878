-------------------------- MODULE MCGeneratedHandlers --------------------------
(* GeneratedHandlers with the two session keys, an application key and a peer. *)
EXTENDS GeneratedHandlers

CONSTANTS subjectKey, signatureKey, appKey, peer

MCSessionKeys == {subjectKey, signatureKey}
MCAppKeys == {appKey}
MCPeers == {peer}
================================================================================
