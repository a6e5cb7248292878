------------------------------- MODULE MCUnaryCall -------------------------------
(* UnaryCall with one method of each kind: one that converts its request and   *)
(* its response, v0 GetAgentCard, and DeleteTaskPushNotificationConfig.        *)
EXTENDS UnaryCall

CONSTANTS SendMessage, GetAgentCard, DeleteConfig

MCMethods == {SendMessage, GetAgentCard, DeleteConfig}
MCBodyless == {GetAgentCard}
MCResultless == {DeleteConfig}
================================================================================
