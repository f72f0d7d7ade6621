---------------------------- MODULE MCGatewayPush ----------------------------
(* Instances of GatewayPush for TLC.                                       *)
EXTENDS GatewayPush

MCCasters == {Consumer} \cup Fetchers
MCTopicLists == {<<"user">>, <<"user", "pair">>}
=============================================================================
