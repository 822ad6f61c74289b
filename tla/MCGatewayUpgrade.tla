---------------------------- MODULE MCGatewayUpgrade ----------------------------
(***************************************************************************)
(* Small instances of GatewayUpgrade for TLC.                              *)
(***************************************************************************)
EXTENDS MCGatewayRequest, GatewayUpgrade

CONSTANT u1

Handshake(path, bearer, claims, parses) ==
    [path |-> path, bearer |-> bearer, claims |-> claims, parses |-> parses]

MCUpgradeShapes == { Handshake(User, TRUE, FALSE, TRUE), Handshake(User, FALSE, FALSE, TRUE),
                     Handshake(Feign, FALSE, TRUE, TRUE), Handshake(User, FALSE, FALSE, FALSE) }
ForgingShapes == {Handshake(User, TRUE, TRUE, TRUE), Handshake(User, FALSE, TRUE, TRUE)}

TogetherShapes == {Http(User, TRUE, FALSE), Http(User, FALSE, TRUE), Http(Feign, FALSE, TRUE)}
TogetherConfigs == {Base, Split, Clash}
PlainConfigs == {Base}
PlainShapes == {Http(User, TRUE, FALSE)}
PlainListings == {Up}
==============================================================================
