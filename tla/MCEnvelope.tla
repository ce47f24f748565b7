------------------------------ MODULE MCEnvelope ------------------------------
(* Values of the constants of Envelope for TLC.  The second certificate has an *)
(* unprintable first name that imitates a client "a" with the context "b".     *)
EXTENDS Envelope

Imitation == <<"a", "NUL", "b">>

MCCharacters   == {"a", "b", "c", " ", "NUL", "uid:", "serial:", "1000", "1001"}
MCCerts        == {<<<<"a">>>>, <<Imitation, <<"b">>>>, <<Imitation>>}
MCSecrets      == {<<"a", "b">>, <<"c">>}
MCUnprintable  == {Imitation}
MCAllowedNames == {{}, {<<"a">>, <<"c">>}}
MCTokenSets    == {{}, {<<"a", "b">>}}
MCUidSets      == {{}, {"1000"}}
MCContexts     == {<<>>, <<"b">>, <<" ", "b">>, <<"NUL">>, <<"b", "b", "b">>}
MCForgeries    == {<<>>, <<"h1">>, <<"">>, <<"h2", "p">>}
MCRoutes       == {<<>>, <<"p">>}
===============================================================================
