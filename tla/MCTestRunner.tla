---------------------------- MODULE MCTestRunner ----------------------------
(* Configurations of TestRunner for TLC: which nodes a test asks for and   *)
(* which of them run as containers.                                        *)
EXTENDS TestRunner

CONSTANTS b1, b2, pg, s1, s2, fn, v1, a1

NoNodes == <<>>
OneBitcoin == <<b1>>
TwoBitcoins == <<b1, b2>>
OnePostgres == <<pg>>
OneSequencer == <<s1>>
TwoSequencers == <<s1, s2>>
FullNodeOnly == <<fn>>
OneVerifier == <<v1>>
OneAggregator == <<a1>>
=============================================================================
