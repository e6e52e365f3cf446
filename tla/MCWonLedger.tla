---------------------------- MODULE MCWonLedger ----------------------------
EXTENDS WonLedger

CONSTANTS v, w

MCClients == {1, 2}
MCValues == {v, w}

=============================================================================
