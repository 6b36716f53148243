---------------------------- MODULE MCDeployment ----------------------------
EXTENDS Deployment

MCOthers == {"HomeySHS"}
MCAmounts == 0 .. 2
=============================================================================
