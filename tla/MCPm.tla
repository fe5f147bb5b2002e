-------------------------------- MODULE MCPm --------------------------------
EXTENDS Pm
=============================================================================
