------------------------ MODULE MCOctetVectorStream -------------------------
EXTENDS OctetVectorStream
=============================================================================
