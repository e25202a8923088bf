-------------------------- MODULE MCBufferedStream --------------------------
EXTENDS BufferedStream

\* Octets told apart by their position.
MCData == <<1, 2, 3, 4, 5>>
=============================================================================
