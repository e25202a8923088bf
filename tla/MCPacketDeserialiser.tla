------------------------ MODULE MCPacketDeserialiser ------------------------
EXTENDS PacketDeserialiser

\* A buffer that just holds the biggest packet but one octet and a chunk.
WholeBounds == <<0, 2, 5, 6, 10, 12, 16, 19, 20, 24>>
WholeMax == 7
WholeChunks == 1 .. 4

\* Packets of 2 and 1 octets, one that cannot be read, one that does not fit
\* the buffer, one behind them.
FaultBounds == <<0, 2, 3, 5, 10, 11>>
FaultMax == 4
FaultChunks == 0 .. 3
=============================================================================
