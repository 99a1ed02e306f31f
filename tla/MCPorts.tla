------------------------------ MODULE MCPorts ------------------------------
EXTENDS Ports

\* the input: characters of one and two bytes, which lie across the buffer
Widths == <<1, 2, 2, 1>>
MCSource == FlattenSeq([c \in 1..Len(Widths) |-> [b \in 1..Widths[c] |-> <<c, b, Widths[c]>>]])
=============================================================================
