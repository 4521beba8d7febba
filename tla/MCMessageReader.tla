--------------------------- MODULE MCMessageReader ---------------------------
(* Instances of MessageReader: which responses the server may send.        *)
EXTENDS MessageReader

\* A chunk of n bytes whose size is written with z leading zeros.
Chunk(n, z) == [size |-> n, zeros |-> z]

Plain(n) == [chunked |-> FALSE, chunks |-> <<Chunk(n, 0)>>]
InChunks(cs) == [chunked |-> TRUE, chunks |-> cs]

\* The payload in one piece, in pieces cut where a field or a message is
\* in the middle, and in pieces longer than the buffer's small moves.
MCWires ==
    {Plain(22),
     InChunks(<<Chunk(3, 2), Chunk(1, 0), Chunk(8, 1)>>),
     InChunks(<<Chunk(7, 1), Chunk(7, 0)>>)}
=============================================================================
