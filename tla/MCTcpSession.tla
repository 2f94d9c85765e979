----------------------------- MODULE MCTcpSession -----------------------------
(***************************************************************************)
(* TcpSession on small instances.                                          *)
(***************************************************************************)
EXTENDS TcpSession

\* An empty announcement, which the server refuses, and a file of two units:
\* it can be sent whole, in two pieces, short, or with more than was announced.
MCSizes == {0, 2}

\* An empty chunk, chunks within kDefaultMaxChunk, and one beyond it.
MCChunkSizes == {0, 1, 2, 3}

=============================================================================
