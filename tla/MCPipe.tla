------------------------------- MODULE MCPipe -------------------------------
\* A reader and a writer, and a third process that can inherit an end.
EXTENDS Pipe
CONSTANTS a, b, c
OneEach == [r |-> {a}, w |-> {b}]
=============================================================================
