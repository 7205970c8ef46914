-------------------------- MODULE MCMemoryRuntime --------------------------
EXTENDS MemoryRuntime

\* Three commits, so that one is pruned; named in the order they are sorted.
ThreeRevisions == 1 .. 3
=============================================================================
