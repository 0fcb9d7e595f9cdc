------------------------------ MODULE MC_Framer ------------------------------
EXTENDS FramerReference

MCMaxLen == 5
MCMaxChunk == 6

=============================================================================
