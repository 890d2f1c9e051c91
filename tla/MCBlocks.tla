------------------------------- MODULE MCBlocks -------------------------------
EXTENDS Blocks
McNegInf == -1
=============================================================================
