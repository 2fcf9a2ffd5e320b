----------------------------- MODULE MCReorder -----------------------------
EXTENDS Reorder
=============================================================================
