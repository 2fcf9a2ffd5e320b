----------------------------- MODULE MCSdioBus -----------------------------
EXTENDS SdioBus
=============================================================================
