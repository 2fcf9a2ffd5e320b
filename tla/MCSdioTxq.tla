----------------------------- MODULE MCSdioTxq -----------------------------
EXTENDS SdioTxq
=============================================================================
