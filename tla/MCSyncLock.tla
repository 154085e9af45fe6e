----------------------------- MODULE MCSyncLock -----------------------------
EXTENDS SyncLockProofs
=============================================================================
