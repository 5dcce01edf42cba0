---------------------------- MODULE MCSyncTask ----------------------------
\* Instances of SyncTask for TLC: the downlinks SYS:OTA and SYS:NET,2, and one
\* that has no effect, as bytes.
EXTENDS SyncTask

McTexts == { <<79>>, <<78, 50>> }
OneText == { <<65>> }
=============================================================================
