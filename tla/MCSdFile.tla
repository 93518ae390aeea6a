------------------------------- MODULE MCSdFile -------------------------------
\* Instances of SdFile for TLC.  FILE_WRITE is the mode of the SD library.
EXTENDS SdFile, TLC
FileWrite == {"READ", "WRITE", "CREAT"}
MCModes == {FileWrite}
MoreModes == {FileWrite, {"READ"}, {"READ", "WRITE", "APPEND", "SYNC", "TRUNC"}}
Symmetry == Permutations(Names)
=============================================================================
