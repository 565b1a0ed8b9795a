---------------------------- MODULE MCFilesystem ----------------------------
EXTENDS FsTree, MCValues
=============================================================================
