---------------------------- MODULE MCImplements ----------------------------
EXTENDS FsImplements, MCValues
=============================================================================
