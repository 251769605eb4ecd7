---------------------------- MODULE MCRaftFiles ----------------------------
(***************************************************************************)
(* Small instances of RaftFiles.                                           *)
(***************************************************************************)
EXTENDS RaftFiles

=============================================================================
