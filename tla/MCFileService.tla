--------------------------- MODULE MCFileService ---------------------------
(***************************************************************************)
(* Small instances of FileService.                                         *)
(***************************************************************************)
EXTENDS FileService

=============================================================================
