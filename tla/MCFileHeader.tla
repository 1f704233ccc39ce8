---------------------------- MODULE MCFileHeader ----------------------------
(* FileHeader with two files on a small disk: two bytes per sector and    *)
(* two direct entries make MaxFileSize four bytes, so a file of up to     *)
(* nine bytes needs a chain of three headers and five data sectors.        *)
EXTENDS FileHeader

CONSTANTS f1, f2

MCFiles == {f1, f2}
=============================================================================
