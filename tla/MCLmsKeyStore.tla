---------------------------- MODULE MCLmsKeyStore ----------------------------
(* One key file under three names: its path, a symbolic link to it and a    *)
(* hard link, whose realpath is its own.                                     *)
EXTENDS LmsKeyStore

MCFileOf == [n \in Names |-> "k1"]
MCCanonicalOf == [n \in Names |-> IF n = "symlink" THEN "key" ELSE n]
==============================================================================
