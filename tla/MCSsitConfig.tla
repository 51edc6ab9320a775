---------------------------- MODULE MCSsitConfig ----------------------------
(* Two shapes of a slave PDI: a plain one, and one whose second partition   *)
(* starts with a chunk of hashes.                                            *)
EXTENDS SsitConfig

MCPartitions ==
    {<<[size |-> 2, top |-> 0], [size |-> 2, top |-> 0]>>,
     <<[size |-> 1, top |-> 0], [size |-> 3, top |-> 1]>>}
=============================================================================
