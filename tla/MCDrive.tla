------------------------------ MODULE MCDrive ------------------------------
(***************************************************************************)
(* Drive with 0 to 5 for u32.  The drives: an empty one, an ordinary one,  *)
(* one so large that the last command can take the offset past the largest *)
(* u32, two whose size does not fit (of one it reads as zero, of the other *)
(* as a part), and one that erases itself.                                 *)
(***************************************************************************)
EXTENDS Drive

Geometry(blocks, size, whole) ==
    [num_write_blocks |-> blocks, write_block_size |-> size, erase_device |-> whole]

MCGeometries ==
    {Geometry(0, 2, FALSE), Geometry(2, 2, FALSE), Geometry(5, 1, FALSE),
     Geometry(3, 2, FALSE), Geometry(4, 2, FALSE), Geometry(2, 2, TRUE)}

=============================================================================
