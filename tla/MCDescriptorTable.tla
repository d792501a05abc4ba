-------------------------- MODULE MCDescriptorTable --------------------------
(* Instantiates DescriptorTable with textures as model values. *)
EXTENDS DescriptorTable, TLC

CONSTANTS t1, t2, t3, t4, t5

TexSymmetry == Permutations(Texs)
=============================================================================
