------------------------------ MODULE MCTensor ------------------------------
(* A small instance of Tensor for TLC. *)
EXTENDS Tensor, TLC
MCShapes == {<<>>, <<0>>, <<1>>, <<1, 2>>, <<2, 1>>, <<2, 2>>, <<4>>}
BufferSymmetry == Permutations(Buffer)
=============================================================================
