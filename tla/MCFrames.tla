------------------------------ MODULE MCFrames ------------------------------
(***************************************************************************)
(* A matrix of three rows and two pictures, with bits at both ends of each *)
(* of their bytes.                                                         *)
(***************************************************************************)
EXTENDS Frames

MCPictures ==
  {<<{0, 9, 10, 19}, {7, 8, 15, 16}, {}>>,
   <<{1, 2, 3, 4, 5, 6, 7, 17}, {}, {12, 18}>>}
=============================================================================
