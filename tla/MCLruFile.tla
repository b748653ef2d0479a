------------------------------- MODULE MCLruFile -------------------------------
(* Old files for TLC. *)
EXTENDS LruFile

\* A file with a short block, one of whole blocks, one that is cut after its first
\* block and one that was changed.
SignedFiles == << <<1, 2, 3, 4, 5>>, <<5, 6, 7, 8>>, <<2, 3, 4, 5, 6>>, <<1, 2>> >>

CutAndChanged == [SignedFiles EXCEPT ![3] = <<2, 3, 4, 5>>, ![4] = <<9, 2>>]
=============================================================================
