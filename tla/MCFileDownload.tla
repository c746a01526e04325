--------------------------- MODULE MCFileDownload ---------------------------
(* FileDownload with files of three or four bytes. *)
EXTENDS FileDownload

(* The second version is longer, the third as long as the first. *)
UpAndDown == [v \in Versions |-> IF v = 2 THEN 4 ELSE 3]
=============================================================================
