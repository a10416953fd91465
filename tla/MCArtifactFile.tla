--------------------------- MODULE MCArtifactFile ---------------------------
(***************************************************************************)
(* ArtifactFile on five blobs: an empty one, two small ones, one as large  *)
(* as a frame and one larger than a frame and the window.                  *)
(***************************************************************************)
EXTENDS ArtifactFile

TheSizes == <<1, 0, 1, 2, 4>>

(* Blobs in an order of paths that is not that of the atoms, nor of ids.   *)
TheIrs ==
    {<<3 :> 1 @@ 2 :> 3>>,
     <<1 :> 4 @@ 3 :> 1, 2 :> 2 @@ 4 :> 3 @@ 1 :> 0>>,
     <<1 :> 3 @@ 4 :> 4, 2 :> 5, 3 :> 1 @@ 1 :> 3>>}
=============================================================================
