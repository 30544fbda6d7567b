--------------------------- MODULE MCPhotoLibrary ---------------------------
(* Small instances of PhotoLibrary for TLC. *)
EXTENDS PhotoLibrary, TLC

CONSTANTS pa, pb, pc, s1, s2, n1, n2, oa, ob, w1, w2

\* Two photos of the first upload and one of the second, whose name repeats.
ThreePhotosTwoUploads == pa :> s1 @@ pb :> s1 @@ pc :> s2
DistinctInUpload == [p \in Photos |-> IF p = pb THEN n2 ELSE n1]

\* Two files of one name picked for one upload, from two folders of a camera.
OneUpload == pa :> s1 @@ pb :> s1
SameName == pa :> n1 @@ pb :> n1

\* One order for a photo of each upload, and one for the repeated photo alone.
TwoCarts == oa :> {pa, pc} @@ ob :> {pc}
OneCart == oa :> {pa}

\* Requests are interchangeable.
Interchangeable == Permutations(Workers)
=============================================================================
