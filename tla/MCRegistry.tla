----------------------------- MODULE MCRegistry -----------------------------
(* Registry with the paths of a proxy's manifest p1 and of its layer p2, and *)
(* with keys listed as the file tree sorts them: blobs/_uploads/             *)
(* first, then in the directory of a digest the ".pkr-" files, then the blob. *)
EXTENDS Registry, TLC

CONSTANTS b1, b2, c1, c2, p1, p2

MCBodies  == {b1, b2}
MCCalls   == {c1, c2}
MCDigests == {"d1", "d2"}
MCWanted  == [p \in Paths |-> IF p = p2 THEN "d2" ELSE NoRow]
NoLayers  == [p \in Paths |-> NoRow]
MCSha     == (b1 :> "d1") @@ (b2 :> "d2")

KeyOrder ==
  << UploadTmp(c1), UploadTmp(c2), UploadKey(c1), UploadKey(c2),
     BlobTmp(c1), BlobKey("d1"), BlobTmp(c2), BlobKey("d2") >>

MCKeyPos == [k \in Keys |-> CHOOSE i \in DOMAIN KeyOrder : KeyOrder[i] = k]
=============================================================================
