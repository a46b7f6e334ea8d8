---------------------------- MODULE MCUploadState -----------------------------
(* Instances of UploadState for TLC: two sessions that upload one video, as *)
(* after an upload that was started again; the second may name another      *)
(* video.                                                                   *)
EXTENDS UploadState, TLC
CONSTANTS h1, h2, s1, s2, v1, v2

OneVideo == s1 :> v1 @@ s2 :> v1
OtherVideo == s1 :> v1 @@ s2 :> v2

(* A patch of a field that saves write together with the confirmation, and *)
(* one that takes the confirmation back.                                   *)
SomePatches == {"storage_confirmed_at" :> "patched" @@ "status" :> "patched",
                "storage_confirmed_at" :> "null"}

Symmetry == Permutations({h1, h2})
=============================================================================
