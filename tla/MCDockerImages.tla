---------------------------- MODULE MCDockerImages --------------------------
(* Two manifests that share a layer, and two images of which one's name, as *)
(* a pattern, stands for the other's too.                                   *)
EXTENDS DockerImages, TLC

Plain == <<"a", "-", "b">>
Underscore == <<"a", "_", "b">>

TwoImages == {Plain, Underscore}

SharedLayer == "m1" :> {"l1", "l2"} @@ "m2" :> {"l2"}

Symmetric == Permutations(Pushers)
=============================================================================
