---------------------------------- MODULE MCMixer ----------------------------------
(* Instances of Mixer for TLC: two sessions share a key, one has its own.   *)
EXTENDS Mixer, TLC

CONSTANTS a1, a2, b1, a, b

MCNameOf == a1 :> a @@ a2 :> a @@ b1 :> b

\* Profiles that trade the keys between two sliders and deej.unmapped.
MCMappings ==
  { 1 :> {a} @@ 2 :> {Unmapped}, 1 :> {b} @@ 2 :> {Unmapped}, 1 :> {a, b} @@ 2 :> {} }

\* One slider, with targets of its own and deej.unmapped.
MCOneSlider == { 1 :> {a, Unmapped}, 1 :> {b, Unmapped}, 1 :> {b} }

Symmetry == Permutations({a1, a2})
=============================================================================
