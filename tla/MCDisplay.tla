------------------------------ MODULE MCDisplay ------------------------------
(* Display with two portrait sizes of frames and a landscape one.           *)
EXTENDS Display

MCVideos      == {<<4, 10>>, <<10, 4>>, <<4, 6>>}
MCScreen      == <<13, 11>>
MCFirstWindow == <<8, 6>>
=============================================================================
