-------------------------- MODULE MCEncodePipeline --------------------------
(* Instances of EncodePipeline for TLC.                                     *)
EXTENDS EncodePipeline, TLC

\* Encoders are interchangeable: no property names one.
EncoderSymmetry == Permutations(Encoders)
=============================================================================
