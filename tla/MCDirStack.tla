----------------------------- MODULE MCDirStack -----------------------------
(* Instances of DirStackApi: paths of up to three characters over {a, b}.  *)
EXTENDS DirStackApi, SequencesExt

MCInputs == BoundedSeq(Elem, 3)
=============================================================================
