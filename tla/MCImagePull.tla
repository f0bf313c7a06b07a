------------------------------ MODULE MCImagePull ------------------------------
(* Pull streams of up to four messages over three seconds.                  *)
EXTENDS ImagePull
==============================================================================
