-------------------------------- MODULE Page --------------------------------
(* What the modules of the single pages share. *)
CONSTANT None      \* no answer, no data, nothing selected
=============================================================================
