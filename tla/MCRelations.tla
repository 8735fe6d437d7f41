----------------------------- MODULE MCRelations -----------------------------
EXTENDS RelationsProperties, TLC
CONSTANTS r, a, b, c
Ring == (r :> <<a>> @@ a :> <<b, c>> @@ b :> <<a, r, c>> @@ c :> <<r>>)
=============================================================================
