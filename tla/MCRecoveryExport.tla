-------------------------- MODULE MCRecoveryExport --------------------------
(***************************************************************************)
(* One torrent in a client for movies, that may come to be in one for      *)
(* shows, and exports beside the polls.                                    *)
(***************************************************************************)
EXTENDS RecoveryExport, TLC

CONSTANTS t1, c1, c2

MCScope == (c1 :> "movies") @@ (c2 :> "shows")

MCInit == XInit /\ qbit = (c1 :> {t1}) @@ (c2 :> {})

MCSpec == MCInit /\ [][XNext]_xvars /\ XFair
=============================================================================
