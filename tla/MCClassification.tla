------------------------- MODULE MCClassification -------------------------
EXTENDS Classification
(* The phrases zfs and zpool begin a message with before they give a cause. *)
MCAttempts == {"cannot mount", "cannot unmount", "cannot share",
               "cannot unshare", "cannot receive", "cannot open: no such"}
=============================================================================
