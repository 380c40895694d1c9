---------------------------- MODULE MCHistory ----------------------------
(* History with posts close in time, in batches and pages of two.  A behaviour *)
(* is of both walks or of the import alone, so that the walks do not multiply: *)
(* where both walk, the newest post is not published, only one post is        *)
(* removed, and the import begins only where nothing failed, no publisher is  *)
(* configured and attempts are made.                                          *)
EXTENDS History

\* Posts 2 and 3 have one timestamp: a batch of 3 and 4 ends between them.  In
\* milliseconds of two units a page of 4 and 5 ends at 3, which is cut to 2, so that
\* posts 2 and 3 are not older than the cursor; a page of 3 and 4, or of 3 and 5,
\* ends between the posts of one timestamp.
MCPublished == <<0, 2, 2, 3, 3>>

VARIABLE scene

InitHistory ==
  /\ Init
  /\ scene \in {"walks", "import"}
  /\ scene = "import" => attempting /\ ~publisher

NextHistory ==
  /\ Next
  /\ \/ /\ scene = "walks"
        /\ posts' \subseteq 1..4 /\ posts \ posts' \subseteq {3}
        /\ reading' = "none" \/ (mishaps' = 0 /\ attempting /\ ~publisher)
     \/ /\ scene = "import"
        /\ stage' \in {"none", "granted"} /\ net' = {}
  /\ UNCHANGED scene

SpecHistory == InitHistory /\ [][NextHistory]_<<scene, vars>> /\ Fairness
=============================================================================
