----------------------------- MODULE MCLifespan -----------------------------
(* Three of the added columns, the last of them without an index.            *)
EXTENDS Lifespan

MCAdded == <<"parser_clean", "last_yt_at", "yt_fail_streak">>
MCIndexes == <<[name |-> "carousel", over |-> "last_check_at"],
               [name |-> "yt", over |-> "last_yt_at"]>>

=============================================================================
