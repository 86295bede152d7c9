----------------------------- MODULE MCYouTube -----------------------------
(* Instances of YouTube.  Nothing tells two proxies apart, and only safety  *)
(* is checked, so the proxies are symmetric.                                *)
EXTENDS YouTube, TLC

AnyOrder == Permutations(Proxies)

=============================================================================
