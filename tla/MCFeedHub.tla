---- MODULE MCFeedHub ----
(* Instances of FeedHub for TLC. *)
EXTENDS FeedHub

CONSTANT c1

\* Over, now, ahead, and two whose nanoseconds do not fit: one wraps around to
\* the past, one to a shorter time.
MCLifetimes == {-1, 0, 3, 4, 9}
====
