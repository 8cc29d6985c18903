--------------------------- MODULE SubmissionsMC ---------------------------
(* Small instances of Submissions for TLC. *)
EXTENDS Submissions, TLC

CONSTANTS r1, r2, r3, w1, w2, k1

Ask(w, key, spam, raises) == [widget |-> w, key |-> key, spam |-> spam, raises |-> raises]
Visit == Ask(w1, k1, FALSE, "nowhere")
Three(a, b, c) == (r1 :> a) @@ (r2 :> b) @@ (r3 :> c)

Bot == Ask(w1, k1, TRUE, "nowhere")
NoKeyGiven == Ask(w1, NoKey, TRUE, "nowhere")
KeyEmpty == Ask(w1, EmptyKey, FALSE, "nowhere")

\* What comes together: one key three times, from visitors and bots; an empty
\* key, which only the index knows, beside none and beside a real one; the key
\* on another widget; and what raises at each step beside two of its key.
Scenarios ==
  {Three(Visit, Visit, Visit), Three(Visit, Visit, Bot), Three(Visit, Bot, Bot),
   Three(KeyEmpty, KeyEmpty, NoKeyGiven), Three(KeyEmpty, KeyEmpty, Visit),
   Three(Visit, Visit, Ask(w2, k1, FALSE, "nowhere"))}
    \cup {Three(Visit, Visit, Ask(w1, k1, FALSE, step)) : step \in {"getActive", "check", "insert"}}
=============================================================================
