----------------------------- MODULE MCComposer -----------------------------
EXTENDS Composer

MCClicks == {"enabled", "inherit", "next-solo", "default"}

\* A cold host that has not loaded the session of a project with a default, and a
\* warm one with a one-shot waiting.
MCModes ==
  {[override |-> "inherit", next |-> "none", default |-> TRUE, ready |-> FALSE],
   [override |-> "disabled", next |-> "solo", default |-> FALSE, ready |-> TRUE]}
=============================================================================
