--------------------------- MODULE MCSpelSender ---------------------------
(* Values for the constants of SpelSender that a cfg cannot write down. *)
EXTENDS SpelSender

\* Nothing, a word, and numbers: negative, in the range of uint8_t, above it, too large
\* for an int, which the cut brings into the range, and beyond a long on either side
Typed == {[form |-> "none"], [form |-> "word"]}
         \cup {[form |-> "number", value |-> n] : n \in {-1, 3, 4, 18, -33, 32}}
=============================================================================
