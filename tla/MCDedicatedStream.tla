--------------------------- MODULE MCDedicatedStream ---------------------------
(* What the documents say of the dedicated stream. *)
EXTENDS DedicatedStream

\* "Everything else is forwarded to the shared backend session"
\* (docs/src/guide/helix-integration.md, after the list of intercepted messages).
EverythingElseForwarded ==
    session = "up" /\ Alive =>
        InHand \ {0} = {n \in 1..typed \ Unread : kind[n] = "forwarded"}

================================================================================
