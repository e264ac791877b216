----------------------------- MODULE MCLspRuntime -----------------------------
(* Small instances of LspRuntime, and what the documents say of it. *)
EXTENDS LspRuntime, TLC

CONSTANTS c1, c2, i1, i2

TwoCallers   == {c1, c2}
TwoIds       == {i1, i2}
OneId        == {i1}
NoIds        == {}
OwnIds       == c1 :> i1 @@ c2 :> i2
SharedId     == c1 :> i1 @@ c2 :> i1

\* "This enables safe multiplexing for many agents in one codebase"
\* (docs/src/guide/configuration-and-identity.md): a call returns its own answer.
AnswerIsOwn == \A c \in Callers : pc[c] = "answered" => answer[c] = c

================================================================================
