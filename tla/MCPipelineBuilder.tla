--------------------------- MODULE MCPipelineBuilder ---------------------------
(* Small instances of PipelineBuilder. *)
EXTENDS PipelineBuilder, TLC

CONSTANTS w1, w2, a, b, c

D(combo, big, scale) == [combo |-> combo, big |-> big, scale |-> scale]
M(sync, warm, fails) == [sync |-> sync, warm |-> warm, fails |-> fails]

\* Two records of one key, one that differs in the `big' bit and has no ucode,
\* one of a blacklisted shader.
AllDraws   == {D(a, TRUE, 1), D(a, TRUE, 2), D(b, FALSE, 1), D(c, TRUE, 1)}
JustC      == {c}
SomeNoUcode == {D(b, FALSE, 1)}
SafetyManifests == {{}, AllDraws}
SafetyModes == {M(FALSE, "auto", FALSE), M(TRUE, "only", FALSE)}

TwoDraws   == {D(a, TRUE, 1), D(b, TRUE, 1)}
Nothing    == {}
OneRecord  == {{}, {D(a, TRUE, 1)}}
KnownRecord == {{D(a, TRUE, 1)}}
RestartModes == {M(FALSE, "auto", FALSE), M(FALSE, "only", TRUE)}

PlainMode  == {M(FALSE, "off", FALSE)}
Symmetry   == Permutations({w1, w2})
=============================================================================
