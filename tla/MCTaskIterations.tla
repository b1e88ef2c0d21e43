-------------------------- MODULE MCTaskIterations -------------------------
EXTENDS TaskIterations

CONSTANTS MaxCores,    \* bound on the cores of a loop
          MaxChunk,    \* bound on the chunk size
          Steps        \* the steps that are tried

CandidateLoops(technique, chunks, works) ==
  [ technique : {technique}, exitPredicate : Predicates, start : Values, exit : Values,
    step : Steps, cores : 1 .. MaxCores, chunk : chunks, headerWork : works ]

DOALLLoops == CandidateLoops("DOALL", 1 .. MaxChunk, BOOLEAN)
HELIXLoops == CandidateLoops("HELIX", {1}, {TRUE})

LoopsInRange == {l \in DOALLLoops \union HELIXLoops : InRange(l)}

\* Loops left when the IV equals a value, that do not wrap as signed numbers.
SignedEqualityLoops ==
  {l \in DOALLLoops : l.exitPredicate = "EQ" /\ Accepted(l) /\ FitsSigned(l)}

BothSteps == {-1, 2}
=============================================================================
