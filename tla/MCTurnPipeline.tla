--------------------------- MODULE MCTurnPipeline ---------------------------
(***************************************************************************)
(* Small instances of TurnPipeline: three block types that exercise every  *)
(* rule (a character sheet that may appear once, a guide it suppresses, an *)
(* infrastructure block) and one plugin that may run once in a session.    *)
(***************************************************************************)
EXTENDS TurnPipeline, TLC

CONSTANTS w1, w2,               \* workers
          sheet, guide, state,  \* block types
          limited, free         \* plugins

OneWorker == {w1}

TwoWorkers == {w1, w2}

AllTypes == {sheet, guide, state}

TwoPlugins == {limited, free}

OnceEach == [p \in {limited} |-> 1]

NoLimit == <<>>

WorkerSymmetry == Permutations(TwoWorkers)
=============================================================================
