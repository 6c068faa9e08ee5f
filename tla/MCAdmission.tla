----------------------------- MODULE MCAdmission -----------------------------
EXTENDS Admission

CONSTANTS h1, t1

MCHook == {h1}
MCTool == {t1}
MCNone == {}
MCTriggers == {"guaranteed", "model-tool", "manual"}
MCGuaranteed == {"guaranteed"}
=============================================================================
