----------------------------- MODULE MCKeyCache -----------------------------
(* Validations by a few callers while keys are published and withdrawn.    *)
EXTENDS KeyCache
=============================================================================
