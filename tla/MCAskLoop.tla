----------------------------- MODULE MCAskLoop -----------------------------
\* AskLoop with two questions, one utterance and one query.
EXTENDS AskLoop, TLC
AskSymmetry == Permutations(Asks)
=============================================================================
