----------------------------- MODULE MCArqClose -----------------------------
EXTENDS ArqClose

Load(up, down) == [e \in Ends |-> IF e = "client" THEN up ELSE down]
OneEitherWay == {Load(1, 0), Load(0, 1)}
OneEachWay == {Load(1, 1)}
=============================================================================
