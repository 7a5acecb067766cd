-------------------------- MODULE MCSkynetServer ---------------------------
EXTENDS SkynetServer, TLC

CONSTANTS w1, w2, x1, a, b, c

WeightsBase  == (w1 :> -1 @@ w2 :> 0)
=============================================================================
