----------------------------- MODULE MCDetector -----------------------------
EXTENDS Detector, TLC
CONSTANTS e1, e2, e3, temp, hum

MCLog == <<e1, e2, Malformed, e3>>
MCMetricOf == (e1 :> temp @@ e2 :> hum @@ e3 :> temp)
MCValue == (e1 :> 10 @@ e2 :> 13 @@ e3 :> -6)
=============================================================================
