---------------------------- MODULE MCOfferRules ----------------------------
(* Instances of OfferRules for TLC: a day of 40 minutes, long enough for the *)
(* thresholds 30, 15 and 5, and a week of two days.                          *)
EXTENDS OfferRules

CONSTANTS Caps, Starts, Ends, Overrides

MCNewOffers ==
  [isActive : {TRUE}, expiresAt : {Never, 50}, redemptionCount : {0},
   maxRedemptions : Caps, isAvailableNow : Overrides,
   validDays : {{}, {0}, {1}}, validTimeStart : Starts, validTimeEnd : Ends]
=============================================================================
