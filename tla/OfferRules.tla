----------------------------- MODULE OfferRules -----------------------------
(***************************************************************************)
(* The clock rules of one offer: whether it can be claimed now             *)
(* (isOfferAvailableNow), which status customers are shown                 *)
(* (getOfferStatus), and what the countdown service pushes to those who    *)
(* look at its venue (checkOfferCountdowns), while time passes, the offer  *)
(* is redeemed and its owner switches it off and on.                       *)
(*                                                                         *)
(* Time is in minutes; a time of day HH:MM is its minute of the day, whose *)
(* order is that of the padded strings the code compares.                  *)
(***************************************************************************)
EXTENDS Integers, FiniteSets

CONSTANTS
  DayMinutes,   \* minutes of a day
  WeekDays,     \* number of weekdays modelled
  NoTime,       \* a time that is null or ''
  NewOffers,    \* the offers to start from
  MaxGap        \* bound: most minutes from one countdown check to the next

Never == NoTime
Horizon == WeekDays * DayMinutes    \* bound of the model: one week
Instants == 0 .. Horizon - 1
TimesOfDay == 0 .. DayMinutes - 1
Days == 0 .. WeekDays - 1

Offer == [isActive : BOOLEAN, expiresAt : Instants \cup {Never},
          redemptionCount : Nat, maxRedemptions : Nat, isAvailableNow : BOOLEAN,
          validDays : SUBSET Days, validTimeStart : TimesOfDay \cup {NoTime},
          validTimeEnd : TimesOfDay \cup {NoTime}]

ASSUME RulesAssumption ==
  /\ DayMinutes \in Nat \ {0} /\ WeekDays \in Nat \ {0}
  /\ MaxGap \in Nat
  /\ NoTime \notin Instants
  /\ NewOffers \subseteq Offer

VARIABLES
  now,      \* the clock
  offer,    \* the stored offer
  gap,      \* minutes that have passed since checkOfferCountdowns ran
  pushed,   \* history: which of Watched were pushed since the day began
  settled   \* history: not switched on or off since today's window ended

ruleVars == <<now, offer, gap, pushed, settled>>

CurrentTime == now % DayMinutes
Today == now \div DayMinutes

(* A push is OFFER_COUNTDOWN with its remainingMinutes, or OFFER_EXPIRED as 0. *)
NoPush == -1
Watched == {0}     \* the pushes that the history keeps

RulesTypeOK ==
  /\ now \in Instants
  /\ offer \in Offer
  /\ gap \in 0 .. MaxGap
  /\ pushed \subseteq Watched
  /\ settled \in BOOLEAN

-----------------------------------------------------------------------------
(* isOfferAvailableNow *)

Expired(o) == o.expiresAt # Never /\ now > o.expiresAt
ValidToday(o) == o.validDays = {} \/ Today \in o.validDays

(* Variants named after a plausible slip in the definition that follows them
   serve to check that a property notices it. *)

ClosedAtEnd(start, end, t) ==
  IF start > end THEN t < start /\ t > end ELSE t < start \/ t >= end
OutsideWindow(start, end, t) ==
  IF start > end THEN t < start /\ t > end ELSE t < start \/ t > end

AvailableWhenFull(o) ==
  /\ o.isActive
  /\ ~Expired(o)
  /\ o.isAvailableNow \/ ValidToday(o)
AvailableNow(o) ==
  /\ o.isActive
  /\ ~Expired(o)
  /\ ~(o.maxRedemptions > 0 /\ o.redemptionCount >= o.maxRedemptions)
  /\ \/ o.isAvailableNow
     \/ /\ ValidToday(o)
        /\ NoTime \notin {o.validTimeStart, o.validTimeEnd} =>
             ~OutsideWindow(o.validTimeStart, o.validTimeEnd, CurrentTime)

(* getOfferStatus: the first rule that applies *)
Full(o) == o.redemptionCount >= o.maxRedemptions
BeforeStartAnyDay(o) == o.validTimeStart # NoTime /\ CurrentTime < o.validTimeStart
BeforeStart(o) ==
  o.validTimeStart # NoTime /\ ValidToday(o) /\ CurrentTime < o.validTimeStart

OfferStatus(o) ==
  IF ~o.isActive THEN "inactive"
  ELSE IF Expired(o) \/ Full(o) THEN "expired"
  ELSE IF BeforeStart(o) THEN "upcoming"
  ELSE IF AvailableNow(o) THEN "active" ELSE "inactive"

-----------------------------------------------------------------------------
(* checkOfferCountdowns for this offer: the push for a number of minutes   *)
(* before validTimeEnd. The weekday, expiresAt and the counts play no role. *)

ExpiredOnce(remaining) ==
  IF remaining \in {30, 15} \cup 1 .. 5 THEN remaining
  ELSE IF remaining = 0 THEN 0 ELSE NoPush
PushFor(remaining) ==
  IF remaining \in {30, 15} \cup 1 .. 5 THEN remaining
  ELSE IF remaining \in {0, -1} THEN 0 ELSE NoPush

Push ==
  IF offer.isActive /\ offer.validTimeEnd # NoTime
    THEN PushFor(offer.validTimeEnd - CurrentTime) ELSE NoPush

CheckCountdowns ==
  /\ pushed' = pushed \cup ({Push} \cap Watched)
  /\ gap' = 0
  /\ UNCHANGED <<now, offer, settled>>

(* A minute passes. The interval fires about once a minute, but reads the clock
   only after its query has answered, so a minute may go by unchecked. *)
Minute ==
  /\ now + 1 < Horizon
  /\ gap < MaxGap
  /\ now' = now + 1
  /\ gap' = gap + 1
  /\ pushed' = IF CurrentTime' = 0 THEN {} ELSE pushed
  /\ settled' = CASE CurrentTime' = offer.validTimeEnd -> TRUE
                  [] CurrentTime' = 0 /\ offer.validTimeEnd # 0 -> FALSE
                  [] OTHER -> settled
  /\ UNCHANGED offer

Toggle ==
  /\ offer' = [offer EXCEPT !.isActive = ~@]
  /\ settled' = FALSE
  /\ UNCHANGED <<now, gap, pushed>>

(* redeemOffer does not ask whether the offer is available: the voucher may be
   from any earlier time. Bounded by one above the cap. *)
Redeem ==
  /\ offer.redemptionCount <= offer.maxRedemptions
  /\ offer' = [offer EXCEPT !.redemptionCount = @ + 1]
  /\ UNCHANGED <<now, gap, pushed, settled>>

RulesInit ==
  /\ now = 0
  /\ offer \in NewOffers
  /\ gap = 0
  /\ pushed = {}
  /\ settled = FALSE

RulesNext == Minute \/ CheckCountdowns \/ Toggle \/ Redeem

RulesSpec == RulesInit /\ [][RulesNext]_ruleVars

(* Time passes and the interval goes on firing. *)
FairSpec == RulesSpec /\ WF_ruleVars(Minute) /\ WF_ruleVars(CheckCountdowns)

-----------------------------------------------------------------------------
(* Properties *)

(* Without an edit or a redemption an offer opens and closes only where its *)
(* schedule says: at the start of its window, in the minute after the end   *)
(* (the end itself still counts), at midnight, or once it has expired.      *)
OpensAndClosesOnSchedule ==
  [][(offer' = offer /\ AvailableNow(offer)' # AvailableNow(offer)) =>
       \/ CurrentTime' \in {0, offer.validTimeStart}
       \/ offer.validTimeEnd # NoTime /\ CurrentTime' = offer.validTimeEnd + 1
       \/ offer.expiresAt # Never /\ now' = offer.expiresAt + 1]_ruleVars

(* An offer shown as upcoming opens, unless it runs out or is switched off  *)
(* first: nobody is told to wait for an offer that does not come.           *)
UpcomingOpens ==
  OfferStatus(offer) = "upcoming" ~>
    (AvailableNow(offer) \/ OfferStatus(offer) = "expired" \/ ~offer.isActive)

(* OFFER_EXPIRED reaches the viewers although single checks are missed: two *)
(* minutes after the end of the window of an offer that was on, it has been *)
(* pushed that day. (A window that ends in the last minute has no two       *)
(* minutes left, and there the push may be lost.)                           *)
EndIsPushed ==
  (offer.isActive /\ settled /\ CurrentTime >= offer.validTimeEnd + 2) => 0 \in pushed

(* isOfferAvailableNow and getOfferStatus judge an offer by rules of their  *)
(* own. What can be claimed is shown as active, except before the start of  *)
(* its window (where an override, or the hours after midnight of an         *)
(* overnight window, let it be claimed) and without a limit (which          *)
(* getOfferStatus takes for full).                                          *)
StatusAgrees ==
  AvailableNow(offer) =>
    (OfferStatus(offer) = "active" \/ BeforeStart(offer) \/ offer.maxRedemptions = 0)
=============================================================================
