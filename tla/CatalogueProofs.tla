--------------------------- MODULE CatalogueProofs ---------------------------
(***************************************************************************)
(* Proofs about Seeding, for any number of servers and of ends, and about  *)
(* Catalogue, for any number of servers, owners, venues and requests.      *)
(*                                                                         *)
(* SeededOnce: the address of the administrator, which nothing removes,    *)
(* lets one server past its save. ServesWhole: behind a server that        *)
(* listens is a seeding that ended, unless one is under way or was cut.    *)
(* RemovedForGood: the owners' own requests keep it by what they hold in   *)
(* memory, for a request about a removed venue that names no owner found   *)
(* none; the seed keeps it because its saves of venues and owners happen   *)
(* once, and no removal of a seeded venue counts before the second one.    *)
(* PagesCover: what a visitor was shown are the venues ranked before the    *)
(* page that comes next.                                                   *)
(***************************************************************************)
EXTENDS Catalogue, FiniteSetTheorems, TLAPS

-----------------------------------------------------------------------------
(* The servers *)

AdminAt == 2
Past(s) == server[s] \in AdminAt + 1 .. Len(SeedOrder)
AfterAdmin == AdminAt + 1 .. Len(SeedOrder)

(* No two servers are past the save of the administrator. *)
OnePasses == \A r, s \in Servers : Past(r) /\ Past(s) => r = s

(* One that is past it has stored the address, and nothing yet of the saves *)
(* it has before it. *)
PassedOnce == \A s \in Servers : Past(s) =>
  copies["admin"] = 1 /\ \A i \in server[s] .. Len(SeedOrder) : copies[SeedOrder[i]] = 0

(* Without the administrator nothing that follows it is stored. *)
AdminFirst == copies["admin"] = 0 =>
  \A i \in AfterAdmin : copies[SeedOrder[i]] = 0

IInv == SeedTypeOK /\ SeededOnce /\ OnePasses /\ PassedOnce /\ AdminFirst

-----------------------------------------------------------------------------
(* The order of the saves, as facts about indices. *)
LEMMA OrderFacts ==
  /\ Len(SeedOrder) = 11
  /\ SeedOrder[1] = "tags"
  /\ SeedOrder[AdminAt] = "admin"
  /\ Saves = {SeedOrder[i] : i \in 1 .. 11}
  /\ \A i, j \in 1 .. 11 : SeedOrder[i] = SeedOrder[j] => i = j
PROOF
  <1>1. Len(SeedOrder) = 11
    BY DEF SeedOrder
  <1>2. SeedOrder[1] = "tags" /\ SeedOrder[AdminAt] = "admin"
    BY DEF SeedOrder, AdminAt
  <1>3. \A i, j \in 1 .. 11 : SeedOrder[i] = SeedOrder[j] => i = j
    BY SMTT(60) DEF SeedOrder
  <1> QED
    BY <1>1, <1>2, <1>3 DEF Saves

(* What one save does, of whatever rows. *)
LEMMA SaveKeeps ==
  ASSUME IInv, NEW s \in Servers, NEW t \in Saves, Save(s, t)
  PROVE  IInv'
PROOF
  <1> DEFINE n == server[s]
  <1> USE OrderFacts, SeedingAssumption
  <1>1. /\ n \in 1 .. 11 /\ t = SeedOrder[n] /\ Len(SeedOrder) = 11
        /\ server \in [Servers -> Counting .. Up] /\ copies \in [Saves -> 0 .. MaxCopies]
        /\ MaxCopies \in Nat \ {0} /\ Up = 12 /\ Counting = -1 /\ Down = 0 /\ AdminAt = 2
        /\ ends' = ends /\ ends \in 0 .. MaxEnds
    BY DEF IInv, SeedTypeOK, Save, Seeding, Up, Counting, Down, AdminAt
  <1>2. CASE Refused(t)
    <2>1. server' = [server EXCEPT ![s] = 0] /\ copies' = copies /\ cut' \in BOOLEAN
      BY <1>1, <1>2 DEF Save, AfterFailure, IInv, SeedTypeOK
    <2>2. SeedTypeOK' /\ SeededOnce' /\ AdminFirst'
      BY <1>1, <2>1 DEF IInv, SeedTypeOK, SeededOnce, AdminFirst
    <2>3. \A r \in Servers : Past(r)' => Past(r) /\ server'[r] = server[r]
      BY <1>1, <2>1 DEF Past
    <2> QED
      BY <2>1, <2>2, <2>3 DEF IInv, OnePasses, PassedOnce
  <1>3. CASE ~Refused(t)
    <2>1. /\ server' = [server EXCEPT ![s] = n + 1]
          /\ copies' = [copies EXCEPT ![t] = IF @ < MaxCopies THEN @ + 1 ELSE @]
          /\ cut' = cut
      BY <1>3 DEF Save
    <2>2. SeedTypeOK'
      BY <1>1, <2>1 DEF IInv, SeedTypeOK
    <2>3. CASE n = 1
      <3>1. t = "tags" /\ \A u \in Saves \ {"tags"} : copies'[u] = copies[u]
        BY <1>1, <2>1, <2>3
      <3>2. \A i \in 2 .. 11 : SeedOrder[i] \in Saves \ {"tags"}
        BY <1>1
      <3>3. \A r \in Servers : Past(r)' => Past(r) /\ server'[r] = server[r]
        BY <1>1, <2>1, <2>3 DEF Past
      <3>4. \A i \in 2 .. 11 : copies'[SeedOrder[i]] = copies[SeedOrder[i]]
        BY <3>1, <3>2
      <3>5. copies'["admin"] = copies["admin"]
        BY <1>1, <3>4
      <3>6. SeededOnce'
        BY <3>1 DEF IInv, SeededOnce
      <3>7. OnePasses'
        BY <3>3 DEF IInv, OnePasses
      <3>8. AdminFirst'
        BY <1>1, <3>4, <3>5 DEF IInv, AdminFirst, AfterAdmin
      <3>9. PassedOnce'
        <4> SUFFICES ASSUME NEW r \in Servers, Past(r)'
                     PROVE  /\ copies'["admin"] = 1
                            /\ \A i \in server'[r] .. 11 : copies'[SeedOrder[i]] = 0
          BY <1>1 DEF PassedOnce
        <4>1. Past(r) /\ server'[r] = server[r] /\ server[r] \in 3 .. 11
          BY <1>1, <3>3 DEF Past
        <4>2. copies["admin"] = 1 /\ \A i \in server[r] .. 11 : copies[SeedOrder[i]] = 0
          BY <1>1, <4>1 DEF IInv, PassedOnce
        <4> QED
          BY <3>4, <3>5, <4>1, <4>2
      <3> QED
        BY <2>2, <3>6, <3>7, <3>8, <3>9 DEF IInv
    <2>4. CASE n = 2
      <3>1. t = "admin" /\ copies["admin"] = 0
        BY <1>1, <1>3, <2>4 DEF Refused, UniqueEmail
      <3>2. copies'["admin"] = 1 /\ \A u \in Saves \ {"admin"} : copies'[u] = copies[u]
        BY <1>1, <2>1, <3>1
      <3>3. \A i \in 3 .. 11 : SeedOrder[i] \in Saves \ {"admin"} /\ copies'[SeedOrder[i]] = 0
        <4>1. \A i \in 3 .. 11 : copies[SeedOrder[i]] = 0
          BY <1>1, <3>1 DEF IInv, AdminFirst, AfterAdmin
        <4>2. \A i \in 3 .. 11 : SeedOrder[i] \in Saves \ {"admin"}
          BY <1>1
        <4> QED
          BY <3>2, <4>1, <4>2
      <3>4. \A r \in Servers : ~Past(r)
        BY <3>1 DEF IInv, PassedOnce
      <3>5. \A r \in Servers : Past(r)' => r = s /\ server'[r] = 3
        BY <1>1, <2>1, <2>4, <3>4 DEF Past
      <3>6. SeededOnce'
        BY <1>1, <3>2 DEF IInv, SeededOnce
      <3> QED
        BY <1>1, <2>2, <3>2, <3>3, <3>5, <3>6 DEF IInv, OnePasses, PassedOnce, AdminFirst
    <2>5. CASE n \in 3 .. 11
      <3>1. Past(s) /\ copies["admin"] = 1 /\ copies[t] = 0 /\ t # "admin"
        BY <1>1, <2>5 DEF IInv, PassedOnce, Past
      <3>2. copies'[t] = 1 /\ \A u \in Saves \ {t} : copies'[u] = copies[u]
        BY <1>1, <2>1, <3>1
      <3>3. copies'["admin"] = 1
        BY <1>1, <3>1, <3>2
      <3>4. \A r \in Servers : Past(r)' => r = s
        BY <1>1, <2>1, <3>1 DEF IInv, OnePasses, Past
      <3>5. \A i \in n + 1 .. 11 : SeedOrder[i] \in Saves \ {t} /\ copies[SeedOrder[i]] = 0
        BY <1>1, <3>1 DEF IInv, PassedOnce
      <3>6. PassedOnce'
        BY <1>1, <2>1, <3>2, <3>3, <3>4, <3>5 DEF PassedOnce
      <3>7. SeededOnce'
        BY <1>1, <3>2 DEF IInv, SeededOnce
      <3> QED
        BY <2>2, <3>3, <3>4, <3>6, <3>7 DEF IInv, OnePasses, AdminFirst
    <2> QED
      BY <1>1, <2>3, <2>4, <2>5
  <1> QED
    BY <1>2, <1>3

(* Starting, counting and ending store nothing and put no server past the    *)
(* save of the administrator.                                                *)
LEMMA OthersKeep ==
  ASSUME IInv, NEW s \in Servers, Start(s) \/ CountVenues(s) \/ ServerEnds(s)
  PROVE  IInv'
PROOF
  <1> USE OrderFacts, SeedingAssumption
  <1>1. /\ copies' = copies
        /\ \E n \in {Counting, Down, 1, Up} : server' = [server EXCEPT ![s] = n]
        /\ cut' \in BOOLEAN /\ ends' \in 0 .. MaxEnds
    <2>1. CASE Start(s)
      BY <2>1 DEF IInv, SeedTypeOK, Start
    <2>2. CASE CountVenues(s)
      BY <2>2 DEF IInv, SeedTypeOK, CountVenues
    <2>3. CASE ServerEnds(s)
      <3>1. copies' = copies /\ server' = [server EXCEPT ![s] = Down]
        BY <2>3 DEF ServerEnds
      <3>2. cut' \in BOOLEAN
        BY <2>3 DEF ServerEnds
      <3>3. ends' \in 0 .. MaxEnds
        BY <2>3 DEF ServerEnds, IInv, SeedTypeOK
      <3> QED
        BY <3>1, <3>2, <3>3
    <2> QED
      BY <2>1, <2>2, <2>3
  <1>2. SeedTypeOK' /\ SeededOnce' /\ AdminFirst'
    BY <1>1 DEF IInv, SeedTypeOK, SeededOnce, AdminFirst, Counting, Down, Up
  <1>3. \A r \in Servers : Past(r)' => Past(r) /\ server'[r] = server[r]
    BY <1>1 DEF IInv, SeedTypeOK, Past, Counting, Down, Up, AdminAt
  <1> QED
    BY <1>1, <1>2, <1>3 DEF IInv, OnePasses, PassedOnce

LEMMA NextKeeps ==
  ASSUME IInv, [SeedNext]_seedVars
  PROVE  IInv'
PROOF
  <1>1. CASE UNCHANGED seedVars
    BY <1>1 DEF seedVars, IInv, SeedTypeOK, SeededOnce, OnePasses, PassedOnce, AdminFirst, Past
  <1>2. ASSUME NEW s \in Servers, SeedSave(s) PROVE IInv'
    <2>1. \E t \in Saves : Save(s, t)
      <3>1. \A t : Save(s, t) => t \in Saves
        BY DEF Save, Saves, Seeding
      <3> QED
        BY <1>2, <3>1 DEF SeedSave, SeedTags, SeedAdminUser, SeedDemoUser, SeedVenues, SeedBusyness,
           SeedVibes, SeedOffers, SeedNotifications, SeedAnalytics, SeedBusinessUsers
    <2> QED
      BY <2>1, SaveKeeps
  <1> QED
    BY <1>1, <1>2, OthersKeep DEF SeedNext

LEMMA SeedingStarts == SeedInit => IInv
PROOF
  <1> SUFFICES ASSUME SeedInit PROVE IInv
    OBVIOUS
  <1>1. SeedTypeOK
    <2>1. server \in [Servers -> Counting .. Up]
      <3>1. 0 \in Counting .. Up
        BY OrderFacts DEF Counting, Up
      <3> QED
        BY <3>1 DEF SeedInit, Down
    <2>2. copies \in [Saves -> 0 .. MaxCopies] /\ ends \in 0 .. MaxEnds
      BY SeedingAssumption DEF SeedInit
    <2>3. cut \in BOOLEAN
      BY DEF SeedInit
    <2> QED
      BY <2>1, <2>2, <2>3 DEF SeedTypeOK
  <1>2. \A r \in Servers : ~Past(r)
    BY OrderFacts DEF SeedInit, Past, Down, AdminAt
  <1>3. SeededOnce
    BY DEF SeedInit, SeededOnce
  <1>4. AdminFirst
    <2>1. \A i \in AfterAdmin : SeedOrder[i] \in Saves
      BY OrderFacts DEF AfterAdmin, AdminAt
    <2> QED
      BY <2>1 DEF SeedInit, AdminFirst
  <1> QED
    BY <1>1, <1>2, <1>3, <1>4 DEF IInv, OnePasses, PassedOnce

(* However many servers start, are killed and start again in any order, no    *)
(* save of the seed but the tags is stored twice (seed() of seed.service.ts). *)
THEOREM NothingSeededTwice == SeedSpec => []SeededOnce
PROOF
  <1>1. SeedInit => IInv
    BY SeedingStarts
  <1>2. IInv /\ [SeedNext]_seedVars => IInv'
    BY NextKeeps
  <1>3. IInv => SeededOnce
    BY DEF IInv
  <1> QED
    BY <1>1, <1>2, <1>3, PTL DEF SeedSpec
-----------------------------------------------------------------------------
(* ServesWhole. A server that listens has seen venues, and once there are    *)
(* venues either a seeding is under way behind them or it came to its end.   *)

(* A seeding has stored all that its order puts before the save it is at. *)
Behind == \A s \in Servers : Seeding(s) =>
  \A i \in 1 .. 11 : i < server[s] => copies[SeedOrder[i]] > 0

UpHasVenues == \A s \in Servers : server[s] = Up => copies["venues"] > 0

UnderWay == \E s \in Servers : server[s] \in 5 .. 11
Whole == \A t \in Saves : copies[t] > 0
EndsWhole == copies["venues"] > 0 /\ ~cut => UnderWay \/ Whole

WholeInv == Behind /\ UpHasVenues /\ EndsWhole

LEMMA VenuesIsFourth ==
  /\ SeedOrder[4] = "venues" /\ VenuesAt = 4 /\ "venues" \in Saves
  /\ Up = 12 /\ Counting = -1 /\ Down = 0 /\ Down # Up /\ 1 # Up /\ Counting # Up
PROOF
  <1>1. SeedOrder[4] = "venues" /\ 4 \in 1 .. Len(SeedOrder)
    BY OrderFacts DEF SeedOrder
  <1>2. \A i \in 1 .. Len(SeedOrder) : SeedOrder[i] = "venues" => i = 4
    BY <1>1, OrderFacts
  <1>3. VenuesAt = 4
    BY <1>1, <1>2 DEF VenuesAt
  <1>4. Up = 12 /\ Counting = -1 /\ Down = 0
    BY OrderFacts DEF Up, Counting, Down
  <1> QED
    BY <1>1, <1>3, <1>4, OrderFacts

(* A save that is stored takes its seeding one save on; the last one leaves   *)
(* the whole catalogue, the one of the venues a seeding under way.            *)
LEMMA StoredWhole ==
  ASSUME IInv, WholeInv, NEW s \in Servers, NEW t \in Saves, Save(s, t), ~Refused(t)
  PROVE  WholeInv'
PROOF
  <1> DEFINE n == server[s]
  <1> USE OrderFacts, VenuesIsFourth, SeedingAssumption
  <1>1. /\ n \in 1 .. 11 /\ t = SeedOrder[n]
        /\ server \in [Servers -> -1 .. 12] /\ copies \in [Saves -> 0 .. MaxCopies]
        /\ server' = [server EXCEPT ![s] = n + 1]
        /\ copies' = [copies EXCEPT ![t] = IF @ < MaxCopies THEN @ + 1 ELSE @]
        /\ cut' = cut
    BY DEF IInv, SeedTypeOK, Save, Seeding
  <1>2. copies'[t] > 0 /\ \A u \in Saves : copies[u] > 0 => copies'[u] > 0
    BY <1>1
  <1>3. /\ server'[s] = n + 1
        /\ \A r \in Servers \ {s} : server'[r] = server[r]
    BY <1>1
  <1>4. \A i \in 1 .. 11 : SeedOrder[i] \in Saves
    OBVIOUS
  <1> HIDE DEF n
  <1>5. \A i \in 1 .. 11 : i < n + 1 => copies'[SeedOrder[i]] > 0
    <2> SUFFICES ASSUME NEW i \in 1 .. 11, i < n + 1 PROVE copies'[SeedOrder[i]] > 0
      OBVIOUS
    <2>1. CASE i = n
      BY <1>1, <1>2, <2>1
    <2>2. CASE i < n
      BY <1>1, <1>2, <1>4, <2>2 DEF WholeInv, Behind, Seeding, n
    <2> QED
      BY <1>1, <2>1, <2>2
  <1>6. Behind'
    <2> SUFFICES ASSUME NEW r \in Servers, server'[r] \in 1 .. 11,
                        NEW i \in 1 .. 11, i < server'[r]
                 PROVE  copies'[SeedOrder[i]] > 0
      BY DEF Behind, Seeding
    <2>1. CASE r = s
      BY <1>3, <1>5, <2>1
    <2>2. CASE r # s
      BY <1>2, <1>3, <1>4, <2>2 DEF WholeInv, Behind, Seeding
    <2> QED
      BY <2>1, <2>2
  <1>7. n = 11 => Whole'
    <2> SUFFICES ASSUME n = 11, NEW u \in Saves PROVE copies'[u] > 0
      BY DEF Whole
    <2>1. PICK i \in 1 .. 11 : u = SeedOrder[i]
      OBVIOUS
    <2> QED
      BY <1>5, <2>1
  <1>8. UpHasVenues'
    <2> SUFFICES ASSUME NEW r \in Servers, server'[r] = 12 PROVE copies'["venues"] > 0
      BY DEF UpHasVenues
    <2>1. CASE r = s
      BY <1>1, <1>3, <1>7, <2>1 DEF Whole
    <2>2. CASE r # s
      BY <1>2, <1>3, <2>2 DEF WholeInv, UpHasVenues
    <2> QED
      BY <2>1, <2>2
  <1>9. EndsWhole'
    <2> SUFFICES ASSUME copies'["venues"] > 0, ~cut' PROVE UnderWay' \/ Whole'
      BY DEF EndsWhole
    <2>1. CASE n = 11
      BY <1>7, <2>1
    <2>2. CASE n \in 4 .. 10
      BY <1>1, <1>3, <2>2 DEF UnderWay
    <2>3. CASE n \in 1 .. 3
      <3>1. t # "venues"
        BY <1>1, <2>3
      <3>2. copies["venues"] > 0 /\ ~cut
        BY <1>1, <3>1
      <3>3. CASE Whole
        BY <1>2, <3>3 DEF Whole
      <3>4. CASE UnderWay
        <4>1. PICK r \in Servers : server[r] \in 5 .. 11
          BY <3>4 DEF UnderWay
        <4>2. r # s
          BY <2>3, <4>1 DEF n
        <4> QED
          BY <1>3, <4>1, <4>2 DEF UnderWay
      <3> QED
        BY <3>2, <3>3, <3>4 DEF WholeInv, EndsWhole
    <2> QED
      BY <1>1, <2>1, <2>2, <2>3
  <1> QED
    BY <1>6, <1>8, <1>9 DEF WholeInv

(* A step that stores nothing: a server moves to a place outside of the saves *)
(* or to their beginning, and one that leaves the saves behind the venues is  *)
(* noted as cut.                                                             *)
LEMMA MovedWhole ==
  ASSUME IInv, WholeInv, NEW s \in Servers, NEW n \in {Counting, Down, 1, Up},
         server' = [server EXCEPT ![s] = n], copies' = copies,
         n = Up => copies["venues"] > 0,
         cut' = (cut \/ server[s] \in 5 .. 11)
  PROVE  WholeInv'
PROOF
  <1> USE OrderFacts, VenuesIsFourth
  <1>1. /\ server \in [Servers -> -1 .. 12] /\ server'[s] = n
        /\ \A r \in Servers \ {s} : server'[r] = server[r]
    BY DEF IInv, SeedTypeOK
  <1>2. Behind'
    <2> SUFFICES ASSUME NEW r \in Servers, server'[r] \in 1 .. 11,
                        NEW i \in 1 .. 11, i < server'[r]
                 PROVE  copies[SeedOrder[i]] > 0
      BY DEF Behind, Seeding
    <2>1. r # s
      BY <1>1
    <2> QED
      BY <1>1, <2>1 DEF WholeInv, Behind, Seeding
  <1>3. UpHasVenues'
    BY <1>1 DEF WholeInv, UpHasVenues
  <1>4. EndsWhole'
    <2> SUFFICES ASSUME copies["venues"] > 0, ~cut' PROVE UnderWay' \/ Whole'
      BY DEF EndsWhole
    <2>1. UnderWay \/ Whole
      BY DEF WholeInv, EndsWhole
    <2>2. CASE Whole
      BY <2>2 DEF Whole
    <2>3. CASE UnderWay
      <3>1. PICK r \in Servers : server[r] \in 5 .. 11
        BY <2>3 DEF UnderWay
      <3> QED
        BY <1>1, <3>1 DEF UnderWay
    <2> QED
      BY <2>1, <2>2, <2>3
  <1> QED
    BY <1>2, <1>3, <1>4 DEF WholeInv

LEMMA NextKeepsWhole ==
  ASSUME IInv, WholeInv, [SeedNext]_seedVars
  PROVE  WholeInv'
PROOF
  <1> USE OrderFacts, VenuesIsFourth
  <1>1. CASE UNCHANGED seedVars
    BY <1>1 DEF seedVars, WholeInv, Behind, UpHasVenues, EndsWhole, UnderWay, Whole, Seeding
  <1>2. server \in [Servers -> -1 .. 12] /\ copies \in [Saves -> 0 .. MaxCopies] /\ MaxCopies \in Nat
        /\ cut \in BOOLEAN
    BY SeedingAssumption DEF IInv, SeedTypeOK
  <1>2a. ASSUME NEW s \in Servers, NEW n \in {Counting, Down, 1}, server' = [server EXCEPT ![s] = n],
               copies' = copies, cut' = (cut \/ server[s] \in 5 .. 11)
        PROVE  WholeInv'
    BY <1>2a, MovedWhole
  <1>3. ASSUME NEW s \in Servers, NEW t \in Saves, Save(s, t) PROVE WholeInv'
    <2>1. CASE Refused(t)
      <3>1. server' = [server EXCEPT ![s] = Down] /\ copies' = copies
            /\ cut' = (cut \/ server[s] \in 5 .. 11)
        BY <1>2, <1>3, <2>1 DEF Save, AfterFailure, Seeding
      <3> QED
        BY <3>1, <1>2a
    <2> QED
      BY <1>3, <2>1, StoredWhole
  <1>4. ASSUME NEW s \in Servers, SeedSave(s) PROVE WholeInv'
    <2>1. \A t : Save(s, t) => t \in Saves
      BY DEF Save, Saves, Seeding
    <2> QED
      BY <1>3, <1>4, <2>1 DEF SeedSave, SeedTags, SeedAdminUser, SeedDemoUser, SeedVenues,
         SeedBusyness, SeedVibes, SeedOffers, SeedNotifications, SeedAnalytics, SeedBusinessUsers
  <1>5. ASSUME NEW s \in Servers, Start(s) \/ CountVenues(s) PROVE WholeInv'
    <2>1. copies' = copies /\ cut' = (cut \/ server[s] \in 5 .. 11)
      BY <1>2, <1>5 DEF Start, CountVenues
    <2>2. CASE Start(s)
      <3>1. server' = [server EXCEPT ![s] = Counting]
        BY <2>2 DEF Start
      <3> QED
        BY <2>1, <3>1, <1>2a
    <2>3. CASE CountVenues(s) /\ copies["venues"] = 0
      <3>1. server' = [server EXCEPT ![s] = 1]
        BY <2>3 DEF CountVenues
      <3> QED
        BY <2>1, <3>1, <1>2a
    <2>4. CASE CountVenues(s) /\ copies["venues"] # 0
      <3>1. server' = [server EXCEPT ![s] = Up] /\ copies["venues"] > 0
        BY <1>2, <2>4 DEF CountVenues
      <3> QED
        BY <2>1, <3>1, MovedWhole
    <2> QED
      BY <1>5, <2>2, <2>3, <2>4
  <1>6. ASSUME NEW s \in Servers, ServerEnds(s) PROVE WholeInv'
    <2>1. server' = [server EXCEPT ![s] = Down] /\ copies' = copies
          /\ cut' = (cut \/ server[s] \in 5 .. 11)
      BY <1>2, <1>6 DEF ServerEnds, Seeding
    <2> QED
      BY <2>1, <1>2a
  <1> QED
    BY <1>1, <1>4, <1>5, <1>6 DEF SeedNext

(* A server that listens while none is seeding has the whole catalogue behind *)
(* it, for any number of servers and of ends, unless a seeding was ended      *)
(* between its venues and its last save (onModuleInit, which counts venues).  *)
THEOREM ListensOnWhole == SeedSpec => []ServesWhole
PROOF
  <1>1. SeedInit => WholeInv
    BY OrderFacts, VenuesIsFourth
       DEF SeedInit, WholeInv, Behind, UpHasVenues, EndsWhole, Seeding
  <1>2. WholeInv => ServesWhole
    BY OrderFacts, VenuesIsFourth
       DEF WholeInv, ServesWhole, UpHasVenues, EndsWhole, UnderWay, Whole, Seeding
  <1>3. SeedInit => IInv
    BY SeedingStarts
  <1>4. IInv /\ [SeedNext]_seedVars => IInv'
    BY NextKeeps
  <1>5. IInv /\ WholeInv /\ [SeedNext]_seedVars => WholeInv'
    BY NextKeepsWhole
  <1> QED
    BY <1>1, <1>2, <1>3, <1>4, <1>5, PTL DEF SeedSpec

-----------------------------------------------------------------------------
(* The catalogue *)

Saving(c) == req[c].pc \in {"saveSelect", "saveInsert", "saveUpdate"}

RowsTyped ==
  /\ venue \in [VenueIds -> VenueRow \cup {NoVenue}]
  /\ req \in [Slots -> Request]
  /\ removed \subseteq VenueIds

(* A request that finds or updates a venue has a stored one. The venue of   *)
(* another save may be an id that the body of the request named.            *)
RowFound == \A c \in Slots :
  req[c].pc \in {"find", "saveUpdate"} => req[c].venue \in Stored

(* A removal writes no owner. *)
DeletesDetach == \A c \in Slots : Saving(c) /\ req[c].op # "update" => req[c].copy.owner = NoOwner

(* The seed has stored its venues before it gives them owners. *)
VenuesBefore == \A s \in Servers : server[s] \in 5 .. 11 => Seeded \subseteq Stored

(* Until it has given them, none of them counts as removed. *)
RemovedLater == copies["owners"] = 0 => removed \cap Seeded = {}

(* A removed venue has no owner, and no request is about to write one. *)
RemovedStay == \A v \in removed :
  /\ v \in Stored /\ venue[v].owner = NoOwner
  /\ \A c \in Slots : Saving(c) /\ req[c].venue = v => req[c].copy.owner = NoOwner

CInv == IInv /\ RowsTyped /\ RowFound /\ DeletesDetach /\ VenuesBefore /\ RemovedLater /\ RemovedStay

-----------------------------------------------------------------------------
LEMMA SeedFacts ==
  /\ SeedOrder[4] = "venues" /\ SeedOrder[11] = "owners"
  /\ "owners" \in Saves /\ "venues" \in Saves
PROOF
  <1>1. SeedOrder[4] = "venues" /\ SeedOrder[11] = "owners"
    BY DEF SeedOrder
  <1> QED
    BY <1>1, OrderFacts

(* Every step of the catalogue is a step of the servers, or leaves them alone. *)
LEMMA SeedStep ==
  ASSUME [Next]_vars
  PROVE  [SeedNext]_seedVars
PROOF
  <1>1. CASE UNCHANGED vars
    BY <1>1 DEF vars
  <1>2. CASE Next
    BY <1>2 DEF Next, Step, Visiting, Fill, Boot, SeedNext, seedVars
  <1> QED
    BY <1>1, <1>2

(* A removal that is counted is one of this step, with no update that holds  *)
(* the venue; and none is kept that an update names.                         *)
LEMMA RecordFacts ==
  ASSUME Record
  PROVE  /\ \A v \in removed' : v \in removed \/ v \in Counted
         /\ \A v \in removed' : ~Named(v)'
PROOF
  BY DEF Record

LEMMA NoneRemoved ==
  ASSUME Record, \A v \in Stored : venue'[v] = venue[v] \/ (v \in Seeded /\ copies["owners"] = 0)
  PROVE  removed' \subseteq removed
PROOF
  <1>1. Counted = {}
    BY DEF Counted, Removed, Stored
  <1> QED
    BY <1>1 DEF Record

(* The steps that leave the rows of venues, and bring no request to its save. *)
LEMMA RowsKept ==
  ASSUME CInv, IInv', removed' \subseteq removed, venue' = venue,
         copies["owners"] # 0 => copies'["owners"] # 0,
         \A s \in Servers : server'[s] \in 5 .. 11 => server[s] \in 5 .. 11,
         req' \in [Slots -> Request],
         \A c \in Slots :
           /\ Saving(c)' => /\ Saving(c) /\ req'[c].op = req[c].op
                            /\ req'[c].venue = req[c].venue /\ req'[c].copy = req[c].copy
           /\ req'[c].pc \in {"find", "saveUpdate"} => req'[c].venue \in Stored
  PROVE  CInv'
PROOF
  <1>1. Stored' = Stored
    BY DEF Stored
  <1>2. RowsTyped' /\ VenuesBefore'
    BY <1>1 DEF CInv, RowsTyped, VenuesBefore
  <1>3. RowFound'
    BY <1>1 DEF CInv, RowFound, Saving
  <1>4. DeletesDetach'
    BY DEF CInv, DeletesDetach
  <1>5. RemovedLater'
    BY <1>1 DEF CInv, RemovedLater
  <1>6. RemovedStay'
    BY <1>1 DEF CInv, RemovedStay
  <1> QED
    BY <1>2, <1>3, <1>4, <1>5, <1>6 DEF CInv

(* The steps of an owner's request that leave the rows of venues. *)
LEMMA RequestKeepsRows ==
  ASSUME CInv, IInv', Record, UNCHANGED seedVars, NEW c \in Slots,
         \/ \E o \in Owners : \/ CreateVenue(c, o)
                              \/ \E v \in VenueIds : UpdateVenue(c, o, v) \/ DeleteVenue(c, o, v)
         \/ InsertBusyness(c) \/ InsertVibe(c) \/ Verify(c) \/ SaveSelect(c) \/ RequestFails(c)
  PROVE  CInv'
PROOF
  <1>1. venue' = venue
    BY DEF CreateVenue, UpdateVenue, DeleteVenue, Begin, InsertBusyness, InsertVibe, Verify,
           SaveSelect, RequestFails, tables
  <1>2. /\ req \in [Slots -> Request] /\ IdleReq \in Request
        /\ IdleReq.pc = "idle"
    <2>1. AnyDetails \in Details
      BY CatalogueAssumption DEF AnyDetails
    <2> QED
      BY <2>1 DEF CInv, RowsTyped, IdleReq, Request, NoCopy, VenueRow
  <1>3. \A d \in Slots \ {c} : req'[d] = req[d]
    BY <1>2 DEF CreateVenue, UpdateVenue, DeleteVenue, Begin, InsertBusyness, InsertVibe, Verify,
           SaveSelect, RequestFails, Goto, Finish
  <1> DEFINE Kept == /\ req' \in [Slots -> Request]
                     /\ Saving(c)' => /\ Saving(c) /\ req'[c].op = req[c].op
                                      /\ req'[c].venue = req[c].venue /\ req'[c].copy = req[c].copy
                     /\ req'[c].pc \in {"find", "saveUpdate"} => req'[c].venue \in Stored
  <1>4. Kept
    <2>1. ASSUME NEW o \in Owners, CreateVenue(c, o) PROVE Kept
      BY <1>2, <2>1 DEF CreateVenue, Begin, Request, IdleReq, Saving
    <2>2. ASSUME NEW o \in Owners, NEW v \in VenueIds, UpdateVenue(c, o, v) \/ DeleteVenue(c, o, v)
          PROVE  Kept
      <3>1. PICK op \in {"update", "delete"} :
              req' = [req EXCEPT ![c] = [IdleReq EXCEPT !.pc = "verify", !.op = op, !.owner = o, !.venue = v]]
        BY <2>2 DEF UpdateVenue, DeleteVenue, Begin
      <3>2. [IdleReq EXCEPT !.pc = "verify", !.op = op, !.owner = o, !.venue = v] \in Request
        BY <1>2, <3>1 DEF Request
      <3>3. req'[c].pc = "verify"
        BY <1>2, <3>1 DEF Request
      <3> QED
        BY <1>2, <3>1, <3>2, <3>3 DEF Saving
    <2>3. CASE InsertBusyness(c) \/ InsertVibe(c) \/ RequestFails(c)
      BY <1>2, <2>3 DEF InsertBusyness, InsertVibe, RequestFails, Goto, Finish, Request, Saving
    <2>4. CASE Verify(c)
      BY <1>2, <2>4 DEF Verify, Goto, Finish, Request, Saving
    <2>5. CASE SaveSelect(c)
      BY <1>2, <2>5 DEF SaveSelect, Goto, Finish, Request, Saving
    <2> QED
      BY <2>1, <2>2, <2>3, <2>4, <2>5
  <1>5. \A d \in Slots \ {c} : req[d].pc \in {"find", "saveUpdate"} => req[d].venue \in Stored
    BY DEF CInv, RowFound
  <1> HIDE DEF Kept
  <1>6. \A d \in Slots : /\ Saving(d)' => /\ Saving(d) /\ req'[d].op = req[d].op
                                          /\ req'[d].venue = req[d].venue /\ req'[d].copy = req[d].copy
                         /\ req'[d].pc \in {"find", "saveUpdate"} => req'[d].venue \in Stored
    BY <1>3, <1>4, <1>5 DEF Kept, Saving
  <1>7. removed' \subseteq removed
    BY <1>1, NoneRemoved
  <1> QED
    BY <1>1, <1>4, <1>6, <1>7, RowsKept DEF Kept, seedVars

(* What a request finds it may write: no owner, the one that is stored, or,   *)
(* with the body of an update, any, which takes the venue out of "removed".   *)
LEMMA FindKeeps ==
  ASSUME CInv, IInv', Record, UNCHANGED seedVars, NEW c \in Slots,
         FindToUpdate(c) \/ FindToDelete(c)
  PROVE  CInv'
PROOF
  <1>1. /\ venue' = venue /\ req[c].venue \in Stored /\ Found(c) \in VenueRow
        /\ req[c] \in Request /\ req[c].pc = "find" /\ req \in [Slots -> Request]
    BY DEF CInv, RowFound, FindToUpdate, FindToDelete, tables, Stored, RowsTyped, Found
  <1>2. /\ removed' \subseteq removed /\ Stored' = Stored
        /\ server' = server /\ copies' = copies
    BY <1>1, NoneRemoved DEF Stored, seedVars
  <1>3. /\ req' \in [Slots -> Request] /\ req'[c].pc = "saveSelect"
        /\ \A x \in Slots \ {c} : req'[x] = req[x]
        /\ \/ req'[c].op = "update" /\ req'[c].named
           \/ req'[c].venue = req[c].venue /\ req'[c].copy.owner = Found(c).owner
              /\ req'[c].op = "update"
           \/ req'[c].copy.owner = NoOwner
        /\ req'[c].op # "update" => req'[c].copy.owner = NoOwner
    <2>1. CASE FindToUpdate(c)
      <3>1. PICK d \in Details, o \in Owners \cup {NoOwner}, v \in Stored \cup Fresh :
              req' = [req EXCEPT ![c].pc = "saveSelect", ![c].venue = v,
                        ![c].copy = Assigned(Found(c), d, o),
                        ![c].named = o # Found(c).owner \/ v # req[c].venue]
        BY <2>1 DEF FindToUpdate
      <3> DEFINE copy == Assigned(Found(c), d, o)
                 named == o # Found(c).owner \/ v # req[c].venue
                 new == [req[c] EXCEPT !.pc = "saveSelect", !.venue = v, !.copy = copy, !.named = named]
      <3>2. copy \in VenueRow /\ copy.owner = o /\ named \in BOOLEAN /\ v \in VenueIds
        BY <1>1 DEF Assigned, VenueRow, Stored, VenueIds
      <3> HIDE DEF copy, named
      <3>3. /\ new \in Request /\ new.pc = "saveSelect" /\ new.op = req[c].op /\ new.named = named
            /\ new.venue = v /\ new.copy = copy
        BY <1>1, <3>2 DEF Request
      <3>4. req' = [req EXCEPT ![c] = new]
        BY <1>1, <3>1 DEF copy, named
      <3> HIDE DEF new
      <3>5. req'[c] = new /\ req[c].op = "update"
        BY <1>1, <2>1, <3>4 DEF FindToUpdate
      <3>6. named \/ (o = Found(c).owner /\ v = req[c].venue)
        BY DEF named
      <3> QED
        BY <1>1, <3>2, <3>3, <3>4, <3>5, <3>6
    <2>2. CASE FindToDelete(c)
      <3> DEFINE copy == Detached(Found(c))
      <3>1. copy \in VenueRow /\ copy.owner = NoOwner
        BY <1>1 DEF Detached, VenueRow
      <3>2. req' = [req EXCEPT ![c].pc = "saveSelect", ![c].copy = copy]
        BY <2>2 DEF FindToDelete
      <3> HIDE DEF copy
      <3> QED
        BY <1>1, <3>1, <3>2 DEF Request
    <2> QED
      BY <2>1, <2>2
  <1>4. RowsTyped' /\ VenuesBefore' /\ RemovedLater'
    BY <1>1, <1>2, <1>3 DEF CInv, RowsTyped, VenuesBefore, RemovedLater
  <1>5. RowFound' /\ DeletesDetach'
    BY <1>1, <1>2, <1>3 DEF CInv, RowFound, DeletesDetach, Saving
  <1>6. RemovedStay'
    <2>1. ASSUME NEW x \in removed'
          PROVE  /\ x \in Stored /\ venue[x].owner = NoOwner
                 /\ \A y \in Slots : Saving(y)' /\ req'[y].venue = x => req'[y].copy.owner = NoOwner
      <3>1. /\ x \in Stored /\ venue[x].owner = NoOwner
            /\ \A y \in Slots : Saving(y) /\ req[y].venue = x => req[y].copy.owner = NoOwner
        BY <1>2, <2>1 DEF CInv, RemovedStay
      <3>2. ASSUME req'[c].venue = x PROVE req'[c].copy.owner = NoOwner
        <4>1. ~(req'[c].op = "update" /\ req'[c].named)
          BY <1>3, <2>1, <3>2, RecordFacts DEF Named, Holds
        <4> QED
          BY <1>3, <3>1, <3>2, <4>1 DEF Found
      <3> QED
        BY <1>3, <3>1, <3>2 DEF Saving
    <2> QED
      BY <1>1, <1>2, <2>1 DEF RemovedStay
  <1> QED
    BY <1>4, <1>5, <1>6 DEF CInv

(* A new row takes an id that no removal is about. *)
LEMMA RowAdded ==
  ASSUME CInv, IInv', Record, UNCHANGED seedVars, NEW c \in Slots,
         NEW v \in VenueIds \ Stored, NEW new \in VenueRow,
         venue' = [venue EXCEPT ![v] = new],
         req' \in [Slots -> Request], ~Saving(c)', req'[c].pc # "find",
         \A x \in Slots \ {c} : req'[x] = req[x]
  PROVE  CInv'
PROOF
  <1>1. new # NoVenue /\ server' = server /\ copies' = copies
    BY CatalogueAssumption DEF seedVars
  <1>2. /\ Stored' = Stored \cup {v} /\ \A x \in Stored : venue'[x] = venue[x]
        /\ v \notin Stored
    BY <1>1 DEF CInv, RowsTyped, Stored
  <1>3. removed' \subseteq removed
    BY <1>2, NoneRemoved
  <1>4. RowsTyped' /\ VenuesBefore' /\ RemovedLater'
    BY <1>1, <1>2, <1>3 DEF CInv, RowsTyped, VenuesBefore, RemovedLater
  <1>5. RowFound' /\ DeletesDetach'
    BY <1>2 DEF CInv, RowFound, DeletesDetach, Saving
  <1>6. RemovedStay'
    BY <1>2, <1>3 DEF CInv, RemovedStay, Saving
  <1> QED
    BY <1>4, <1>5, <1>6 DEF CInv

LEMMA IdleTyped == IdleReq \in Request /\ IdleReq.pc = "idle"
PROOF
  <1>1. AnyDetails \in Details
    BY CatalogueAssumption DEF AnyDetails
  <1> QED
    BY <1>1 DEF IdleReq, Request, NoCopy, VenueRow

LEMMA InsertKeeps ==
  ASSUME CInv, IInv', Record, UNCHANGED seedVars, NEW c \in Slots, InsertVenue(c)
  PROVE  CInv'
PROOF
  <1>1. PICK v \in Fresh \ Stored, d \in Details :
          /\ venue' = [venue EXCEPT ![v] = [owner |-> req[c].owner, details |-> d]]
          /\ req' = [req EXCEPT ![c].pc = "insertBusyness", ![c].venue = v]
    BY DEF InsertVenue
  <1>2. /\ req \in [Slots -> Request] /\ v \in VenueIds \ Stored
        /\ [owner |-> req[c].owner, details |-> d] \in VenueRow
    BY DEF CInv, RowsTyped, Request, VenueRow, VenueIds
  <1>3. [req[c] EXCEPT !.pc = "insertBusyness", !.venue = v] \in Request
    BY <1>2 DEF Request
  <1>4. req' = [req EXCEPT ![c] = [req[c] EXCEPT !.pc = "insertBusyness", !.venue = v]]
    BY <1>1, <1>2
  <1>5. [req[c] EXCEPT !.pc = "insertBusyness", !.venue = v].pc = "insertBusyness"
    BY <1>2 DEF Request
  <1>6. /\ req' \in [Slots -> Request] /\ ~Saving(c)' /\ req'[c].pc # "find"
        /\ \A x \in Slots \ {c} : req'[x] = req[x]
    BY <1>2, <1>3, <1>4, <1>5 DEF Saving
  <1> QED
    BY <1>1, <1>2, <1>6, RowAdded

(* The INSERT of an update whose body named an id that no venue has. *)
LEMMA SaveInsertKeeps ==
  ASSUME CInv, IInv', Record, UNCHANGED seedVars, NEW c \in Slots, SaveInsert(c)
  PROVE  CInv'
PROOF
  <1> DEFINE v == req[c].venue
  <1>1. /\ req \in [Slots -> Request] /\ v \in VenueIds \cup {0} /\ req[c].copy \in VenueRow
        /\ venue \in [VenueIds -> VenueRow \cup {NoVenue}]
    BY DEF CInv, RowsTyped, Request
  <1>2. /\ req' \in [Slots -> Request] /\ ~Saving(c)' /\ req'[c].pc \notin {"find", "saveUpdate"}
        /\ \A x \in Slots \ {c} : req'[x] = req[x]
    BY <1>1, IdleTyped DEF SaveInsert, Finish, Saving
  <1>3. CASE v \in VenueIds \ Stored
    <2>1. venue' = [venue EXCEPT ![v] = req[c].copy]
      BY <1>3 DEF SaveInsert
    <2> QED
      BY <1>1, <1>2, <1>3, <2>1, RowAdded
  <1>4. CASE v \notin VenueIds \ Stored
    <2>1. venue' = venue
      BY <1>1, <1>4 DEF SaveInsert
    <2>2. removed' \subseteq removed
      BY <2>1, NoneRemoved
    <2>3. \A x \in Slots :
             /\ Saving(x)' => /\ Saving(x) /\ req'[x].op = req[x].op
                              /\ req'[x].venue = req[x].venue /\ req'[x].copy = req[x].copy
             /\ req'[x].pc \in {"find", "saveUpdate"} => req'[x].venue \in Stored
      BY <1>2 DEF Saving, CInv, RowFound
    <2> QED
      BY <1>2, <2>1, <2>2, <2>3, RowsKept DEF seedVars
  <1> QED
    BY <1>3, <1>4

(* The UPDATE of a removal, or of an update, which may be one that read the    *)
(* venue before a removal; such a one keeps the venue out of "removed".        *)
LEMMA UpdateKeeps ==
  ASSUME CInv, IInv', Record, UNCHANGED seedVars, NEW c \in Slots, SaveUpdate(c)
  PROVE  CInv'
PROOF
  <1> DEFINE v == req[c].venue
             new == [col \in VenueCols |-> IF col \in req[c].dirty THEN req[c].copy[col]
                                                                   ELSE venue[v][col]]
  <1>1. /\ v \in Stored /\ v \in VenueIds /\ venue[v] \in VenueRow
        /\ Saving(c) /\ req[c] \in Request /\ req[c].copy \in VenueRow
        /\ server' = server /\ copies' = copies
    BY DEF CInv, RowFound, SaveUpdate, Stored, RowsTyped, Saving, Request, seedVars
  <1>2. /\ new \in VenueRow
        /\ new.owner \in {req[c].copy.owner, venue[v].owner}
    BY <1>1 DEF VenueRow, VenueCols
  <1>3. new # NoVenue /\ venue' = [venue EXCEPT ![v] = new]
    BY <1>2, CatalogueAssumption DEF SaveUpdate
  <1> HIDE DEF new
  <1>4. /\ Stored' = Stored /\ venue'[v] = new
        /\ \A x \in Stored \ {v} : venue'[x] = venue[x]
    BY <1>1, <1>3 DEF CInv, RowsTyped, Stored
  <1>5. /\ req' \in [Slots -> Request] /\ ~Saving(c)' /\ req'[c].pc # "find"
        /\ \A x \in Slots \ {c} : req'[x] = req[x]
    <2>1. AnyDetails \in Details
      BY CatalogueAssumption DEF AnyDetails
    <2>2. IdleReq \in Request /\ IdleReq.pc = "idle"
      BY <2>1 DEF IdleReq, Request, NoCopy, VenueRow
    <2> QED
      BY <2>2 DEF SaveUpdate, Finish, CInv, RowsTyped, Saving
  <1>6. removed' \subseteq removed \cup Counted /\ Counted \subseteq VenueIds
    BY RecordFacts DEF Counted, Removed, Stored
  <1>7. RowsTyped' /\ VenuesBefore'
    BY <1>1, <1>2, <1>3, <1>4, <1>5, <1>6 DEF CInv, RowsTyped, VenuesBefore
  <1>8. RowFound' /\ DeletesDetach'
    BY <1>4, <1>5 DEF CInv, RowFound, DeletesDetach, Saving
  <1>9. RemovedLater'
    BY <1>1, <1>6 DEF CInv, RemovedLater, Counted
  <1>10. RemovedStay'
    <2>1. ASSUME NEW x \in removed
          PROVE  /\ x \in Stored /\ venue'[x].owner = NoOwner
                 /\ \A y \in Slots : Saving(y)' /\ req'[y].venue = x => req'[y].copy.owner = NoOwner
      <3>1. /\ x \in Stored /\ venue[x].owner = NoOwner
            /\ \A y \in Slots : Saving(y) /\ req[y].venue = x => req[y].copy.owner = NoOwner
        BY DEF CInv, RemovedStay
      <3>2. x = v => new.owner = NoOwner
        BY <1>1, <1>2, <3>1
      <3> QED
        BY <1>4, <1>5, <3>1, <3>2 DEF Saving
    <2>2. ASSUME NEW x \in Counted
          PROVE  /\ x \in Stored /\ venue'[x].owner = NoOwner
                 /\ \A y \in Slots : Saving(y)' /\ req'[y].venue = x => req'[y].copy.owner = NoOwner
      <3>1. x \in Stored /\ venue'[x].owner = NoOwner
        BY DEF Counted, Removed
      <3>2. \A y \in Slots : Saving(y) /\ req[y].venue = x => req[y].copy.owner = NoOwner
        BY <2>2 DEF Counted, Held, Holds, Saving, CInv, DeletesDetach
      <3> QED
        BY <1>5, <3>1, <3>2 DEF Saving
    <2> QED
      BY <1>4, <1>6, <2>1, <2>2 DEF RemovedStay
  <1> QED
    BY <1>7, <1>8, <1>9, <1>10 DEF CInv

(* What a save of the seed does to the servers and copies. *)
LEMMA FillFacts ==
  ASSUME CInv, NEW s \in Servers, Fill(s)
  PROVE  /\ server[s] \in 1 .. 11
         /\ copies["owners"] # 0 => copies'["owners"] # 0
         /\ copies' = copies => \A r \in Servers : server'[r] \in 5 .. 11 => server[r] \in 5 .. 11
         /\ copies' # copies => server' = [server EXCEPT ![s] = @ + 1]
         /\ copies' # copies /\ server[s] = 11 => copies'["owners"] # 0
         /\ server[s] \in 3 .. 11 => copies["owners"] = 0
PROOF
  <1> USE OrderFacts, SeedFacts, SeedingAssumption
  <1>1. PICK t \in Saves : Save(s, t)
    <2>1. \A t : Save(s, t) => t \in Saves
      BY DEF Save, Saves, Seeding
    <2> QED
      BY <2>1 DEF Fill, SeedSave, SeedTags, SeedAdminUser, SeedDemoUser, SeedVenues, SeedBusyness,
         SeedVibes, SeedOffers, SeedNotifications, SeedAnalytics, SeedBusinessUsers
  <1>2. /\ server[s] \in 1 .. 11 /\ t = SeedOrder[server[s]] /\ Len(SeedOrder) = 11
        /\ server \in [Servers -> Counting .. Up] /\ copies \in [Saves -> 0 .. MaxCopies]
        /\ MaxCopies \in Nat \ {0} /\ Up = 12 /\ Counting = -1 /\ Down = 0 /\ AdminAt = 2
    BY <1>1 DEF CInv, IInv, SeedTypeOK, Save, Seeding, Up, Counting, Down, AdminAt
  <1>3. server[s] \in 3 .. 11 => copies[t] = 0 /\ copies["owners"] = 0
    BY <1>2 DEF CInv, IInv, PassedOnce, Past
  <1>4. CASE Refused(t)
    <2>1. copies' = copies /\ server' = [server EXCEPT ![s] = 0]
      BY <1>1, <1>2, <1>4 DEF Save, AfterFailure
    <2> QED
      BY <1>2, <1>3, <2>1
  <1>5. CASE ~Refused(t)
    <2>1. /\ copies' = [copies EXCEPT ![t] = IF @ < MaxCopies THEN @ + 1 ELSE @]
          /\ server' = [server EXCEPT ![s] = @ + 1]
      BY <1>1, <1>5 DEF Save
    <2>2. server[s] \in 3 .. 11 => copies'[t] = 1
      BY <1>2, <1>3, <2>1
    <2>3. copies' = copies => server[s] \notin 3 .. 11
      BY <1>3, <2>2
    <2>4. copies["owners"] # 0 => copies'["owners"] # 0
      BY <1>2, <2>1
    <2>5. copies' = copies => \A r \in Servers : server'[r] \in 5 .. 11 => server[r] \in 5 .. 11
      BY <1>2, <2>1, <2>3
    <2> QED
      BY <1>2, <1>3, <2>1, <2>2, <2>4, <2>5
  <1> QED
    BY <1>4, <1>5

(* The seed's saves of venues and of owners write seeded venues only, before *)
(* a removal of one of them counts.                                          *)
LEMMA SeedRowsKeep ==
  ASSUME CInv, IInv', Record, req' = req, copies["owners"] = 0,
         venue' \in [VenueIds -> VenueRow \cup {NoVenue}],
         \A x \in Fresh : venue'[x] = venue[x],
         \A x \in Seeded : venue'[x] \in VenueRow
  PROVE  CInv'
PROOF
  <1>1. /\ Seeded \cap Fresh = {} /\ VenueIds = Seeded \cup Fresh /\ NoVenue \notin VenueRow
        /\ venue \in [VenueIds -> VenueRow \cup {NoVenue}]
    BY CatalogueAssumption DEF VenueIds, CInv, RowsTyped
  <1>2. Stored' = Stored \cup Seeded
    BY <1>1 DEF Stored
  <1>3. removed' \subseteq removed
    BY <1>1, NoneRemoved DEF Stored
  <1>4. removed \cap Seeded = {}
    BY DEF CInv, RemovedLater
  <1>5. RowsTyped' /\ VenuesBefore'
    BY <1>2, <1>3 DEF CInv, RowsTyped, VenuesBefore
  <1>6. RowFound' /\ DeletesDetach'
    BY <1>2 DEF CInv, RowFound, DeletesDetach, Saving
  <1>7. RemovedLater'
    BY <1>3, <1>4 DEF RemovedLater
  <1>8. RemovedStay'
    BY <1>1, <1>2, <1>3, <1>4 DEF CInv, RemovedStay, Saving, RowsTyped
  <1> QED
    BY <1>5, <1>6, <1>7, <1>8 DEF CInv

LEMMA FillKeeps ==
  ASSUME CInv, IInv', Record, NEW s \in Servers, Fill(s), UNCHANGED req
  PROVE  CInv'
PROOF
  <1> USE OrderFacts, SeedFacts
  <1>1. /\ req' \in [Slots -> Request]
        /\ \A c \in Slots :
           /\ Saving(c)' => /\ Saving(c) /\ req'[c].op = req[c].op
                            /\ req'[c].venue = req[c].venue /\ req'[c].copy = req[c].copy
           /\ req'[c].pc \in {"find", "saveUpdate"} => req'[c].venue \in Stored
    BY DEF CInv, RowsTyped, RowFound, Saving
  <1>2. CASE copies' = copies
    <2>1. venue' = venue
      BY <1>2 DEF Fill, tables
    <2>2. removed' \subseteq removed
      BY <2>1, NoneRemoved
    <2> QED
      BY <1>1, <1>2, <2>1, <2>2, FillFacts, RowsKept
  <1>3. CASE copies' # copies
    <2>1. /\ SeedVenueRows(SeedOrder[server[s]]) /\ server' = [server EXCEPT ![s] = @ + 1]
          /\ server[s] \in 1 .. 11
          /\ venue \in [VenueIds -> VenueRow \cup {NoVenue}] /\ server \in [Servers -> Counting .. Up]
      BY <1>3, FillFacts DEF Fill, CInv, RowsTyped, IInv, SeedTypeOK
    <2>2. /\ Seeded \cap Fresh = {} /\ VenueIds = Seeded \cup Fresh
          /\ SeedOwner \in [Seeded -> Owners \cup {NoOwner}] /\ NoVenue \notin VenueRow
      BY CatalogueAssumption DEF VenueIds
    <2>3. CASE server[s] = 4
      <3>1. venue' = [v \in VenueIds |-> IF v \in Seeded THEN SeededVenue ELSE venue[v]]
        BY <2>1, <2>3 DEF SeedVenueRows
      <3>2. SeededVenue \in VenueRow /\ SeededVenue.owner = NoOwner
        <4>1. AnyDetails \in Details
          BY CatalogueAssumption DEF AnyDetails
        <4> QED
          BY <4>1 DEF SeededVenue, VenueRow
      <3>3. copies["owners"] = 0
        BY <2>3, FillFacts
      <3>4. /\ venue' \in [VenueIds -> VenueRow \cup {NoVenue}]
            /\ \A x \in Fresh : venue'[x] = venue[x]
            /\ \A x \in Seeded : venue'[x] \in VenueRow
        BY <2>1, <2>2, <3>1, <3>2
      <3> QED
        BY <3>3, <3>4, SeedRowsKeep
    <2>4. CASE server[s] = 11
      <3>1. venue' = [v \in VenueIds |-> IF v \in Seeded /\ SeedOwner[v] # NoOwner
                                         THEN [venue[v] EXCEPT !.owner = SeedOwner[v]]
                                         ELSE venue[v]]
        BY <2>1, <2>4 DEF SeedVenueRows
      <3>2. \A x \in Seeded : venue[x] \in VenueRow
        BY <2>1, <2>2, <2>4 DEF CInv, VenuesBefore, Stored
      <3>3. \A x \in Seeded : [venue[x] EXCEPT !.owner = SeedOwner[x]] \in VenueRow
        BY <2>2, <3>2 DEF VenueRow
      <3>4. copies["owners"] = 0 /\ copies'["owners"] # 0
        BY <1>3, <2>4, FillFacts
      <3>5. /\ venue' \in [VenueIds -> VenueRow \cup {NoVenue}]
            /\ \A x \in Fresh : venue'[x] = venue[x]
            /\ \A x \in Seeded : venue'[x] \in VenueRow
        BY <2>1, <2>2, <3>1, <3>2, <3>3
      <3> QED
        BY <3>4, <3>5, SeedRowsKeep
    <2>5. CASE server[s] \notin {4, 11}
      <3>1. venue' = [v \in VenueIds |-> venue[v]]
        <4>1. SeedOrder[server[s]] \notin {"venues", "owners"}
          BY <2>1, <2>5
        <4> QED
          BY <2>1, <4>1 DEF SeedVenueRows
      <3>2. venue' = venue
        BY <2>1, <3>1
      <3>3. \A r \in Servers : server'[r] \in 5 .. 11 => server[r] \in 5 .. 11
        BY <2>1, <2>5 DEF Counting, Up
      <3> QED
        BY <1>1, <3>2, <3>3, FillFacts, RowsKept, NoneRemoved
    <2> QED
      BY <2>3, <2>4, <2>5
  <1> QED
    BY <1>2, <1>3

-----------------------------------------------------------------------------
LEMMA CatalogueStarts == Init => CInv
PROOF
  <1> SUFFICES ASSUME Init PROVE CInv
    OBVIOUS
  <1>1. IInv
    BY SeedingStarts DEF Init
  <1>2. AnyDetails \in Details
    BY CatalogueAssumption DEF AnyDetails
  <1>3. RowsTyped
    BY <1>2 DEF Init, RowsTyped, NoVenues, IdleReq, Request, NoCopy, VenueRow
  <1>4. Stored = {} /\ \A c \in Slots : req[c].pc = "idle"
    BY DEF Init, Stored, NoVenues, IdleReq
  <1>5. RowFound /\ DeletesDetach
    BY <1>4 DEF RowFound, DeletesDetach, Saving
  <1>6. RemovedLater /\ RemovedStay
    BY <1>4 DEF RemovedLater, RemovedStay, Saving, Init
  <1>7. VenuesBefore
    BY DEF Init, SeedInit, VenuesBefore, Down
  <1> QED
    BY <1>1, <1>3, <1>5, <1>6, <1>7 DEF CInv

LEMMA CatalogueStep ==
  ASSUME CInv, [Next]_vars
  PROVE  CInv'
PROOF
  <1>1. IInv'
    BY SeedStep, NextKeeps DEF CInv
  <1>2. CASE UNCHANGED vars
    BY <1>1, <1>2 DEF vars, tables, seedVars, CInv, RowsTyped, RowFound, DeletesDetach, VenuesBefore,
       RemovedLater, RemovedStay, Saving, Stored
  <1> DEFINE Kept == \A c \in Slots :
           /\ Saving(c)' => /\ Saving(c) /\ req'[c].op = req[c].op
                            /\ req'[c].venue = req[c].venue /\ req'[c].copy = req[c].copy
           /\ req'[c].pc \in {"find", "saveUpdate"} => req'[c].venue \in Stored
  <1>3. req' = req => Kept /\ req' \in [Slots -> Request]
    BY DEF CInv, RowsTyped, RowFound, Saving
  <1>4. CASE Next
    <2>1. Record
      BY <1>4 DEF Next
    <2>2. ASSUME NEW s \in Servers, Fill(s), UNCHANGED req PROVE CInv'
      BY <1>1, <2>1, <2>2, FillKeeps
    <2>3. ASSUME NEW s \in Servers, Boot(s) PROVE CInv'
      <3>1. venue' = venue /\ copies' = copies
        BY <2>3 DEF Boot, tables, Start, CountVenues, ServerEnds
      <3>2. \A r \in Servers : server'[r] \in 5 .. 11 => server[r] \in 5 .. 11
        BY <2>3, OrderFacts DEF Boot, Start, CountVenues, ServerEnds, CInv, IInv, SeedTypeOK, Down, Counting, Up
      <3>3. Kept /\ req' \in [Slots -> Request]
        <4>1. CASE req' = req
          BY <1>3, <4>1
        <4>2. CASE req' = [c \in Slots |-> IdleReq]
          <5>1. AnyDetails \in Details
            BY CatalogueAssumption DEF AnyDetails
          <5>2. IdleReq \in Request /\ IdleReq.pc = "idle"
            BY <5>1 DEF IdleReq, Request, NoCopy, VenueRow
          <5> QED
            BY <4>2, <5>2 DEF Saving
        <4> QED
          BY <2>3, <4>1, <4>2 DEF Boot
      <3> QED
        BY <1>1, <2>1, <3>1, <3>2, <3>3, RowsKept, NoneRemoved
    <2>4. ASSUME NEW c \in Slots, OwnerRequest(c), UNCHANGED seedVars PROVE CInv'
      BY <1>1, <2>1, <2>4, RequestKeepsRows, FindKeeps, InsertKeeps, SaveInsertKeeps, UpdateKeeps
         DEF OwnerRequest
    <2>5. ASSUME venue' = venue, req' = req, UNCHANGED seedVars PROVE CInv'
      BY <1>1, <1>3, <2>1, <2>5, RowsKept, NoneRemoved DEF seedVars
    <2>6. ASSUME NEW v \in VenueIds, SetStatus(v), UNCHANGED seedVars PROVE CInv'
      BY <2>5, <2>6 DEF SetStatus
    <2>7. ASSUME UNCHANGED <<seedVars, tables, req>> PROVE CInv'
      BY <2>5, <2>7 DEF tables
    <2>8. \/ \E s \in Servers : (Fill(s) /\ UNCHANGED req) \/ Boot(s)
          \/ \E c \in Slots : OwnerRequest(c) /\ UNCHANGED seedVars
          \/ \E v \in VenueIds : SetStatus(v) /\ UNCHANGED seedVars
          \/ UNCHANGED <<seedVars, tables, req>>
      BY <1>4 DEF Next, Step
    <2> QED
      BY <2>2, <2>3, <2>4, <2>6, <2>7, <2>8
  <1> QED
    BY <1>2, <1>4

(* The servers of the catalogue, beside owners and visitors, behave as those  *)
(* of Seeding alone.                                                          *)
THEOREM CatalogueSeeds == Spec => SeedSpec
PROOF
  <1>1. Init => SeedInit
    BY DEF Init
  <1>2. [Next]_vars => [SeedNext]_seedVars
    BY SeedStep
  <1> QED
    BY <1>1, <1>2, PTL DEF Spec, SeedSpec

(* A venue its owner removed while no update held it gets an owner again only  *)
(* from the body of an update that names one, or the venue's id (updateVenue   *)
(* and deleteVenue of business.service.ts): every later request finds it       *)
(* without an owner, and the seed does not come back to it.                    *)
THEOREM RemovalIsFinal == Spec => []RemovedForGood
PROOF
  <1>1. CInv => RemovedForGood
    BY DEF CInv, RemovedStay, RemovedForGood
  <1> QED
    BY <1>1, CatalogueStarts, CatalogueStep, PTL DEF Spec

-----------------------------------------------------------------------------
(* The visitor's pages *)

Levels == Percents \cup {NoLevel}

ListTyped ==
  /\ level \in [VenueIds -> Levels]
  /\ IsFiniteSet(Stored)
  /\ visit \in [pc : {"idle", "count", "page", "done"}, atmosphere : Atmospheres,
                page : Nat \ {0}, total : Nat, shown : [VenueIds -> Nat]]

(* What the pages before this one have shown. *)
SoFar(v) == v \in Listed \cap Near /\ Rank(v) < Skip(visit.page)

PagesSoFar ==
  /\ visit.pc = "idle" => visit = NoVisit
  /\ visit.pc \in {"count", "page"} =>
       \A v \in VenueIds : visit.shown[v] = IF SoFar(v) THEN 1 ELSE 0
  /\ visit.pc = "page" => visit.total = Cardinality(Listed)

LEMMA NoVisitTyped ==
  /\ NoVisit \in [pc : {"idle", "count", "page", "done"}, atmosphere : Atmospheres,
                  page : Nat \ {0}, total : Nat, shown : [VenueIds -> Nat]]
  /\ NoVisit.pc = "idle" /\ NoVisit.page = 1 /\ \A v \in VenueIds : NoVisit.shown[v] = 0
PROOF
  BY CatalogueAssumption DEF NoVisit

LEMMA ListedFinite ==
  ASSUME ListTyped
  PROVE  /\ IsFiniteSet(Listed) /\ Cardinality(Listed) \in Nat
         /\ \A a : LET s == {v \in Stored : Matches(v, a)} IN IsFiniteSet(s) /\ Cardinality(s) \in Nat
PROOF
  <1>1. ASSUME NEW a
        PROVE  LET s == {v \in Stored : Matches(v, a)} IN IsFiniteSet(s) /\ Cardinality(s) \in Nat
    <2> DEFINE s == {v \in Stored : Matches(v, a)}
    <2>1. s \in SUBSET Stored
      OBVIOUS
    <2> HIDE DEF s
    <2>2. IsFiniteSet(s)
      BY <2>1, FS_Subset DEF ListTyped
    <2>3. Cardinality(s) \in Nat
      BY <2>2, FS_CardinalityType
    <2> QED
      BY <2>2, <2>3 DEF s
  <1> QED
    BY <1>1 DEF Listed

(* A venue of the listing has fewer venues ahead of it than the listing has. *)
LEMMA RankBelow ==
  ASSUME ListTyped, NEW v \in VenueIds
  PROVE  Rank(v) \in Nat /\ (v \in Listed => Rank(v) < Cardinality(Listed))
PROOF
  <1> DEFINE ahead == {w \in Listed : Ahead(w, v)}
  <1>1. ahead \in SUBSET Listed /\ IsFiniteSet(Listed) /\ Cardinality(Listed) \in Nat
    BY ListedFinite
  <1>2. IsFiniteSet(ahead) /\ Cardinality(ahead) \in Nat
    BY <1>1, FS_Subset, FS_CardinalityType
  <1>3. ASSUME v \in Listed PROVE Cardinality(ahead) < Cardinality(Listed)
    <2>1. v \notin ahead
      <3>1. level[v] \in Int /\ v \in Nat
        <4>1. Percents \subseteq Nat /\ NoLevel = 0 - 1 /\ VenueIds \subseteq Nat
          BY CatalogueAssumption
        <4>2. level[v] \in Percents \/ level[v] = NoLevel
          BY DEF ListTyped, Levels
        <4>3. 0 - 1 \in Int /\ \A n \in Nat : n \in Int
          OBVIOUS
        <4> QED
          BY <4>1, <4>2, <4>3, Zenon
      <3>2. ~Ahead(v, v)
        BY <3>1 DEF Ahead
      <3> QED
        BY <3>2
    <2>2. IsFiniteSet(Listed \ {v}) /\ Cardinality(Listed \ {v}) = Cardinality(Listed) - 1
      BY <1>1, <1>3, FS_RemoveElement
    <2>3. ahead \in SUBSET (Listed \ {v})
      BY <1>1, <2>1
    <2> HIDE DEF ahead
    <2>4. Cardinality(ahead) <= Cardinality(Listed \ {v})
      BY <2>2, <2>3, FS_Subset
    <2> QED
      BY <1>1, <1>2, <2>2, <2>4
  <1> QED
    BY <1>2, <1>3 DEF Rank

(* The last page reaches the end of the listing. *)
LEMMA LastPage ==
  ASSUME NEW t \in Nat, NEW p \in Nat, p >= Pages(t)
  PROVE  t <= p * Limit
PROOF
  <1> DEFINE L == Limit  q == (t + L - 1) \div L
  <1>1. L \in Nat /\ L >= 1
    BY CatalogueAssumption
  <1> HIDE DEF L
  <1>2. q \in Int /\ t + L - 1 < (q + 1) * L
    BY <1>1
  <1>3. p >= q
    BY DEF Pages, L
  <1> HIDE DEF q
  <1>4. q * L <= p * L /\ (q + 1) * L = q * L + L
    BY <1>1, <1>2, <1>3
  <1>5. q * L \in Int /\ p * L \in Int
    BY <1>1, <1>2
  <1> QED
    BY <1>1, <1>2, <1>4, <1>5 DEF L

(* Which venues are stored changes by the seed's and by at most one other. *)
LEMMA StoredGrows ==
  ASSUME ListTyped, NEW x, \A v \in VenueIds : v \notin Seeded /\ v # x => venue'[v] = venue[v]
  PROVE  IsFiniteSet(Stored')
PROOF
  <1>1. IsFiniteSet(Stored \cup Seeded) /\ IsFiniteSet((Stored \cup Seeded) \cup {x})
    BY CatalogueAssumption, FS_Union, FS_AddElement DEF ListTyped
  <1>2. Stored' \in SUBSET ((Stored \cup Seeded) \cup {x})
    BY DEF Stored
  <1> QED
    BY <1>1, <1>2, FS_Subset

LEMMA TablesTyped ==
  ASSUME ListTyped, Step
  PROVE  level' \in [VenueIds -> Levels] /\ IsFiniteSet(Stored')
PROOF
  <1>0. NewPercent \in Levels /\ Percents \subseteq Levels /\ SeedPercent \in [Seeded -> Percents]
        /\ Seeded \subseteq VenueIds /\ level \in [VenueIds -> Levels] /\ IsFiniteSet(Stored)
    BY CatalogueAssumption DEF Levels, ListTyped, VenueIds
  <1>1. ASSUME UNCHANGED tables PROVE level' \in [VenueIds -> Levels] /\ IsFiniteSet(Stored')
    BY <1>0, <1>1 DEF tables, Stored
  <1>2. ASSUME NEW s \in Servers, Fill(s) PROVE level' \in [VenueIds -> Levels] /\ IsFiniteSet(Stored')
    <2>1. CASE UNCHANGED tables
      BY <1>1, <2>1
    <2>2. CASE ~UNCHANGED tables
      <3> DEFINE t == SeedOrder[server[s]]
      <3>1. SeedVenueRows(t) /\ SeedLevels(t)
        BY <1>2, <2>2 DEF Fill
      <3> HIDE DEF t
      <3>2. level' \in [VenueIds -> Levels]
        BY <1>0, <3>1 DEF SeedLevels
      <3>3. \A v \in VenueIds : v \notin Seeded => venue'[v] = venue[v]
        BY <3>1 DEF SeedVenueRows
      <3> QED
        BY <3>2, <3>3, StoredGrows
    <2> QED
      BY <2>1, <2>2
  <1>3. ASSUME NEW s \in Servers, Boot(s) PROVE level' \in [VenueIds -> Levels] /\ IsFiniteSet(Stored')
    BY <1>1, <1>3 DEF Boot
  <1>4. ASSUME NEW c \in Slots, OwnerRequest(c)
        PROVE  level' \in [VenueIds -> Levels] /\ IsFiniteSet(Stored')
    <2>1. CASE InsertVenue(c)
      <3>1. PICK x \in Fresh \ Stored, d \in Details :
              venue' = [venue EXCEPT ![x] = [owner |-> req[c].owner, details |-> d]]
        BY <2>1 DEF InsertVenue
      <3>2. \A v \in VenueIds : v \notin Seeded /\ v # x => venue'[v] = venue[v]
        BY <3>1
      <3>3. level' = level
        BY <2>1 DEF InsertVenue
      <3> QED
        BY <1>0, <3>2, <3>3, StoredGrows
    <2>2. CASE InsertBusyness(c)
      <3>1. venue' = venue
        BY <2>2 DEF InsertBusyness
      <3>2. level' = [level EXCEPT ![req[c].venue] = NewPercent] \/ level' = level
        BY <2>2 DEF InsertBusyness
      <3>3. level' \in [VenueIds -> Levels]
        BY <1>0, <3>2
      <3> QED
        BY <1>0, <3>1, <3>3 DEF Stored
    <2>3. CASE InsertVibe(c)
      BY <1>0, <2>3 DEF InsertVibe, tables, Stored
    <2>4. CASE SaveUpdate(c) \/ SaveInsert(c)
      <3>1. level' = level /\ \A v \in VenueIds : v # req[c].venue => venue'[v] = venue[v]
        <4>1. CASE SaveUpdate(c)
          BY <4>1 DEF SaveUpdate
        <4>2. CASE SaveInsert(c) /\ req[c].venue \in Stored
          BY <4>2 DEF SaveInsert
        <4>3. CASE SaveInsert(c) /\ req[c].venue \notin Stored
          <5>1. venue' = [venue EXCEPT ![req[c].venue] = req[c].copy] /\ level' = level
            BY <4>3 DEF SaveInsert
          <5> QED
            BY <5>1
        <4> QED
          BY <2>4, <4>1, <4>2, <4>3
      <3> QED
        BY <1>0, <3>1, StoredGrows
    <2>5. CASE Verify(c) \/ FindToUpdate(c) \/ FindToDelete(c) \/ SaveSelect(c) \/ RequestFails(c)
      BY <1>1, <2>5 DEF Verify, FindToUpdate, FindToDelete, SaveSelect, RequestFails
    <2>6. ASSUME NEW o \in Owners,
                 CreateVenue(c, o) \/ \E v \in VenueIds : UpdateVenue(c, o, v) \/ DeleteVenue(c, o, v)
          PROVE  UNCHANGED tables
      BY <2>6 DEF CreateVenue, UpdateVenue, DeleteVenue, Begin
    <2> QED
      BY <1>1, <1>4, <2>1, <2>2, <2>3, <2>4, <2>5, <2>6 DEF OwnerRequest
  <1>5. ASSUME NEW v \in VenueIds, SetStatus(v) PROVE level' \in [VenueIds -> Levels] /\ IsFiniteSet(Stored')
    <2>1. PICK p \in Percents : level' = [level EXCEPT ![v] = p]
      BY <1>5 DEF SetStatus
    <2>2. venue' = venue
      BY <1>5 DEF SetStatus
    <2> QED
      BY <1>0, <2>1, <2>2 DEF Stored
  <1> QED
    BY <1>2, <1>3, <1>4, <1>5 DEF Step

(* The listing and its order, while the tables they are made of stay. *)
LEMMA SameList ==
  ASSUME Stored' = Stored, level' = level, visit'.atmosphere = visit.atmosphere
  PROVE  Listed' = Listed /\ \A v : Rank(v)' = Rank(v)
PROOF
  <1>1. \A v, a : Matches(v, a)' = Matches(v, a)
    BY DEF Matches
  <1>2. Listed' = Listed
    BY <1>1 DEF Listed
  <1> QED
    BY <1>2 DEF Rank, Ahead

LEMMA ReadPageCovers ==
  ASSUME ListTyped, PagesSoFar, ReadPage, UNCHANGED tables
  PROVE  visit' \in [pc : {"idle", "count", "page", "done"}, atmosphere : Atmospheres,
                     page : Nat \ {0}, total : Nat, shown : [VenueIds -> Nat]]
         /\ PagesSoFar' /\ PagesCover'
PROOF
  <1> DEFINE p == visit.page
             last == p >= Pages(visit.total)
             slice == {v \in Listed : Rank(v) \in Skip(p) .. Skip(p) + Limit - 1}
             more == [v \in VenueIds |-> visit.shown[v] + (IF v \in slice \cap Near THEN 1 ELSE 0)]
             next == IF last THEN 1 ELSE p + 1
             end == IF last THEN "done" ELSE "count"
  <1>1. /\ visit.pc = "page"
        /\ visit' = [visit EXCEPT !.shown = more, !.page = next, !.total = 0, !.pc = end]
    BY DEF ReadPage
  <1>2. /\ p \in Nat \ {0} /\ visit.total \in Nat /\ Limit \in Nat /\ last \in BOOLEAN
        /\ visit.shown \in [VenueIds -> Nat]
    BY CatalogueAssumption DEF ListTyped
  <1>3. more \in [VenueIds -> Nat]
    BY <1>2
  <1> HIDE DEF last, more
  <1>3a. next \in Nat \ {0} /\ end \in {"idle", "count", "page", "done"}
    BY <1>2
  <1> HIDE DEF next, end
  <1>4. /\ visit'.pc = end /\ visit'.page = next
        /\ visit'.shown = more /\ visit'.atmosphere = visit.atmosphere
        /\ visit' \in [pc : {"idle", "count", "page", "done"}, atmosphere : Atmospheres,
                       page : Nat \ {0}, total : Nat, shown : [VenueIds -> Nat]]
    BY <1>1, <1>3, <1>3a DEF ListTyped
  <1>5. Listed' = Listed /\ \A v : Rank(v)' = Rank(v)
    BY <1>4, SameList DEF tables, Stored
  <1>6. Skip(p) \in Nat /\ Skip(p + 1) = Skip(p) + Limit /\ Skip(p + 1) = p * Limit
    BY <1>2 DEF Skip
  <1>7. ASSUME NEW v \in VenueIds
        PROVE  more[v] = IF v \in Listed \cap Near /\ Rank(v) < Skip(p + 1) THEN 1 ELSE 0
    <2>1. Rank(v) \in Nat
      BY RankBelow
    <2>2. visit.shown[v] = IF v \in Listed \cap Near /\ Rank(v) < Skip(p) THEN 1 ELSE 0
      BY <1>1 DEF PagesSoFar, SoFar
    <2>3. v \in slice \cap Near <=> v \in Listed \cap Near /\ Rank(v) >= Skip(p) /\ Rank(v) < Skip(p) + Limit
      BY <1>2, <1>6, <2>1
    <2>4. more[v] = visit.shown[v] + (IF v \in slice \cap Near THEN 1 ELSE 0)
      BY DEF more
    <2> HIDE DEF slice, p
    <2> QED
      BY <1>2, <1>6, <2>1, <2>2, <2>3, <2>4
  <1>8. CASE last
    <2>1. Cardinality(Listed) <= Skip(p + 1)
      BY <1>1, <1>2, <1>6, <1>8, LastPage DEF PagesSoFar, last
    <2>2. ASSUME NEW v \in VenueIds PROVE more[v] = IF v \in Listed \cap Near THEN 1 ELSE 0
      <3>1. v \in Listed => Rank(v) < Skip(p + 1)
        <4> SUFFICES ASSUME v \in Listed PROVE Rank(v) < Skip(p + 1)
          OBVIOUS
        <4>1. Rank(v) \in Nat /\ Rank(v) < Cardinality(Listed) /\ Cardinality(Listed) \in Nat
          BY RankBelow, ListedFinite
        <4>2. Skip(p + 1) \in Nat
          BY <1>2, <1>6
        <4> QED
          BY <2>1, <4>1, <4>2
      <3> QED
        BY <1>7, <3>1
    <2> QED
      BY <1>4, <1>5, <1>8, <2>2 DEF PagesSoFar, PagesCover, end
  <1>9. CASE ~last
    <2>1. \A v \in VenueIds : visit'.shown[v] = IF SoFar(v)' THEN 1 ELSE 0
      BY <1>4, <1>5, <1>7, <1>9 DEF SoFar, Skip, next
    <2> QED
      BY <1>4, <1>9, <2>1 DEF PagesSoFar, PagesCover, end
  <1> QED
    BY <1>8, <1>9

LEMMA ListStep ==
  ASSUME ListTyped, PagesSoFar, PagesCover, [Next]_vars
  PROVE  ListTyped' /\ PagesSoFar' /\ PagesCover'
PROOF
  <1>1. ASSUME visit' = visit, Stored' = Stored, level' = level
        PROVE  ListTyped' /\ PagesSoFar' /\ PagesCover'
    <2>1. Listed' = Listed /\ \A v : Rank(v)' = Rank(v)
      BY <1>1, SameList
    <2> QED
      BY <1>1, <2>1 DEF ListTyped, PagesSoFar, PagesCover, SoFar
  <1>2. ASSUME visit' = NoVisit PROVE PagesSoFar' /\ PagesCover'
    BY <1>2, NoVisitTyped DEF PagesSoFar, PagesCover
  <1>3. CASE UNCHANGED vars
    BY <1>1, <1>3 DEF vars, tables, Stored
  <1>4. CASE Step /\ visit' = IF <<Stored, level>>' = <<Stored, level>> THEN visit ELSE NoVisit
    <2>1. level' \in [VenueIds -> Levels] /\ IsFiniteSet(Stored')
      BY <1>4, TablesTyped
    <2>2. CASE visit' = NoVisit
      BY <1>2, <2>1, <2>2, NoVisitTyped DEF ListTyped
    <2>3. CASE visit' # NoVisit
      BY <1>1, <1>4, <2>3
    <2> QED
      BY <2>2, <2>3
  <1>5. CASE CountList /\ UNCHANGED tables
    <2>1. /\ level' = level /\ Stored' = Stored /\ visit'.pc = "page" /\ visit'.page = visit.page
          /\ visit'.shown = visit.shown /\ visit'.total = Cardinality(Listed')
          /\ visit' \in [pc : {"idle", "count", "page", "done"}, atmosphere : Atmospheres,
                         page : Nat \ {0}, total : Nat, shown : [VenueIds -> Nat]]
          /\ \/ visit = NoVisit
             \/ visit.pc = "count" /\ visit'.atmosphere = visit.atmosphere
      <3>1. level' = level /\ Stored' = Stored /\ \A v, a : Matches(v, a)' = Matches(v, a)
        BY <1>5 DEF tables, Stored, Matches
      <3>2. CASE visit.pc = "idle"
        <4>1. PICK a \in Atmospheres :
                visit' = [visit EXCEPT !.pc = "page", !.atmosphere = a,
                            !.total = Cardinality({v \in Stored : Matches(v, a)})]
          BY <1>5, <3>2 DEF CountList
        <4> DEFINE n == Cardinality({v \in Stored : Matches(v, a)})
        <4>2. n \in Nat
          BY ListedFinite
        <4> HIDE DEF n
        <4>3. visit' = [visit EXCEPT !.pc = "page", !.atmosphere = a, !.total = n]
          BY <4>1 DEF n
        <4>4. /\ visit'.pc = "page" /\ visit'.page = visit.page /\ visit'.shown = visit.shown
              /\ visit'.total = n /\ visit'.atmosphere = a
              /\ visit' \in [pc : {"idle", "count", "page", "done"}, atmosphere : Atmospheres,
                             page : Nat \ {0}, total : Nat, shown : [VenueIds -> Nat]]
          BY <4>2, <4>3 DEF ListTyped
        <4>5. Listed' = {v \in Stored : Matches(v, a)}
          BY <3>1, <4>4 DEF Listed
        <4> QED
          BY <3>1, <3>2, <4>4, <4>5 DEF PagesSoFar, n
      <3>3. CASE visit.pc # "idle"
        <4>1. visit.pc = "count" /\ visit' = [visit EXCEPT !.pc = "page", !.total = Cardinality(Listed)]
          BY <1>5, <3>3 DEF CountList
        <4> DEFINE n == Cardinality(Listed)
        <4>2. n \in Nat
          BY ListedFinite
        <4> HIDE DEF n
        <4>3. visit' = [visit EXCEPT !.pc = "page", !.total = n]
          BY <4>1 DEF n
        <4>4. /\ visit'.pc = "page" /\ visit'.page = visit.page /\ visit'.shown = visit.shown
              /\ visit'.total = n /\ visit'.atmosphere = visit.atmosphere
              /\ visit' \in [pc : {"idle", "count", "page", "done"}, atmosphere : Atmospheres,
                             page : Nat \ {0}, total : Nat, shown : [VenueIds -> Nat]]
          BY <4>2, <4>3 DEF ListTyped
        <4>5. Listed' = Listed
          BY <3>1, <4>4, SameList
        <4> QED
          BY <3>1, <4>1, <4>4, <4>5 DEF n
      <3> QED
        BY <3>2, <3>3
    <2>2. ListTyped' /\ PagesCover'
      BY <2>1 DEF ListTyped, PagesCover
    <2>3. \A v \in VenueIds : visit'.shown[v] = IF SoFar(v)' THEN 1 ELSE 0
      <3>1. CASE visit = NoVisit
        <4>1. ASSUME NEW v \in VenueIds PROVE visit'.shown[v] = 0 /\ ~SoFar(v)'
          <5>1. Rank(v)' \in Nat
            <6> DEFINE ahead == {w \in Listed' : Ahead(w, v)'}
            <6>1. ahead \in SUBSET Stored' /\ IsFiniteSet(Stored')
              BY <2>2 DEF Listed, ListTyped
            <6> HIDE DEF ahead
            <6>2. Cardinality(ahead) \in Nat
              BY <6>1, FS_Subset, FS_CardinalityType
            <6> QED
              BY <6>2 DEF Rank, ahead
          <5>2. visit'.page = 1 /\ visit'.shown[v] = 0
            BY <2>1, <3>1, NoVisitTyped
          <5>3. Skip(visit.page)' = 0
            BY <5>2, CatalogueAssumption DEF Skip
          <5> QED
            BY <5>1, <5>2, <5>3 DEF SoFar
        <4> QED
          BY <4>1
      <3>2. CASE visit.pc = "count" /\ visit'.atmosphere = visit.atmosphere
        <4>1. Listed' = Listed /\ \A v : Rank(v)' = Rank(v)
          BY <2>1, <3>2, SameList
        <4> QED
          BY <2>1, <3>2, <4>1 DEF PagesSoFar, SoFar, Skip
      <3> QED
        BY <2>1, <3>1, <3>2
    <2> QED
      BY <2>1, <2>2, <2>3 DEF PagesSoFar
  <1>6. CASE ReadPage /\ UNCHANGED tables
    <2>1. level' = level /\ Stored' = Stored
      BY <1>6 DEF tables, Stored
    <2> QED
      BY <1>6, <2>1, ReadPageCovers DEF ListTyped
  <1>7. CASE LeaveList /\ UNCHANGED tables
    <2>1. level' = level /\ Stored' = Stored /\ visit' = NoVisit
      BY <1>7 DEF LeaveList, tables, Stored
    <2> QED
      BY <1>2, <2>1, NoVisitTyped DEF ListTyped
  <1> QED
    BY <1>3, <1>4, <1>5, <1>6, <1>7 DEF Next, Visiting

(* The pages of a listing show every venue within the radius once and no      *)
(* other, for any number of venues, any page size and any percentages, while  *)
(* no venue is created and no percentage changes (findAll of venues).         *)
THEOREM PagesShowAll == Spec => []PagesCover
PROOF
  <1> DEFINE LInv == ListTyped /\ PagesSoFar /\ PagesCover
  <1>1. Init => LInv
    <2> SUFFICES ASSUME Init PROVE LInv
      OBVIOUS
    <2>1. Stored = {} /\ level \in [VenueIds -> Levels]
      BY DEF Init, NoVenues, Stored, Levels
    <2>2. visit = NoVisit
      BY DEF Init
    <2> QED
      BY <2>1, <2>2, NoVisitTyped, FS_EmptySet DEF ListTyped, PagesSoFar, PagesCover
  <1>2. LInv /\ [Next]_vars => LInv'
    BY ListStep
  <1>3. LInv => PagesCover
    OBVIOUS
  <1> HIDE DEF LInv
  <1> QED
    BY <1>1, <1>2, <1>3, PTL DEF Spec
=============================================================================
