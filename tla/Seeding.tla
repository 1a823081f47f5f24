------------------------------ MODULE Seeding ------------------------------
(***************************************************************************)
(* How servers start on one database (src/main.ts, seed/seed.service.ts).  *)
(* While its modules initialise a server counts the venues; when there are *)
(* none it fills the tables one after the other, each with one save, which *)
(* is one transaction. It listens when that is done. A save that throws is *)
(* not caught: the server process ends, as it does when it is killed, and  *)
(* what earlier saves stored stays. Only the e-mail addresses are unique.  *)
(***************************************************************************)
EXTENDS Integers, Sequences

CONSTANTS
  Servers,     \* the processes that are started on the database
  MaxCopies,   \* bound of the model: copies of a save are counted up to this
  MaxEnds      \* bound of the model on the ends of servers

ASSUME SeedingAssumption == MaxCopies \in Nat \ {0} /\ MaxEnds \in Nat

VARIABLES
  server,   \* per process: where it is in its start
  copies,   \* per save of the seed: how often its rows are stored
  cut,      \* history: a seeding ended between its venues and its end
  ends      \* how often a server ended

seedVars == <<server, copies, cut, ends>>

\* The saves of seed(), in order; "owners" writes the venues' businessUserId.
VenuesFirst == <<"tags", "venues", "admin", "demo", "busyness", "vibes", "offers",
                 "notifications", "analytics", "business", "owners">>
SeedOrder == <<"tags", "admin", "demo", "venues", "busyness", "vibes", "offers",
               "notifications", "analytics", "business", "owners">>
Saves == {SeedOrder[i] : i \in 1 .. Len(SeedOrder)}
UniqueEmail == {"admin", "demo", "business"}
VenuesAt == CHOOSE i \in 1 .. Len(SeedOrder) : SeedOrder[i] = "venues"

Down == 0               \* the process does not run
Counting == -1          \* its modules initialise, the venues are not counted yet
Up == Len(SeedOrder) + 1   \* it listens; 1 .. Len(SeedOrder): the save to do next

SeedTypeOK ==
  /\ server \in [Servers -> Counting .. Up]
  /\ copies \in [Saves -> 0 .. MaxCopies]
  /\ cut \in BOOLEAN
  /\ ends \in 0 .. MaxEnds

Seeding(s) == server[s] \in 1 .. Len(SeedOrder)
Start(s) == /\ server[s] = Down
            /\ server' = [server EXCEPT ![s] = Counting]
            /\ UNCHANGED <<copies, cut, ends>>

\* onModuleInit: the number of venues decides whether to seed
CountVenues(s) ==
  /\ server[s] = Counting
  /\ server' = [server EXCEPT ![s] = IF copies["venues"] = 0 THEN 1 ELSE Up]
  /\ UNCHANGED <<copies, cut, ends>>

Refused(t) == t \in UniqueEmail /\ copies[t] > 0

\* Stopping a server by a failed save, or (a mutant) serving all the same
SwallowedEnd == Up
AfterFailure == Down

\* The save of rows t. An address that is stored already makes it throw.
Save(s, t) ==
  /\ Seeding(s) /\ SeedOrder[server[s]] = t
  /\ IF Refused(t)
     THEN /\ server' = [server EXCEPT ![s] = AfterFailure]
          /\ cut' = (cut \/ server[s] > VenuesAt)
          /\ UNCHANGED copies
     ELSE /\ copies' = [copies EXCEPT ![t] = IF @ < MaxCopies THEN @ + 1 ELSE @]
          /\ server' = [server EXCEPT ![s] = @ + 1]
          /\ UNCHANGED cut
  /\ UNCHANGED ends

SeedTags(s) == Save(s, "tags")
SeedAdminUser(s) == Save(s, "admin")
SeedDemoUser(s) == Save(s, "demo")
SeedVenues(s) == Save(s, "venues")
SeedBusyness(s) == Save(s, "busyness")
SeedVibes(s) == Save(s, "vibes")
SeedOffers(s) == Save(s, "offers")
SeedNotifications(s) == Save(s, "notifications")
SeedAnalytics(s) == Save(s, "analytics")
\* Two saves. After the second one onModuleInit is over and the server listens.
SeedBusinessUsers(s) == Save(s, "business") \/ Save(s, "owners")

SeedSave(s) ==
  \/ SeedTags(s) \/ SeedAdminUser(s) \/ SeedDemoUser(s) \/ SeedVenues(s)
  \/ SeedBusyness(s) \/ SeedVibes(s) \/ SeedOffers(s) \/ SeedNotifications(s)
  \/ SeedAnalytics(s) \/ SeedBusinessUsers(s)

\* The process is killed, or the database fails a save, of which nothing is
\* stored then.
ServerEnds(s) ==
  /\ server[s] # Down
  /\ ends < MaxEnds
  /\ ends' = ends + 1
  /\ server' = [server EXCEPT ![s] = Down]
  /\ cut' = (cut \/ (Seeding(s) /\ server[s] > VenuesAt))
  /\ UNCHANGED copies

SeedInit ==
  /\ server = [s \in Servers |-> Down]
  /\ copies = [t \in Saves |-> 0]
  /\ cut = FALSE
  /\ ends = 0

SeedNext == \E s \in Servers :
  Start(s) \/ CountVenues(s) \/ SeedSave(s) \/ ServerEnds(s)

SeedSpec == SeedInit /\ [][SeedNext]_seedVars
-----------------------------------------------------------------------------
(* However many servers start at once, and however often they are killed   *)
(* and started again in the middle, only the tags are ever stored twice:   *)
(* the address of the administrator is stored before everything else that  *)
(* has no key of its own, and lets one seeding pass.                       *)
SeededOnce == \A t \in Saves \ {"tags"} : copies[t] <= 1

(* A server that listens while none is seeding has the whole catalogue     *)
(* behind it, unless a seeding was ended after it stored the venues: the   *)
(* count of venues then hides for ever what is missing.                    *)
ServesWhole ==
  (\E s \in Servers : server[s] = Up) /\ (\A s \in Servers : ~Seeding(s))
    => cut \/ \A t \in Saves : copies[t] > 0
=============================================================================
