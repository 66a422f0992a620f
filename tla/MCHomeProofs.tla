---------------------------- MODULE MCHomeProofs ----------------------------
(***************************************************************************)
(* Proofs about what the mirror is to the home (MCHome): the rules of the   *)
(* home network, and the devices on the owner's MQTT broker.                *)
(***************************************************************************)
EXTENDS MCHome, Integers, TLAPS, FiniteSetTheorems

(* A behaviour stays one of the component it began as, and each step is a step of that
   component, or leaves it alone. *)
LEMMA StepOfPart == ASSUME [Next]_vars
  PROVE  /\ part' = part
         /\ part = "mqtt" => [Mqtt!Next]_MqttVars
         /\ part = "lan" => [Lan!Next]_LanVars
BY DEF Next, vars

-----------------------------------------------------------------------------
(* The home network.                                                        *)

LanPcs == {"idle", "asked", "waits", "looks", "nft", "cgroup"}
LanActor == [pc : LanPcs, modules : [Reached -> SUBSET Names], pairs : SUBSET Lan!Pairs]

\* The helper is run by one at a time, with what it takes.
LanTypes ==
  /\ hosts \in [Reached -> SUBSET Names] /\ dns \in [Names -> SUBSET Addresses] /\ owed \in BOOLEAN
  /\ uids \subseteq Reached /\ lan \in (SUBSET Lan!Pairs) \cup {Lan!Unset} /\ nft \subseteq Lan!Pairs
  /\ cgroup \subseteq Addresses /\ actor \in [Lan!Actors -> LanActor] /\ torn \in BOOLEAN
OneHolds == \A a, c \in Lan!Actors : actor[a].pc \in {"looks", "nft", "cgroup"} /\ actor[c].pc \in {"looks", "nft", "cgroup"}
                                       => a = c
FewPairs == Cardinality(nft) <= Limit /\ \A a \in Lan!Actors : Cardinality(actor[a].pairs) <= Limit

\* Between its two steps the helper has set the rules and not the filter; otherwise both are what the core believes,
\* unless it ended there.
BelievedInv ==
  /\ \A a \in Lan!Actors : actor[a].pc = "cgroup" => nft = actor[a].pairs
  /\ ~torn /\ (\A a \in Lan!Actors : actor[a].pc # "cgroup") /\ lan # Lan!Unset => nft = lan /\ cgroup = Lan!Closes(lan)

LanInv == LanTypes /\ OneHolds /\ FewPairs /\ BelievedInv

(* The pairs are finitely many, and each has its place among them. *)
LEMMA LanConstants ==
  /\ Limit \in Nat /\ Reached \subseteq Nat /\ Addresses \subseteq Nat
  /\ IsFiniteSet(Lan!Pairs) /\ Lan!Pairs = Reached \X Addresses
  <1>1. Limit \in Nat /\ Reached \subseteq Nat /\ Addresses \subseteq Nat /\ Lan!IsFiniteSet(Reached) /\ Lan!IsFiniteSet(Addresses)
    BY HomeAssumption DEF Lan!LanAssumption
  <1>2. IsFiniteSet(Reached) /\ IsFiniteSet(Addresses)
    BY <1>1 DEF Lan!IsFiniteSet, IsFiniteSet
  <1>3. IsFiniteSet(Reached \X Addresses)
    BY <1>2, FS_Product
  <1> QED
    BY <1>1, <1>3 DEF Lan!Pairs

(* No more than the limit are first of any set of pairs: those before each are fewer than the limit and different
   in number. *)
LEMMA FirstAreFew ==
  ASSUME NEW pairs \in SUBSET Lan!Pairs
  PROVE  Lan!First(pairs) \subseteq pairs /\ Cardinality(Lan!First(pairs)) <= Limit
  <1> DEFINE before(p) == {q \in pairs : Lan!Before(q, p)}
             place == [p \in Lan!First(pairs) |-> Cardinality(before(p))]
  <1>1. IsFiniteSet(pairs) /\ \A p : IsFiniteSet(before(p)) /\ Cardinality(before(p)) \in Nat
    <2>1. IsFiniteSet(pairs)
      BY LanConstants, FS_Subset
    <2> QED
      BY <2>1, FS_Subset, FS_CardinalityType
  <1>2. Lan!First(pairs) = {p \in pairs : Cardinality(before(p)) < Limit}
    BY DEF Lan!First, Lan!Cardinality, Cardinality
  <1>3. IsFiniteSet(Lan!First(pairs)) /\ Cardinality(Lan!First(pairs)) \in Nat
    BY <1>1, <1>2, FS_Subset, FS_CardinalityType
  <1>4. IsFiniteSet(0..Limit - 1) /\ Cardinality(0..Limit - 1) = Limit
    BY LanConstants, FS_Interval
  <1>5. place \in [Lan!First(pairs) -> 0..Limit - 1]
    <2>1. \A p \in Lan!First(pairs) : Cardinality(before(p)) \in 0..Limit - 1
      <3>1. \A p \in Lan!First(pairs) : Cardinality(before(p)) < Limit
        BY <1>2
      <3> HIDE DEF before
      <3> QED
        BY <1>1, <3>1, LanConstants
    <2> QED
      BY <2>1
  <1>6. ASSUME NEW p \in Lan!First(pairs), NEW q \in Lan!First(pairs), p # q PROVE place[p] # place[q]
    <2>1. \A s, t \in pairs : Lan!Before(s, t) => Cardinality(before(s)) < Cardinality(before(t))
      <3> SUFFICES ASSUME NEW s \in pairs, NEW t \in pairs, Lan!Before(s, t)
                   PROVE  Cardinality(before(s)) < Cardinality(before(t))
        OBVIOUS
      <3>1. \A r \in pairs : r[1] \in Nat /\ r[2] \in Nat
        BY LanConstants
      <3>2. before(s) \subseteq before(t) /\ s \in before(t) /\ s \notin before(s)
        BY <3>1 DEF Lan!Before
      <3> QED
        BY <1>1, <3>2, FS_Subset
    <2>2. Lan!Before(p, q) \/ Lan!Before(q, p)
      <3>1. p \in Nat \X Nat /\ q \in Nat \X Nat
        BY <1>2, LanConstants
      <3> QED
        BY <3>1, <1>6 DEF Lan!Before
    <2>3. p \in pairs /\ q \in pairs /\ place[p] = Cardinality(before(p)) /\ place[q] = Cardinality(before(q))
      BY <1>2
    <2> HIDE DEF before, place
    <2> QED
      BY <1>1, <2>1, <2>2, <2>3
  <1> HIDE DEF place
  <1>7. ~(Cardinality(Lan!First(pairs)) > Cardinality(0..Limit - 1))
    BY <1>3, <1>4, <1>5, <1>6, FS_PigeonHole
  <1> QED
    BY <1>2, <1>3, <1>4, <1>7, LanConstants

(* Nothing is asked of the helper at first. *)
LEMMA NoPairs == Cardinality({}) = 0 /\ 0 <= Limit /\ Lan!Idle \in LanActor /\ Lan!Idle.pc = "idle" /\ Lan!Idle.pairs = {}
  <1>1. Lan!NoModules \in [Reached -> SUBSET Names]
    BY DEF Lan!NoModules
  <1> QED
    BY <1>1, LanConstants, FS_EmptySet DEF Lan!Idle, LanActor, LanPcs

LEMMA LanInit == ASSUME Lan!Init PROVE LanInv
  <1>1. LanTypes
    <2>1. actor \in [Lan!Actors -> LanActor]
      BY NoPairs DEF Lan!Init
    <2>2. hosts \in [Reached -> SUBSET Names] /\ dns \in [Names -> SUBSET Addresses]
      BY DEF Lan!Init
    <2>3. owed \in BOOLEAN /\ uids = {} /\ lan = Lan!Unset /\ nft = {} /\ cgroup = {} /\ torn = FALSE
      BY DEF Lan!Init
    <2> QED
      BY <2>1, <2>2, <2>3 DEF LanTypes
  <1>2. \A a \in Lan!Actors : actor[a] = Lan!Idle
    BY DEF Lan!Init
  <1>3. OneHolds /\ FewPairs /\ BelievedInv
    BY <1>2, NoPairs DEF OneHolds, FewPairs, BelievedInv, Lan!Init
  <1> QED
    BY <1>1, <1>3 DEF LanInv

(* One of the two goes on, and the helper sets nothing. *)
LEMMA OneGoesOn ==
  ASSUME LanInv, NEW a \in Lan!Actors, NEW new \in LanActor, actor' = [actor EXCEPT ![a] = new], UNCHANGED <<lan, nft, cgroup, torn>>,
         actor[a].pc # "cgroup", new.pc # "cgroup", Cardinality(new.pairs) <= Limit,
         new.pc \in {"looks", "nft"} => actor[a].pc \in {"looks", "nft"} \/ ~Lan!Locked
  PROVE  actor' \in [Lan!Actors -> LanActor] /\ OneHolds' /\ FewPairs' /\ BelievedInv'
  <1>1. /\ actor' \in [Lan!Actors -> LanActor] /\ actor'[a] = new
        /\ \A c \in Lan!Actors : c # a => actor'[c] = actor[c]
    BY DEF LanInv, LanTypes
  <1>2. OneHolds'
    BY <1>1 DEF LanInv, OneHolds, Lan!Locked
  <1>3. FewPairs'
    BY <1>1 DEF LanInv, FewPairs
  <1>4. BelievedInv'
    BY <1>1 DEF LanInv, BelievedInv
  <1> QED
    BY <1>1, <1>2, <1>3, <1>4

(* Neither goes on, and the helper sets nothing. *)
LEMMA NeitherGoesOn ==
  ASSUME LanInv, UNCHANGED <<actor, lan, nft, cgroup, torn>>
  PROVE  actor' \in [Lan!Actors -> LanActor] /\ OneHolds' /\ FewPairs' /\ BelievedInv'
BY DEF LanInv, LanTypes, OneHolds, FewPairs, BelievedInv

(* A sync up to its call of _apply_lan, and the refresh. *)
LEMMA LanAsks == ASSUME LanInv, Lan!Asks \/ Lan!Refreshes PROVE LanInv'
  <1>1. ASSUME Lan!Asks PROVE LanInv'
    <2> DEFINE new == [pc |-> "asked", modules |-> hosts, pairs |-> {}]
    <2>1. new \in LanActor
      BY DEF LanInv, LanTypes, LanActor, LanPcs
    <2>2. actor' \in [Lan!Actors -> LanActor] /\ OneHolds' /\ FewPairs' /\ BelievedInv'
      BY <1>1, <2>1, NoPairs, OneGoesOn DEF Lan!Asks, Lan!Actors
    <2> QED
      BY <1>1, <2>2 DEF Lan!Asks, LanInv, LanTypes
  <1>2. ASSUME Lan!Refreshes PROVE LanInv'
    <2> DEFINE new == [pc |-> "waits", modules |-> hosts, pairs |-> {}]
    <2>1. new \in LanActor
      BY DEF LanInv, LanTypes, LanActor, LanPcs
    <2>2. actor' \in [Lan!Actors -> LanActor] /\ OneHolds' /\ FewPairs' /\ BelievedInv'
      BY <1>2, <2>1, NoPairs, OneGoesOn DEF Lan!Refreshes, Lan!Actors
    <2> QED
      BY <1>2, <2>2 DEF Lan!Refreshes, LanInv, LanTypes
  <1> QED
    BY <1>1, <1>2

LEMMA HostSays == ASSUME LanInv, Lan!HostAnswers \/ Lan!HostIsOpen \/ Lan!HostEnds PROVE LanInv'
  <1> DEFINE old == actor["sync"]
  <1>1. old \in LanActor /\ "sync" \in Lan!Actors /\ Cardinality(old.pairs) <= Limit
    BY DEF LanInv, LanTypes, FewPairs, Lan!Actors
  <1>2. ASSUME Lan!HostAnswers PROVE LanInv'
    <2> DEFINE new == [old EXCEPT !.pc = "waits"]
    <2>1. new \in LanActor /\ new.pc = "waits" /\ new.pairs = old.pairs
      BY <1>1 DEF LanActor, LanPcs
    <2>2. actor' = [actor EXCEPT !["sync"] = new]
      BY <1>2 DEF Lan!HostAnswers
    <2> HIDE DEF new
    <2>3. actor' \in [Lan!Actors -> LanActor] /\ OneHolds' /\ FewPairs' /\ BelievedInv'
      BY <1>1, <1>2, <2>1, <2>2, OneGoesOn DEF Lan!HostAnswers
    <2> QED
      BY <1>2, <2>3 DEF Lan!HostAnswers, LanInv, LanTypes
  <1>3. ASSUME Lan!HostIsOpen PROVE LanInv'
    <2> DEFINE new == [old EXCEPT !.pc = "waits", !.modules = Lan!NoModules]
    <2>1. new \in LanActor /\ new.pc = "waits" /\ new.pairs = old.pairs
      BY <1>1 DEF LanActor, LanPcs, Lan!NoModules
    <2>2. actor' = [actor EXCEPT !["sync"] = new]
      BY <1>3 DEF Lan!HostIsOpen
    <2> HIDE DEF new
    <2>3. actor' \in [Lan!Actors -> LanActor] /\ OneHolds' /\ FewPairs' /\ BelievedInv'
      BY <1>1, <1>3, <2>1, <2>2, OneGoesOn DEF Lan!HostIsOpen
    <2> QED
      BY <1>3, <2>3 DEF Lan!HostIsOpen, LanInv, LanTypes
  <1>4. ASSUME Lan!HostEnds PROVE LanInv'
    <2>1. actor' \in [Lan!Actors -> LanActor] /\ OneHolds' /\ FewPairs' /\ BelievedInv'
      BY <1>1, <1>4, NoPairs, OneGoesOn DEF Lan!HostEnds
    <2> QED
      BY <1>4, <2>1 DEF Lan!HostEnds, LanInv, LanTypes
  <1> QED
    BY <1>2, <1>3, <1>4

(* The lock is taken, and names are looked up. *)
LEMMA LanTakes == ASSUME LanInv, NEW a \in Lan!Actors, Lan!Takes(a) PROVE LanInv'
  <1> DEFINE old == actor[a]
             new == [old EXCEPT !.pc = "looks"]
  <1>1. old \in LanActor /\ Cardinality(old.pairs) <= Limit
    BY DEF LanInv, LanTypes, FewPairs
  <1>2. new \in LanActor /\ new.pc = "looks" /\ new.pairs = old.pairs
    BY <1>1 DEF LanActor, LanPcs
  <1>3. actor' = [actor EXCEPT ![a] = new]
    BY DEF Lan!Takes
  <1> HIDE DEF new
  <1>4. actor' \in [Lan!Actors -> LanActor] /\ OneHolds' /\ FewPairs' /\ BelievedInv'
    BY <1>1, <1>2, <1>3, OneGoesOn DEF Lan!Takes
  <1> QED
    BY <1>4 DEF Lan!Takes, LanInv, LanTypes

LEMMA LanLooks == ASSUME LanInv, NEW a \in Lan!Actors, Lan!Looks(a) PROVE LanInv'
  <1> DEFINE old == actor[a]
  <1>1. old \in LanActor /\ old.pc = "looks"
    BY DEF LanInv, LanTypes, Lan!Looks
  <1>2. PICK answered : LET pairs == Lan!Wanted(actor[a].modules, uids, answered)
                        IN  actor' = [actor EXCEPT ![a] = IF pairs = lan THEN Lan!Idle ELSE [@ EXCEPT !.pc = "nft", !.pairs = pairs]]
    BY DEF Lan!Looks
  <1> DEFINE pairs == Lan!Wanted(actor[a].modules, uids, answered)
             asked == [old EXCEPT !.pc = "nft", !.pairs = pairs]
             new == IF pairs = lan THEN Lan!Idle ELSE asked
  <1>3. pairs \subseteq Lan!Pairs /\ Cardinality(pairs) <= Limit
    <2> DEFINE all == {pair \in Lan!Pairs : pair[1] \in uids /\ \E name \in actor[a].modules[pair[1]] \cap answered : pair[2] \in dns[name]}
    <2>1. all \in SUBSET Lan!Pairs /\ pairs = Lan!First(all)
      BY DEF Lan!Wanted
    <2> HIDE DEF all, pairs
    <2> QED
      BY <2>1, FirstAreFew
  <1>4. actor' = [actor EXCEPT ![a] = new]
    BY <1>2
  <1> HIDE DEF pairs
  <1>5. asked \in LanActor /\ asked.pc = "nft" /\ asked.pairs = pairs
    BY <1>1, <1>3 DEF LanActor, LanPcs
  <1> HIDE DEF asked
  <1>6. new \in LanActor /\ new.pc \in {"idle", "nft"} /\ Cardinality(new.pairs) <= Limit
    BY <1>3, <1>5, NoPairs
  <1> HIDE DEF new
  <1>7. actor' \in [Lan!Actors -> LanActor] /\ OneHolds' /\ FewPairs' /\ BelievedInv'
    <2>1. UNCHANGED <<lan, nft, cgroup, torn>>
      BY DEF Lan!Looks
    <2> QED
      BY <1>1, <1>4, <1>6, <2>1, OneGoesOn
  <1> QED
    BY <1>7 DEF Lan!Looks, LanInv, LanTypes

(* The helper sets the rules, or nothing; then the filter. *)
LEMMA SetsRules == ASSUME LanInv, NEW a \in Lan!Actors, Lan!SetsRules(a) PROVE LanInv'
  <1> DEFINE old == actor[a]
             new == [old EXCEPT !.pc = "cgroup"]
  <1>1. old \in LanActor /\ Cardinality(old.pairs) <= Limit /\ old.pc = "nft"
    BY DEF LanInv, LanTypes, FewPairs, Lan!SetsRules
  <1>2. new \in LanActor /\ new.pc = "cgroup" /\ new.pairs = old.pairs
    BY <1>1 DEF LanActor, LanPcs
  <1>3. actor' = [actor EXCEPT ![a] = new] /\ nft' = old.pairs /\ torn' = torn
    BY DEF Lan!SetsRules
  <1> HIDE DEF new
  <1>4. /\ actor' \in [Lan!Actors -> LanActor] /\ actor'[a] = new
        /\ \A c \in Lan!Actors : c # a => actor'[c] = actor[c]
    BY <1>2, <1>3 DEF LanInv, LanTypes
  <1>5. OneHolds'
    BY <1>1, <1>4 DEF LanInv, OneHolds
  <1>6. FewPairs'
    BY <1>1, <1>2, <1>3, <1>4 DEF LanInv, FewPairs
  <1>7. BelievedInv'
    <2>1. \A c \in Lan!Actors : c # a => actor[c].pc # "cgroup"
      BY <1>1 DEF LanInv, OneHolds
    <2> QED
      BY <1>2, <1>3, <1>4, <2>1 DEF BelievedInv
  <1>8. LanTypes'
    BY <1>1, <1>3, <1>4 DEF Lan!SetsRules, LanInv, LanTypes, LanActor
  <1> QED
    BY <1>5, <1>6, <1>7, <1>8 DEF LanInv

LEMMA RulesRefused == ASSUME LanInv, NEW a \in Lan!Actors, Lan!Refused(a) PROVE LanInv'
  <1>1. actor' \in [Lan!Actors -> LanActor] /\ OneHolds' /\ FewPairs' /\ BelievedInv'
    BY NoPairs, OneGoesOn DEF Lan!Refused
  <1> QED
    BY <1>1 DEF Lan!Refused, LanInv, LanTypes

LEMMA SetsFilter == ASSUME LanInv, NEW a \in Lan!Actors, Lan!SetsFilter(a) PROVE LanInv'
  <1>1. /\ actor[a].pc = "cgroup" /\ actor' = [actor EXCEPT ![a] = Lan!Idle] /\ UNCHANGED <<hosts, dns, owed, uids, nft>>
        /\ \/ cgroup' = Lan!Closes(actor[a].pairs) /\ lan' = actor[a].pairs /\ torn' = FALSE
           \/ torn' = TRUE /\ UNCHANGED <<cgroup, lan>>
    BY DEF Lan!SetsFilter
  <1>2. /\ actor' \in [Lan!Actors -> LanActor] /\ actor'[a] = Lan!Idle
        /\ \A c \in Lan!Actors : c # a => actor'[c] = actor[c]
    BY <1>1, NoPairs DEF LanInv, LanTypes
  <1>3. OneHolds'
    BY <1>2, NoPairs DEF LanInv, OneHolds
  <1>4. FewPairs'
    BY <1>1, <1>2, NoPairs DEF LanInv, FewPairs
  <1>5. BelievedInv'
    <2>1. nft = actor[a].pairs /\ \A c \in Lan!Actors : actor'[c].pc # "cgroup"
      BY <1>1, <1>2, NoPairs DEF LanInv, BelievedInv, OneHolds
    <2> QED
      BY <1>1, <2>1 DEF BelievedInv
  <1>6. LanTypes'
    <2>1. actor[a].pairs \subseteq Lan!Pairs
      BY DEF LanInv, LanTypes, LanActor
    <2>2. cgroup' \subseteq Addresses
      <3>1. Lan!Closes(actor[a].pairs) \subseteq Addresses
        BY <2>1, LanConstants DEF Lan!Closes
      <3>2. cgroup \subseteq Addresses
        BY DEF LanInv, LanTypes
      <3> QED
        BY <1>1, <3>1, <3>2
    <2> QED
      BY <1>1, <1>2, <2>1, <2>2 DEF LanInv, LanTypes
  <1> QED
    BY <1>3, <1>4, <1>5, <1>6 DEF LanInv

(* The owner, the network, the core and the Pi. *)
LEMMA HomeChanges == ASSUME LanInv, Lan!Saves \/ Lan!Moves PROVE LanInv'
  <1>1. actor' \in [Lan!Actors -> LanActor] /\ OneHolds' /\ FewPairs' /\ BelievedInv'
    BY NeitherGoesOn DEF Lan!Saves, Lan!Moves
  <1>2. hosts' \in [Reached -> SUBSET Names] /\ dns' \in [Names -> SUBSET Addresses] /\ owed' \in BOOLEAN
    BY DEF Lan!Saves, Lan!Moves, LanInv, LanTypes
  <1> QED
    BY <1>1, <1>2 DEF Lan!Saves, Lan!Moves, LanInv, LanTypes

LEMMA CoreRestarts == ASSUME LanInv, Lan!Restarts \/ Lan!Boots PROVE LanInv'
  <1>1. /\ \A a \in Lan!Actors : actor'[a] = Lan!Idle
        /\ lan' = Lan!Unset /\ (UNCHANGED <<nft, cgroup>> \/ (nft' = {} /\ cgroup' = {}))
    BY DEF Lan!Restarts, Lan!Boots
  <1>2. OneHolds' /\ FewPairs' /\ BelievedInv'
    BY <1>1, NoPairs DEF LanInv, OneHolds, FewPairs, BelievedInv
  <1>3. actor' \in [Lan!Actors -> LanActor]
    BY NoPairs DEF Lan!Restarts, Lan!Boots
  <1>4. LanTypes'
    <2>1. UNCHANGED <<hosts, dns>> /\ owed' = TRUE /\ uids' = {} /\ torn' = FALSE
      BY DEF Lan!Restarts, Lan!Boots
    <2> QED
      BY <1>1, <1>3, <2>1 DEF LanInv, LanTypes
  <1> QED
    BY <1>2, <1>4 DEF LanInv

LEMMA LanStep == ASSUME LanInv, [Lan!Next]_LanVars PROVE LanInv'
  <1>1. ASSUME UNCHANGED LanVars PROVE LanInv'
    <2>1. actor' \in [Lan!Actors -> LanActor] /\ OneHolds' /\ FewPairs' /\ BelievedInv'
      BY <1>1, NeitherGoesOn DEF LanVars
    <2> QED
      BY <1>1, <2>1 DEF LanVars, LanInv, LanTypes
  <1> QED
    BY <1>1, LanAsks, HostSays, LanTakes, LanLooks, SetsRules, RulesRefused, SetsFilter, HomeChanges, CoreRestarts
    DEF Lan!Next, Lan!Applies

(* While no helper runs, and none ended half-way since one was done, what the core takes to be in force is what nftables
   and the unit's filter hold, and never more pairs than the helper takes, across syncs, refreshes, helpers that fail,
   restarts and boots, for any instances, names, addresses and limit (lan.apply). *)
THEOREM InForceIsAlwaysSo == Spec => []InForceIsSo
  <1> DEFINE Inv == part = "lan" => LanInv
  <1>1. Init => Inv
    BY LanInit DEF Init
  <1>2. Inv /\ [Next]_vars => Inv'
    BY LanStep, StepOfPart
  <1>3. Inv => InForceIsSo
    <2> SUFFICES ASSUME LanInv PROVE Lan!InForceIsSo
      BY DEF InForceIsSo
    <2>1. Lan!TypeOK
      BY DEF LanInv, LanTypes, LanActor, LanPcs, Lan!TypeOK
    <2>2. Lan!Cardinality(nft) <= Limit
      BY DEF LanInv, FewPairs, Lan!Cardinality, Cardinality
    <2> QED
      BY <2>1, <2>2 DEF LanInv, BelievedInv, Lan!InForceIsSo, Lan!ForceIsAlwaysSo, Lan!Locked
  <1> QED
    BY <1>1, <1>2, <1>3, PTL DEF Spec

-----------------------------------------------------------------------------
(* The devices on the broker.                                               *)

Saved == [on : BOOLEAN, share : SUBSET Modules, have : SUBSET Modules, enabled : SUBSET Modules, control : BOOLEAN]
Prints == (SUBSET Modules) \X (SUBSET Modules) \X BOOLEAN
Sent == {"", "shown", "controls", "value"}
Pass == [pc : {"none", "dead", "idle", "devices", "removed", "cleared", "values"}, cfg : Saved, todo : SUBSET Mqtt!Topics]
Request == [pc : {"idle", "forgets", "stops", "cancels", "ends"}, op : {"save", "off"}, todo : SUBSET Mqtt!Topics,
            client : Tasks \cup {Nobody}, grew : BOOLEAN]

MqttTypes ==
  /\ cfg \in Saved /\ retained \in [Mqtt!Topics -> {Nobody, "online", "offline"} \cup Sent]
  /\ published \in [Mqtt!Topics -> {Nobody} \cup Sent]
  /\ run \in [Tasks -> {"none", "connects", "greets", "serves", "sleeps"}]
  /\ task \in Tasks \cup {Nobody} /\ client \in Tasks \cup {Nobody} /\ session \in Tasks \cup {Nobody}
  /\ shared \subseteq Modules /\ enable \subseteq Modules /\ unsaid \in BOOLEAN
  /\ pub \in [Tasks -> Pass] /\ req \in [Requests -> Request]
  /\ found \in [print : {<<>>} \cup Prints, due : BOOLEAN] /\ (~found.due => found.print \in Prints)

\* The bridge's task is the only one, and has the connection there is; its publisher runs while it serves.
TaskInv ==
  /\ \A t \in Tasks : run[t] # "none" => t = task
  /\ client = session /\ \A t \in Tasks : session = t <=> run[t] \in {"greets", "serves"}
  /\ \A t \in Tasks : (pub[t].pc # "none" => run[t] = "serves") /\ (run[t] = "greets" => found.due)

\* A request that stops it has told the broker so, if that didn't go unsaid, and the task can't come back meanwhile.
StopInv ==
  /\ unsaid \/ (retained[Mqtt!Status] = "online" => session # Nobody)
  /\ \A r \in Requests :
       /\ req[r].pc = "cancels" => (unsaid \/ retained[Mqtt!Status] # "online") /\ \A t \in Tasks : run[t] # "connects"
       /\ req[r].pc = "ends" => \A t \in Tasks : run[t] = "none"
       /\ req[r].pc = "forgets" => req[r].client = task

\* What it published over this connection is on the broker, unless a request has removed it or a publish timed out.
Undisturbed == gone = "no" /\ \A r \in Requests : req[r].pc # "forgets"
PublishedInv ==
  /\ published[Mqtt!Status] = Nobody
  /\ Undisturbed /\ session # Nobody /\ (\A t \in Tasks : pub[t].pc # "dead") =>
       \A topic \in Mqtt!Topics : published[topic] # Nobody => retained[topic] = published[topic]

\* What a pass has yet to send, by its phase.
PassInv ==
  /\ pending \subseteq shared
  /\ \A t \in Tasks :
       /\ pub[t].pc \in {"devices", "removed", "cleared"} => Mqtt!Fingerprint(pub[t].cfg) = found.print
       /\ pub[t].todo \subseteq
            CASE pub[t].pc = "devices" -> {Mqtt!Mirror} \cup {Mqtt!Device(i) : i \in shared}
              [] pub[t].pc = "removed" -> {Mqtt!Device(i) : i \in Modules \ shared}
              [] pub[t].pc = "cleared" -> {Mqtt!State(i) : i \in found.print[2] \ shared}
              [] pub[t].pc = "values" -> {Mqtt!State(i) : i \in shared}
              [] OTHER -> {}

\* What it has sent by then, since the last discovery.
Waits(t, phase, topic) == pub[t].pc = phase /\ topic \in pub[t].todo
SentInv ==
  Undisturbed /\ ~found.due => \A t \in Tasks : pub[t].pc \notin {"none", "dead"} =>
    /\ Waits(t, "devices", Mqtt!Mirror) \/ published[Mqtt!Mirror] = IF found.print[3] THEN "controls" ELSE "shown"
    /\ \A i \in shared : Waits(t, "devices", Mqtt!Device(i)) \/ published[Mqtt!Device(i)] = "shown"
    /\ pub[t].pc \in {"cleared", "values", "idle"} =>
         \A i \in found.print[2] \ shared : Waits(t, "cleared", Mqtt!State(i)) \/ retained[Mqtt!State(i)] # "value"

MqttInv == MqttTypes /\ TaskInv /\ StopInv /\ PublishedInv /\ PassInv /\ SentInv

(* One request at a time: two that wait for the same task each start another. *)
OneRequest == \A r, s \in Requests : r = s

(* Topics are as many as they are written, none of them the status. *)
LEMMA TopicsDiffer ==
  /\ Nobody \notin Tasks /\ Nobody \notin Modules /\ Nobody \notin {"online", "offline"} \cup Sent
  /\ Mqtt!Status \in Mqtt!Topics /\ Mqtt!Mirror \in Mqtt!Topics /\ Mqtt!Mirror # Mqtt!Status
  /\ \A i \in Modules : /\ Mqtt!Device(i) \in Mqtt!Topics \ {Mqtt!Status, Mqtt!Mirror}
                        /\ Mqtt!State(i) \in Mqtt!Topics \ {Mqtt!Status, Mqtt!Mirror}
  /\ \A i, j \in Modules : /\ Mqtt!Device(i) = Mqtt!Device(j) => i = j
                           /\ Mqtt!State(i) = Mqtt!State(j) => i = j
                           /\ Mqtt!Device(i) # Mqtt!State(j)
  <1>1. Nobody \notin Tasks /\ Nobody \notin Modules /\ Nobody \notin {"online", "offline"} \cup Sent
    BY HomeAssumption DEF Mqtt!MqttAssumption, Sent
  <1> QED
    BY <1>1 DEF Mqtt!Status, Mqtt!Mirror, Mqtt!Device, Mqtt!State, Mqtt!Topics

(* The one chosen of several is one of them. *)
LEMMA FirstIsOne == ASSUME NEW todo, todo # {} PROVE Mqtt!First(todo) \in todo
BY DEF Mqtt!First

(* What the settings are at first, and a pass and a request that are none. *)
LEMMA MqttNothing ==
  /\ Mqtt!FirstCfg \in Saved /\ Mqtt!NoPass \in Pass /\ Mqtt!NoPass.pc = "none" /\ Mqtt!NoPass.todo = {}
  /\ [Mqtt!NoPass EXCEPT !.pc = "idle"] \in Pass /\ [Mqtt!NoPass EXCEPT !.pc = "idle"].pc = "idle"
  /\ [Mqtt!NoPass EXCEPT !.pc = "idle"].todo = {}
  /\ Mqtt!NoRequest \in Request /\ Mqtt!NoRequest.pc = "idle"
  /\ Mqtt!Empty \in [Mqtt!Topics -> {Nobody} \cup Sent] /\ \A topic \in Mqtt!Topics : Mqtt!Empty[topic] = Nobody
  <1>1. Mqtt!FirstCfg \in Saved
    BY DEF Mqtt!FirstCfg, Saved
  <1>2. Mqtt!NoPass \in Pass
    BY <1>1 DEF Mqtt!NoPass, Pass
  <1>3. Mqtt!NoRequest \in Request
    BY DEF Mqtt!NoRequest, Request
  <1>4. Mqtt!NoPass.pc = "none" /\ Mqtt!NoPass.todo = {} /\ Mqtt!NoRequest.pc = "idle"
    BY DEF Mqtt!NoPass, Mqtt!NoRequest
  <1>5. [Mqtt!NoPass EXCEPT !.pc = "idle"] \in Pass /\ [Mqtt!NoPass EXCEPT !.pc = "idle"].pc = "idle"
        /\ [Mqtt!NoPass EXCEPT !.pc = "idle"].todo = {}
    BY <1>2, <1>4 DEF Pass
  <1> QED
    BY <1>2, <1>1, <1>3, <1>4, <1>5 DEF Mqtt!Empty

(* A publisher that goes on is the only one, and its connection is up. *)
LEMMA OnePublishes ==
  ASSUME MqttInv, NEW t \in Tasks, pub[t].pc \notin {"none", "dead"}
  PROVE  session # Nobody /\ \A u \in Tasks : pub[u].pc # "dead"
BY TopicsDiffer DEF MqttInv, MqttTypes, TaskInv

LEMMA MqttInit == ASSUME Mqtt!Init PROVE MqttInv
  <1>1. /\ \A t \in Tasks : pub[t] = Mqtt!NoPass /\ run[t] = "none"
        /\ \A r \in Requests : req[r] = Mqtt!NoRequest
        /\ retained = Mqtt!Empty /\ published = Mqtt!Empty
    BY DEF Mqtt!Init
  <1>2. MqttTypes
    <2>1. pub \in [Tasks -> Pass] /\ req \in [Requests -> Request]
      BY MqttNothing DEF Mqtt!Init
    <2>2. retained \in [Mqtt!Topics -> {Nobody, "online", "offline"} \cup Sent] /\ published \in [Mqtt!Topics -> {Nobody} \cup Sent]
      BY <1>1, MqttNothing
    <2>3. found \in [print : {<<>>} \cup Prints, due : BOOLEAN] /\ found.due
      BY DEF Mqtt!Init, Mqtt!Undiscovered
    <2> QED
      BY <2>1, <2>2, <2>3, MqttNothing DEF MqttTypes, Mqtt!Init
  <1>3. TaskInv
    BY <1>1, MqttNothing, TopicsDiffer DEF TaskInv, Mqtt!Init
  <1>4. StopInv
    BY <1>1, MqttNothing, TopicsDiffer DEF StopInv
  <1>5. PublishedInv
    BY <1>1, MqttNothing, TopicsDiffer DEF PublishedInv
  <1>6. PassInv
    BY <1>1, MqttNothing DEF PassInv, Mqtt!Init
  <1>7. SentInv
    BY <1>1, MqttNothing DEF SentInv
  <1> QED
    BY <1>2, <1>3, <1>4, <1>5, <1>6, <1>7 DEF MqttInv

(* What reaches the bridge changes nothing of its connection, its pass and what it sent. *)
LEMMA OnlyReached ==
  ASSUME MqttInv, UNCHANGED <<retained, session, run, task, client, shared, pub, req, gone, unsaid>>,
         cfg' \in Saved, enable' \subseteq Modules, pending' \subseteq shared,
         found' \in [print : {found.print}, due : BOOLEAN], found.due => found'.due,
         published' \in [Mqtt!Topics -> {Nobody} \cup Sent],
         published' = published \/ (found'.due /\ \A topic \in Mqtt!Topics : published'[topic] \in {Nobody, published[topic]})
  PROVE  MqttInv'
  <1>1. MqttTypes'
    <2>1. found' \in [print : {<<>>} \cup Prints, due : BOOLEAN] /\ (~found'.due => found'.print \in Prints)
      BY DEF MqttInv, MqttTypes
    <2> QED
      BY <2>1 DEF MqttInv, MqttTypes
  <1>2. TaskInv'
    BY DEF MqttInv, TaskInv
  <1>3. StopInv'
    BY DEF MqttInv, StopInv
  <1>4. PublishedInv'
    BY TopicsDiffer DEF MqttInv, MqttTypes, PublishedInv, Undisturbed
  <1>5. PassInv'
    <2>1. found'.print = found.print
      OBVIOUS
    <2> QED
      BY <2>1 DEF MqttInv, PassInv
  <1>6. SentInv'
    BY DEF MqttInv, SentInv, Undisturbed, Waits
  <1> QED
    BY <1>1, <1>2, <1>3, <1>4, <1>5, <1>6 DEF MqttInv

LEMMA MqttReached == ASSUME MqttInv, Mqtt!Reaches PROVE MqttInv'
  <1>1. /\ published \in [Mqtt!Topics -> {Nobody} \cup Sent] /\ cfg \in Saved /\ enable \subseteq Modules /\ pending \subseteq shared
        /\ found \in [print : {found.print}, due : BOOLEAN]
    BY DEF MqttInv, MqttTypes, PassInv
  <1>2. ASSUME NEW i \in Modules, Mqtt!ModuleSays(i) PROVE MqttInv'
    <2>1. pending' \subseteq shared
      BY <1>1, <1>2 DEF Mqtt!ModuleSays
    <2> QED
      BY <1>1, <1>2, <2>1, OnlyReached DEF Mqtt!ModuleSays
  <1>3. ASSUME NEW i \in Modules, Mqtt!Command(i) PROVE MqttInv'
    <2>1. enable' \subseteq Modules
      BY <1>1, <1>3 DEF Mqtt!Command
    <2> QED
      BY <1>1, <1>3, <2>1, OnlyReached DEF Mqtt!Command
  <1>4. ASSUME Mqtt!Birth PROVE MqttInv'
    <2>1. found' \in [print : {found.print}, due : BOOLEAN] /\ found'.due
      BY <1>1, <1>4 DEF Mqtt!Birth
    <2>2. \A topic \in Mqtt!Topics : published'[topic] \in {Nobody, published[topic]}
      BY <1>4 DEF Mqtt!Birth
    <2>3. published' \in [Mqtt!Topics -> {Nobody} \cup Sent]
      BY <1>1, <1>4 DEF Mqtt!Birth
    <2> QED
      BY <1>1, <1>4, <2>1, <2>2, <2>3, OnlyReached DEF Mqtt!Birth
  <1>5. ASSUME Mqtt!IntervalPasses PROVE MqttInv'
    <2>1. found' \in [print : {found.print}, due : BOOLEAN] /\ found'.due
      BY <1>1, <1>5 DEF Mqtt!IntervalPasses
    <2> QED
      BY <1>1, <1>5, <2>1, OnlyReached DEF Mqtt!IntervalPasses
  <1>6. ASSUME NEW i \in Modules, Mqtt!Toggle(i) \/ Mqtt!Uninstall(i) PROVE MqttInv'
    <2>1. cfg' \in Saved
      <3>1. CASE Mqtt!Toggle(i)
        <4> DEFINE turned == IF i \in cfg.enabled THEN cfg.enabled \ {i} ELSE cfg.enabled \cup {i}
        <4>1. cfg' = [cfg EXCEPT !.enabled = turned] /\ turned \subseteq Modules
          BY <1>1, <3>1 DEF Mqtt!Toggle, Saved
        <4> HIDE DEF turned
        <4> QED
          BY <1>1, <4>1 DEF Saved
      <3>2. CASE Mqtt!Uninstall(i)
        <4> DEFINE have == cfg.have \ {i}
                   enabled == cfg.enabled \ {i}
        <4>1. cfg' = [cfg EXCEPT !.have = have, !.enabled = enabled] /\ have \subseteq Modules /\ enabled \subseteq Modules
          BY <1>1, <3>2 DEF Mqtt!Uninstall, Saved
        <4> HIDE DEF have, enabled
        <4> QED
          BY <1>1, <4>1 DEF Saved
      <3> QED
        BY <1>6, <3>1, <3>2
    <2> QED
      BY <1>1, <1>6, <2>1, OnlyReached DEF Mqtt!Toggle, Mqtt!Uninstall, Mqtt!bridge
  <1> QED
    BY <1>2, <1>3, <1>4, <1>5, <1>6 DEF Mqtt!Reaches

LEMMA AppliesCommands == ASSUME MqttInv, NEW t \in Tasks, Mqtt!AppliesCommands(t) PROVE MqttInv'
  <1>1. /\ published \in [Mqtt!Topics -> {Nobody} \cup Sent] /\ cfg \in Saved /\ enable \subseteq Modules /\ pending \subseteq shared
        /\ found \in [print : {found.print}, due : BOOLEAN]
    BY DEF MqttInv, MqttTypes, PassInv
  <1>2. cfg' \in Saved
    <2>1. Mqtt!SetEnabled(cfg.enabled, enable) \subseteq Modules
      BY <1>1 DEF Mqtt!SetEnabled, Saved
    <2>2. cfg' = [cfg EXCEPT !.enabled = Mqtt!SetEnabled(cfg.enabled, enable)]
      BY DEF Mqtt!AppliesCommands
    <2> HIDE DEF Mqtt!SetEnabled
    <2> QED
      BY <1>1, <2>1, <2>2 DEF Saved
  <1> QED
    BY <1>1, <1>2, OnlyReached DEF Mqtt!AppliesCommands

(* The broker ends an older connection for this one, and nothing is known of what was sent before. *)
LEMMA Connects == ASSUME MqttInv, NEW t \in Tasks, Mqtt!Connects(t) PROVE MqttInv'
  <1>1. /\ run[t] = "connects" /\ t = task /\ session = Nobody
    BY TopicsDiffer DEF MqttInv, MqttTypes, TaskInv, Mqtt!Connects
  <1>2. /\ session' = t /\ client' = t /\ run' = [run EXCEPT ![t] = "greets"] /\ pub' = pub
        /\ \A u \in Tasks : pub[u].pc = "none"
    <2>1. \A u \in Tasks : u # session
      BY <1>1, TopicsDiffer
    <2> QED
      BY <1>1, <2>1 DEF MqttInv, MqttTypes, TaskInv, Mqtt!Connects
  <1>3. /\ published' = Mqtt!Empty /\ found' \in [print : {found.print}, due : BOOLEAN] /\ found'.due /\ gone' = "no" /\ unsaid' = FALSE
        /\ retained' = [retained EXCEPT ![Mqtt!Status] = "online"]
        /\ UNCHANGED <<cfg, task, pending, enable, shared, req>>
    BY DEF MqttInv, MqttTypes, Mqtt!Connects
  <1>4. MqttTypes'
    <2>1. found' \in [print : {<<>>} \cup Prints, due : BOOLEAN]
      BY <1>3 DEF MqttInv, MqttTypes
    <2> QED
      BY <1>1, <1>2, <1>3, <2>1, MqttNothing DEF MqttInv, MqttTypes
  <1>5. TaskInv'
    BY <1>1, <1>2, <1>3 DEF MqttInv, MqttTypes, TaskInv
  <1>6. StopInv'
    <2>1. \A r \in Requests : req[r].pc # "cancels" /\ req[r].pc # "ends"
      BY <1>1 DEF MqttInv, StopInv
    <2> QED
      BY <1>1, <1>2, <1>3, <2>1, TopicsDiffer DEF MqttInv, StopInv
  <1>7. PublishedInv'
    BY <1>3, MqttNothing, TopicsDiffer DEF PublishedInv
  <1>8. PassInv'
    BY <1>2, <1>3 DEF MqttInv, PassInv
  <1>9. SentInv'
    BY <1>3 DEF SentInv
  <1> QED
    BY <1>4, <1>5, <1>6, <1>7, <1>8, <1>9 DEF MqttInv

LEMMA Serves == ASSUME MqttInv, NEW t \in Tasks, Mqtt!Serves(t) PROVE MqttInv'
  <1>1. /\ run[t] = "greets" /\ run' = [run EXCEPT ![t] = "serves"] /\ found.due
        /\ pub' = [pub EXCEPT ![t] = [Mqtt!NoPass EXCEPT !.pc = "idle"]]
        /\ UNCHANGED <<cfg, retained, session, task, client, published, pending, enable, shared, found, req, gone, unsaid>>
    BY DEF Mqtt!Serves, Mqtt!bridge, MqttInv, TaskInv
  <1>2. MqttTypes'
    BY <1>1, MqttNothing DEF MqttInv, MqttTypes
  <1>3. TaskInv'
    BY <1>1 DEF MqttInv, MqttTypes, TaskInv
  <1>4. StopInv'
    BY <1>1 DEF MqttInv, MqttTypes, StopInv
  <1>5. PublishedInv'
    <2>1. pub[t].pc = "none" /\ \A u \in Tasks : u # t => pub'[u] = pub[u]
      BY <1>1 DEF MqttInv, MqttTypes, TaskInv
    <2> QED
      BY <1>1, <2>1 DEF MqttInv, PublishedInv, Undisturbed
  <1>6. PassInv'
    BY <1>1, MqttNothing DEF MqttInv, MqttTypes, PassInv
  <1>7. SentInv'
    BY <1>1 DEF SentInv
  <1> QED
    BY <1>2, <1>3, <1>4, <1>5, <1>6, <1>7 DEF MqttInv

(* A connection that is refused or lost, and the next try. *)
LEMMA Refused == ASSUME MqttInv, NEW t \in Tasks, Mqtt!Refused(t) \/ Mqtt!TriesAgain(t) PROVE MqttInv'
  <1>1. /\ run[t] \in {"connects", "sleeps"} /\ run' \in [Tasks -> {"none", "connects", "greets", "serves", "sleeps"}]
        /\ run'[t] \in {"connects", "sleeps"} /\ \A u \in Tasks : u # t => run'[u] = run[u]
        /\ run'[t] = "connects" => \A r \in Requests : req[r].pc # "cancels"
    BY DEF Mqtt!Refused, Mqtt!TriesAgain, Mqtt!Drops, MqttInv, MqttTypes
  <1>2. UNCHANGED <<cfg, retained, session, task, client, published, pending, enable, shared, found, pub, req, gone, unsaid>>
    BY DEF Mqtt!Refused, Mqtt!TriesAgain, Mqtt!bridge
  <1>3. MqttTypes'
    BY <1>1, <1>2 DEF MqttInv, MqttTypes
  <1>4. TaskInv'
    BY <1>1, <1>2 DEF MqttInv, TaskInv
  <1>5. StopInv'
    BY <1>1, <1>2 DEF MqttInv, StopInv
  <1>6. PublishedInv' /\ PassInv' /\ SentInv'
    BY <1>2 DEF MqttInv, PublishedInv, PassInv, SentInv, Undisturbed, Waits
  <1> QED
    BY <1>3, <1>4, <1>5, <1>6 DEF MqttInv

LEMMA Loses == ASSUME MqttInv, NEW t \in Tasks, Mqtt!Loses(t) PROVE MqttInv'
  <1>1. /\ run[t] \in {"greets", "serves"} /\ run' = [run EXCEPT ![t] = "sleeps"] /\ session' = Nobody /\ client' = Nobody
        /\ pub' = [pub EXCEPT ![t] = Mqtt!NoPass]
        /\ UNCHANGED <<cfg, task, published, pending, enable, shared, found, req, gone>>
        /\ \/ retained' = [retained EXCEPT ![Mqtt!Status] = "offline"] /\ unsaid' = FALSE
           \/ unsaid' = TRUE /\ retained' = retained
    BY DEF Mqtt!Loses, Mqtt!Drops
  <1>2. t = task /\ \A u \in Tasks : u # t => run[u] = "none" /\ pub[u].pc = "none"
    BY <1>1 DEF MqttInv, TaskInv
  <1>3. MqttTypes'
    BY <1>1, MqttNothing, TopicsDiffer DEF MqttInv, MqttTypes
  <1>4. TaskInv'
    BY <1>1, <1>2, MqttNothing, TopicsDiffer DEF MqttInv, MqttTypes, TaskInv
  <1>5. StopInv'
    <2>1. unsaid' \/ retained'[Mqtt!Status] # "online"
      BY <1>1, TopicsDiffer DEF MqttInv, MqttTypes
    <2> QED
      BY <1>1, <2>1 DEF MqttInv, MqttTypes, StopInv
  <1>6. PublishedInv'
    BY <1>1 DEF MqttInv, PublishedInv
  <1>7. PassInv'
    BY <1>1, MqttNothing DEF MqttInv, MqttTypes, PassInv
  <1>8. SentInv'
    <2>1. \A u \in Tasks : pub'[u].pc = "none"
      BY <1>1, <1>2, MqttNothing DEF MqttInv, MqttTypes
    <2> QED
      BY <2>1 DEF SentInv
  <1> QED
    BY <1>3, <1>4, <1>5, <1>6, <1>7, <1>8 DEF MqttInv

(* A pass with a discovery begins: all of what is shared now waits. *)
LEMMA Discovers == ASSUME MqttInv, NEW t \in Tasks, Mqtt!Discovers(t) PROVE MqttInv'
  <1> DEFINE devices == {Mqtt!Mirror} \cup {Mqtt!Device(i) : i \in shared'}
             new == [pc |-> "devices", cfg |-> cfg, todo |-> devices]
  <1>1. /\ pub[t].pc = "idle" /\ found' = [print |-> Mqtt!Fingerprint(cfg), due |-> FALSE]
        /\ shared' = Mqtt!SharedNow(cfg) /\ pending' = pending \intersect shared'
        /\ pub' = [pub EXCEPT ![t] = new]
        /\ UNCHANGED <<cfg, retained, session, run, task, client, published, enable, req, gone, unsaid>>
    BY DEF Mqtt!Discovers
  <1>2. shared' \subseteq Modules /\ Mqtt!Fingerprint(cfg) \in Prints /\ cfg \in Saved
    BY <1>1 DEF MqttInv, MqttTypes, Saved, Prints, Mqtt!Fingerprint, Mqtt!SharedNow
  <1>3. new \in Pass /\ new.pc = "devices" /\ new.todo = devices /\ new.cfg = cfg
    BY <1>2, TopicsDiffer DEF Pass
  <1> HIDE DEF new
  <1>4. /\ pub'[t] = new /\ run[t] = "serves" /\ t = task
        /\ \A u \in Tasks : u # t => pub'[u] = pub[u] /\ pub[u].pc = "none" /\ pub[u].todo \subseteq {}
    BY <1>1 DEF MqttInv, MqttTypes, TaskInv, PassInv
  <1>5. MqttTypes'
    BY <1>1, <1>2, <1>3 DEF MqttInv, MqttTypes
  <1>6. TaskInv'
    BY <1>1, <1>3, <1>4 DEF MqttInv, TaskInv
  <1>7. StopInv'
    BY <1>1 DEF MqttInv, StopInv
  <1>8. PublishedInv'
    BY <1>1 DEF MqttInv, PublishedInv, Undisturbed
  <1>9. PassInv'
    <2>1. \A u \in Tasks : pub'[u].pc \in {"devices", "none"} /\ (pub'[u].pc = "devices" => u = t)
      BY <1>3, <1>4
    <2>2. pub'[t].todo = devices /\ Mqtt!Fingerprint(pub'[t].cfg) = found'.print
      BY <1>1, <1>3, <1>4
    <2>3. \A u \in Tasks : u # t => pub'[u].todo \subseteq {}
      BY <1>4
    <2> QED
      BY <1>1, <1>3, <1>4, <2>1, <2>2, <2>3 DEF PassInv
  <1>10. SentInv'
    <2>1. \A u \in Tasks : pub'[u].pc # "none" => u = t
      BY <1>4
    <2> QED
      BY <1>3, <1>4, <2>1 DEF SentInv, Waits
  <1> QED
    BY <1>5, <1>6, <1>7, <1>8, <1>9, <1>10 DEF MqttInv

(* The pass goes on to another phase. *)
LEMMA PhaseTurns ==
  ASSUME MqttInv, NEW t \in Tasks, NEW new \in Pass, pub' = [pub EXCEPT ![t] = new], pub[t].pc \notin {"none", "dead"},
         new.pc \notin {"none", "dead"},
         pub[t].todo = {}, pending' \subseteq pending, found' = found,
         UNCHANGED <<cfg, retained, session, run, task, client, published, enable, shared, req, gone, unsaid>>,
         new.pc \in {"removed", "cleared"} => Mqtt!Fingerprint(new.cfg) = found.print,
         new.todo \subseteq
            CASE new.pc = "removed" -> {Mqtt!Device(i) : i \in Modules \ shared}
              [] new.pc = "cleared" -> {Mqtt!State(i) : i \in found.print[2] \ shared}
              [] new.pc = "values" -> {Mqtt!State(i) : i \in shared}
              [] OTHER -> {},
         new.pc # "devices", new.pc = "cleared" => new.todo = {Mqtt!State(i) : i \in found.print[2] \ shared},
         new.pc \in {"values", "idle"} => pub[t].pc \in {"cleared", "values", "idle"}
  PROVE  MqttInv'
  <1>1. /\ pub'[t] = new /\ run[t] = "serves" /\ t = task
        /\ \A u \in Tasks : u # t => pub'[u] = pub[u] /\ pub[u].pc = "none"
    BY DEF MqttInv, MqttTypes, TaskInv
  <1>2. MqttTypes'
    BY DEF MqttInv, MqttTypes
  <1>3. TaskInv'
    BY <1>1 DEF MqttInv, TaskInv
  <1>4. StopInv' /\ PublishedInv'
    BY DEF MqttInv, StopInv, PublishedInv, Undisturbed
  <1>5. PassInv'
    <2>1. \A u \in Tasks : u # t => pub'[u].todo \subseteq {}
      BY <1>1 DEF MqttInv, PassInv
    <2> QED
      BY <1>1, <2>1 DEF MqttInv, PassInv
  <1>6. SentInv'
    <2> SUFFICES ASSUME Undisturbed, ~found.due
                 PROVE  /\ published[Mqtt!Mirror] = IF found.print[3] THEN "controls" ELSE "shown"
                        /\ \A i \in shared : published[Mqtt!Device(i)] = "shown"
                        /\ new.pc \in {"cleared", "values", "idle"} =>
                             \A i \in found.print[2] \ shared : \/ new.pc = "cleared" /\ Mqtt!State(i) \in new.todo
                                                                \/ retained[Mqtt!State(i)] # "value"
      BY <1>1 DEF SentInv, Undisturbed, Waits
    <2> QED
      BY DEF MqttInv, SentInv, Waits
  <1> QED
    BY <1>2, <1>3, <1>4, <1>5, <1>6 DEF MqttInv

LEMMA PassGoesOn ==
  ASSUME MqttInv, NEW t \in Tasks, Mqtt!Removes(t) \/ Mqtt!Clears(t) \/ Mqtt!TakesValues(t) \/ Mqtt!PassEnds(t)
  PROVE  MqttInv'
  <1> DEFINE old == pub[t]
             turned(pc, todo) == [old EXCEPT !.pc = pc, !.todo = todo]
  <1>1. old \in Pass /\ shared \subseteq Modules /\ published \in [Mqtt!Topics -> {Nobody} \cup Sent]
    BY DEF MqttInv, MqttTypes
  <1>2. ASSUME NEW pc \in {"removed", "cleared", "values"}, NEW todo \in SUBSET Mqtt!Topics
        PROVE  /\ turned(pc, todo) \in Pass /\ turned(pc, todo).pc = pc /\ turned(pc, todo).todo = todo
               /\ turned(pc, todo).cfg = old.cfg
    BY <1>1 DEF Pass
  <1>3. \A pc, todo : Mqtt!Phase(t, pc, todo) => pub' = [pub EXCEPT ![t] = turned(pc, todo)]
    BY DEF Mqtt!Phase, MqttInv, MqttTypes
  <1>4. ASSUME Mqtt!Removes(t) PROVE MqttInv'
    <2> DEFINE todo == {Mqtt!Device(i) : i \in {j \in Modules \ shared : published[Mqtt!Device(j)] # Nobody}}
               new == turned("removed", todo)
    <2>1. todo \in SUBSET Mqtt!Topics /\ todo \subseteq {Mqtt!Device(i) : i \in Modules \ shared}
      BY TopicsDiffer
    <2>2. new \in Pass /\ new.pc = "removed" /\ new.todo = todo /\ new.cfg = old.cfg
      BY <1>2, <2>1
    <2>3. pub' = [pub EXCEPT ![t] = new] /\ old.pc = "devices" /\ old.todo = {}
      BY <1>3, <1>4 DEF Mqtt!Removes
    <2>4. Mqtt!Fingerprint(old.cfg) = found.print
      BY <2>3 DEF MqttInv, PassInv
    <2>5. UNCHANGED <<cfg, retained, session, run, task, client, published, pending, enable, shared, found, req, gone, unsaid>>
      BY <1>4 DEF Mqtt!Removes, Mqtt!bridge
    <2> HIDE DEF new, todo
    <2> QED
      BY <2>1, <2>2, <2>3, <2>4, <2>5, PhaseTurns
  <1>5. ASSUME Mqtt!Clears(t) PROVE MqttInv'
    <2> DEFINE todo == {Mqtt!State(i) : i \in old.cfg.have \ shared}
               new == turned("cleared", todo)
    <2>1. old.pc = "removed" /\ old.todo = {} /\ Mqtt!Phase(t, "cleared", todo)
      BY <1>5 DEF Mqtt!Clears
    <2>2. Mqtt!Fingerprint(old.cfg) = found.print
      BY <2>1 DEF MqttInv, PassInv
    <2>3. todo \in SUBSET Mqtt!Topics /\ todo = {Mqtt!State(i) : i \in found.print[2] \ shared}
      BY <1>1, <2>2, TopicsDiffer DEF Pass, Saved, Mqtt!Fingerprint
    <2>4. new \in Pass /\ new.pc = "cleared" /\ new.todo = todo /\ new.cfg = old.cfg
      BY <1>2, <2>3
    <2>5. pub' = [pub EXCEPT ![t] = new]
      BY <1>3, <2>1
    <2>6. UNCHANGED <<cfg, retained, session, run, task, client, published, pending, enable, shared, found, req, gone, unsaid>>
      BY <1>5 DEF Mqtt!Clears, Mqtt!bridge
    <2> HIDE DEF new, todo
    <2> QED
      BY <2>1, <2>2, <2>3, <2>4, <2>5, <2>6, PhaseTurns
  <1>6. ASSUME Mqtt!TakesValues(t) PROVE MqttInv'
    <2> DEFINE todo == {Mqtt!State(i) : i \in pending}
               new == turned("values", todo)
    <2>1. old.pc \in {"cleared", "idle"} /\ old.todo = {} /\ Mqtt!Phase(t, "values", todo)
      BY <1>6 DEF Mqtt!TakesValues, MqttInv, PassInv
    <2>2. todo \in SUBSET Mqtt!Topics /\ todo \subseteq {Mqtt!State(i) : i \in shared}
      BY <1>1, TopicsDiffer DEF MqttInv, PassInv
    <2>3. new \in Pass /\ new.pc = "values" /\ new.todo = todo /\ new.cfg = old.cfg
      BY <1>2, <2>2
    <2>4. pub' = [pub EXCEPT ![t] = new]
      BY <1>3, <2>1
    <2>5. UNCHANGED <<cfg, retained, session, run, task, client, published, enable, shared, found, req, gone, unsaid>> /\ pending' = {}
      BY <1>6 DEF Mqtt!TakesValues
    <2> HIDE DEF new, todo
    <2> QED
      BY <2>1, <2>2, <2>3, <2>4, <2>5, PhaseTurns
  <1>7. ASSUME Mqtt!PassEnds(t) PROVE MqttInv'
    <2> DEFINE new == [Mqtt!NoPass EXCEPT !.pc = "idle"]
    <2>1. new \in Pass /\ new.pc = "idle" /\ new.todo = {}
      BY MqttNothing
    <2>2. pub' = [pub EXCEPT ![t] = new] /\ old.pc = "values" /\ old.todo = {}
      BY <1>7 DEF Mqtt!PassEnds
    <2>3. UNCHANGED <<cfg, retained, session, run, task, client, published, pending, enable, shared, found, req, gone, unsaid>>
      BY <1>7 DEF Mqtt!PassEnds, Mqtt!bridge
    <2> HIDE DEF new
    <2> QED
      BY <2>1, <2>2, <2>3, PhaseTurns
  <1> QED
    BY <1>4, <1>5, <1>6, <1>7

(* One topic of the pass is sent, unless it was already; a request that goes through the topics may see others. *)
LEMMA Sends == ASSUME MqttInv, NEW t \in Tasks, Mqtt!Sends(t) PROVE MqttInv'
  <1> DEFINE old == pub[t]
             topic == Mqtt!First(old.todo)
             payload == Mqtt!Payload(old.pc, topic, old.cfg)
             new == [old EXCEPT !.todo = old.todo \ {topic}]
  <1>1. /\ topic \in old.todo /\ pub' = [pub EXCEPT ![t] = new]
        /\ IF published[topic] = payload THEN UNCHANGED <<retained, published>>
           ELSE /\ retained' = [retained EXCEPT ![topic] = payload]
                /\ published' = [published EXCEPT ![topic] = IF old.pc = "removed" THEN Nobody ELSE payload]
        /\ UNCHANGED <<cfg, session, run, task, client, pending, enable, shared, found, gone, unsaid>>
    BY FirstIsOne DEF Mqtt!Sends, MqttInv, MqttTypes
  <1>2. old \in Pass /\ published \in [Mqtt!Topics -> {Nobody} \cup Sent] /\ shared \subseteq Modules
    BY DEF MqttInv, MqttTypes
  <1>3. /\ old.pc \in {"devices", "removed", "cleared", "values"} /\ topic \in Mqtt!Topics
        /\ old.pc = "devices" => topic = Mqtt!Mirror \/ \E i \in shared : topic = Mqtt!Device(i)
        /\ old.pc = "removed" => \E i \in Modules \ shared : topic = Mqtt!Device(i)
        /\ old.pc = "cleared" => \E i \in found.print[2] \ shared : topic = Mqtt!State(i)
        /\ old.pc = "values" => \E i \in shared : topic = Mqtt!State(i)
    <2>1. topic \in CASE old.pc = "devices" -> {Mqtt!Mirror} \cup {Mqtt!Device(i) : i \in shared}
                      [] old.pc = "removed" -> {Mqtt!Device(i) : i \in Modules \ shared}
                      [] old.pc = "cleared" -> {Mqtt!State(i) : i \in found.print[2] \ shared}
                      [] old.pc = "values" -> {Mqtt!State(i) : i \in shared}
                      [] OTHER -> {}
      BY <1>1 DEF MqttInv, PassInv
    <2>2. topic \in Mqtt!Topics
      BY <1>1, <1>2 DEF Pass
    <2> HIDE DEF topic
    <2> QED
      BY <2>1, <2>2
  <1>4. payload = CASE old.pc = "devices" -> IF topic = Mqtt!Mirror THEN Mqtt!MirrorShown(old.cfg) ELSE "shown"
                    [] old.pc = "values" -> "value"
                    [] OTHER -> ""
    BY DEF Mqtt!Payload
  <1>5. found.print \in {<<>>} \cup Prints /\ (found.print[2] \subseteq Modules \/ old.pc # "cleared")
    BY DEF MqttInv, MqttTypes, PassInv, Prints, Mqtt!Fingerprint, Pass, Saved
  <1>6. payload \in Sent /\ topic # Mqtt!Status
    <2>1. payload \in Sent
      <3> HIDE DEF topic, payload
      <3> QED
        BY <1>3, <1>4 DEF Sent, Mqtt!MirrorShown
    <2>2. topic # Mqtt!Status
      <3> HIDE DEF topic
      <3> QED
        BY <1>2, <1>3, <1>5, TopicsDiffer
    <2> QED
      BY <2>1, <2>2
  <1>7. new \in Pass /\ new.pc = old.pc /\ new.cfg = old.cfg /\ new.todo = old.todo \ {topic}
    BY <1>2 DEF Pass
  <1>8. /\ req' \in [Requests -> Request]
        /\ \A r \in Requests : req'[r].pc = req[r].pc /\ req'[r].client = req[r].client
    <2>1. req' = [r \in Requests |-> [req[r] EXCEPT !.grew =
                    req[r].grew \/ (req[r].pc = "forgets" /\ Mqtt!Keys(published') # Mqtt!Keys(published))]]
      BY DEF Mqtt!Sends
    <2>2. \A r \in Requests : req[r] \in Request
      BY DEF MqttInv, MqttTypes
    <2> QED
      BY <2>1, <2>2 DEF Request
  <1> HIDE DEF new, payload, topic
  <1>9. pub'[t] = new /\ t = task /\ \A u \in Tasks : u # t => pub'[u] = pub[u] /\ pub[u].pc = "none" /\ pub[u].todo \subseteq {}
    BY <1>1, <1>3 DEF MqttInv, MqttTypes, TaskInv, PassInv
  <1>10. MqttTypes'
    <2>1. /\ retained' \in [Mqtt!Topics -> {Nobody, "online", "offline"} \cup Sent]
          /\ published' \in [Mqtt!Topics -> {Nobody} \cup Sent]
      BY <1>1, <1>6 DEF MqttInv, MqttTypes
    <2> QED
      BY <1>1, <1>7, <1>8, <2>1 DEF MqttInv, MqttTypes
  <1>11. TaskInv'
    BY <1>1, <1>7, <1>9 DEF MqttInv, TaskInv
  <1>12. retained'[Mqtt!Status] = retained[Mqtt!Status] /\ published'[Mqtt!Status] = published[Mqtt!Status]
    BY <1>1, <1>3, <1>6, TopicsDiffer DEF MqttInv, MqttTypes
  <1>13. StopInv'
    BY <1>1, <1>8, <1>12 DEF MqttInv, StopInv
  <1>14. Undisturbed' <=> Undisturbed
    BY <1>1, <1>8 DEF Undisturbed
  <1>15. PublishedInv'
    BY <1>1, <1>3, <1>12, <1>14 DEF MqttInv, MqttTypes, PublishedInv
  <1>16. PassInv'
    <2>1. \A u \in Tasks : u # t => pub'[u].todo \subseteq {}
      BY <1>9
    <2>2. new.todo \subseteq old.todo
      BY <1>7
    <2> QED
      BY <1>1, <1>7, <1>9, <2>1, <2>2 DEF MqttInv, PassInv
  <1>17. SentInv'
    <2> SUFFICES ASSUME Undisturbed, ~found.due
        PROVE  /\ (old.pc = "devices" /\ Mqtt!Mirror \in new.todo)
                    \/ published'[Mqtt!Mirror] = IF found.print[3] THEN "controls" ELSE "shown"
               /\ \A i \in shared : (old.pc = "devices" /\ Mqtt!Device(i) \in new.todo) \/ published'[Mqtt!Device(i)] = "shown"
               /\ old.pc \in {"cleared", "values"} =>
                    \A i \in found.print[2] \ shared : \/ old.pc = "cleared" /\ Mqtt!State(i) \in new.todo
                                                       \/ retained'[Mqtt!State(i)] # "value"
      BY <1>1, <1>3, <1>7, <1>9, <1>14 DEF SentInv, Waits
    <2>1. /\ (old.pc = "devices" /\ Mqtt!Mirror \in old.todo)
               \/ published[Mqtt!Mirror] = IF found.print[3] THEN "controls" ELSE "shown"
          /\ \A i \in shared : (old.pc = "devices" /\ Mqtt!Device(i) \in old.todo) \/ published[Mqtt!Device(i)] = "shown"
          /\ old.pc \in {"cleared", "values"} =>
               \A i \in found.print[2] \ shared : \/ old.pc = "cleared" /\ Mqtt!State(i) \in old.todo
                                                  \/ retained[Mqtt!State(i)] # "value"
      BY <1>3 DEF MqttInv, SentInv, Waits
    <2>2. published[topic] = payload => retained[topic] = payload
      <3>1. session # Nobody /\ \A u \in Tasks : pub[u].pc # "dead"
        BY <1>3, OnePublishes
      <3> QED
        BY <1>3, <1>6, <3>1, TopicsDiffer DEF MqttInv, PublishedInv
    <2>3. /\ \A other \in Mqtt!Topics : other # topic => retained'[other] = retained[other] /\ published'[other] = published[other]
          /\ retained'[topic] = payload
          /\ old.pc # "removed" => published'[topic] = payload
      <3>1. CASE published[topic] = payload
        BY <1>1, <3>1, <2>2
      <3>2. CASE published[topic] # payload
        BY <1>1, <1>3, <3>2 DEF MqttInv, MqttTypes
      <3> QED
        BY <3>1, <3>2
    <2>4. CASE old.pc = "devices"
      <3>1. payload = IF topic = Mqtt!Mirror THEN Mqtt!MirrorShown(old.cfg) ELSE "shown"
        BY <1>4, <2>4
      <3>2. Mqtt!MirrorShown(old.cfg) = IF found.print[3] THEN "controls" ELSE "shown"
        BY <2>4 DEF MqttInv, PassInv, Mqtt!Fingerprint, Mqtt!MirrorShown
      <3>3. published'[topic] = payload
        BY <2>3, <2>4
      <3> QED
        BY <1>2, <1>7, <2>1, <2>3, <2>4, <3>1, <3>2, <3>3, TopicsDiffer
    <2>5. CASE old.pc = "removed"
      <3>1. topic # Mqtt!Mirror /\ \A i \in shared : topic # Mqtt!Device(i)
        BY <1>2, <1>3, <2>5, TopicsDiffer
      <3> QED
        BY <1>2, <2>1, <2>3, <2>5, <3>1, TopicsDiffer
    <2>6. CASE old.pc = "cleared"
      <3>1. topic # Mqtt!Mirror /\ (\A i \in shared : topic # Mqtt!Device(i)) /\ payload = ""
        BY <1>2, <1>3, <1>4, <1>5, <2>6, TopicsDiffer
      <3> QED
        BY <1>2, <1>5, <1>7, <2>1, <2>3, <2>6, <3>1, TopicsDiffer
    <2>7. CASE old.pc = "values"
      <3>1. topic # Mqtt!Mirror /\ (\A i \in shared : topic # Mqtt!Device(i))
        BY <1>2, <1>3, <2>7, TopicsDiffer
      <3>2. \A i \in found.print[2] \ shared : i \in Modules /\ topic # Mqtt!State(i)
        <4>1. found.print[2] \subseteq Modules
          BY DEF MqttInv, MqttTypes, Prints
        <4> QED
          BY <1>2, <1>3, <2>7, <4>1, TopicsDiffer
      <3> QED
        BY <1>2, <2>1, <2>3, <2>7, <3>1, <3>2, TopicsDiffer
    <2> QED
      BY <1>3, <2>4, <2>5, <2>6, <2>7
  <1> QED
    BY <1>10, <1>11, <1>13, <1>15, <1>16, <1>17 DEF MqttInv

(* A publish times out, and the publisher ends: what it knows of the broker is no longer used. *)
LEMMA PublisherDies == ASSUME MqttInv, NEW t \in Tasks, Mqtt!PublisherDies(t) PROVE MqttInv'
  <1> DEFINE topic == Mqtt!First(pub[t].todo)
             payload == Mqtt!Payload(pub[t].pc, topic, pub[t].cfg)
             new == [pub[t] EXCEPT !.pc = "dead", !.todo = {}]
  <1>1. /\ topic \in pub[t].todo /\ pub' = [pub EXCEPT ![t] = new]
        /\ retained' = retained \/ retained' = [retained EXCEPT ![topic] = payload]
        /\ UNCHANGED <<cfg, session, run, task, client, published, pending, enable, shared, found, req, gone, unsaid>>
    BY FirstIsOne DEF Mqtt!PublisherDies, MqttInv, MqttTypes
  <1>2. /\ pub[t].pc \in {"devices", "removed", "cleared", "values"} /\ topic \in Mqtt!Topics /\ topic # Mqtt!Status
        /\ pub[t] \in Pass
    <2>1. topic \in CASE pub[t].pc = "devices" -> {Mqtt!Mirror} \cup {Mqtt!Device(i) : i \in shared}
                      [] pub[t].pc = "removed" -> {Mqtt!Device(i) : i \in Modules \ shared}
                      [] pub[t].pc = "cleared" -> {Mqtt!State(i) : i \in found.print[2] \ shared}
                      [] pub[t].pc = "values" -> {Mqtt!State(i) : i \in shared}
                      [] OTHER -> {}
      BY <1>1 DEF MqttInv, PassInv
    <2>2. pub[t] \in Pass /\ shared \subseteq Modules
      BY DEF MqttInv, MqttTypes
    <2>3. topic \in Mqtt!Topics
      BY <1>1, <2>2 DEF Pass
    <2>4. pub[t].pc = "cleared" => found.print[2] \subseteq Modules
      BY DEF MqttInv, MqttTypes, PassInv, Prints, Mqtt!Fingerprint, Pass, Saved
    <2> HIDE DEF topic
    <2> QED
      BY <2>1, <2>2, <2>3, <2>4, TopicsDiffer
  <1>3. payload \in Sent
    <2>1. payload = CASE pub[t].pc = "devices" -> IF topic = Mqtt!Mirror THEN Mqtt!MirrorShown(pub[t].cfg) ELSE "shown"
                      [] pub[t].pc = "values" -> "value"
                      [] OTHER -> ""
      BY DEF Mqtt!Payload
    <2> HIDE DEF topic, payload
    <2> QED
      BY <1>2, <2>1 DEF Sent, Mqtt!MirrorShown
  <1>4. new \in Pass /\ new.pc = "dead" /\ new.todo = {}
    BY <1>2 DEF Pass
  <1> HIDE DEF new, payload, topic
  <1>5. pub'[t] = new /\ t = task /\ run[t] = "serves" /\ \A u \in Tasks : u # t => pub'[u] = pub[u] /\ pub[u].pc = "none"
    BY <1>1, <1>2 DEF MqttInv, MqttTypes, TaskInv
  <1>6. MqttTypes'
    <2>1. retained' \in [Mqtt!Topics -> {Nobody, "online", "offline"} \cup Sent]
      BY <1>1, <1>3 DEF MqttInv, MqttTypes
    <2> QED
      BY <1>1, <1>4, <2>1 DEF MqttInv, MqttTypes
  <1>7. TaskInv'
    BY <1>1, <1>4, <1>5 DEF MqttInv, TaskInv
  <1>8. StopInv'
    <2>1. retained'[Mqtt!Status] = retained[Mqtt!Status]
      BY <1>1, <1>2, TopicsDiffer DEF MqttInv, MqttTypes
    <2> QED
      BY <1>1, <2>1 DEF MqttInv, StopInv
  <1>9. PublishedInv' /\ SentInv'
    BY <1>1, <1>4, <1>5 DEF MqttInv, PublishedInv, SentInv
  <1>10. PassInv'
    <2>1. \A u \in Tasks : u # t => pub'[u].todo \subseteq {}
      BY <1>5 DEF MqttInv, PassInv
    <2> QED
      BY <1>1, <1>4, <1>5, <2>1 DEF MqttInv, PassInv
  <1> QED
    BY <1>6, <1>7, <1>8, <1>9, <1>10 DEF MqttInv

(* A request that begins or goes on changes the invariant only by what it says of the request. *)
LEMMA Save == ASSUME MqttInv, NEW r \in Requests, Mqtt!Save(r) PROVE MqttInv'
  <1> DEFINE new == [Mqtt!NoRequest EXCEPT !.pc = "stops"]
  <1>1. new \in Request /\ new.pc = "stops"
    BY MqttNothing DEF Request
  <1>2. /\ req[r].pc = "idle" /\ req' = [req EXCEPT ![r] = new]
        /\ UNCHANGED <<retained, session, run, task, client, published, pending, enable, shared, found, pub, gone, unsaid>>
    BY DEF Mqtt!Save, Mqtt!bridge
  <1>3. cfg' \in Saved
    <2>1. PICK share \in SUBSET cfg.have, control \in BOOLEAN :
            cfg' = [cfg EXCEPT !.on = TRUE, !.share = share, !.control = control]
      BY DEF Mqtt!Save
    <2>2. cfg \in Saved /\ share \subseteq Modules
      BY <2>1 DEF MqttInv, MqttTypes, Saved
    <2> QED
      BY <2>1, <2>2 DEF Saved
  <1> HIDE DEF new
  <1>4. MqttTypes'
    BY <1>1, <1>2, <1>3 DEF MqttInv, MqttTypes
  <1>5. TaskInv'
    BY <1>2 DEF MqttInv, TaskInv
  <1>6. StopInv'
    BY <1>1, <1>2 DEF MqttInv, MqttTypes, StopInv
  <1>7. Undisturbed' => Undisturbed
    BY <1>1, <1>2 DEF MqttInv, MqttTypes, Undisturbed
  <1>8. PublishedInv' /\ PassInv' /\ SentInv'
    BY <1>2, <1>7 DEF MqttInv, PublishedInv, PassInv, SentInv, Waits
  <1> QED
    BY <1>3, <1>4, <1>5, <1>6, <1>8 DEF MqttInv

(* While no connection is up nothing is published; the one that is up is the task's. *)
LEMMA ConnectionIsTasks ==
  ASSUME MqttInv
  PROVE  /\ session = Nobody => \A t \in Tasks : run[t] \notin {"greets", "serves"} /\ pub[t].pc = "none"
         /\ session # Nobody => session = task /\ session \in Tasks /\ \A t \in Tasks : run[t] # "connects"
BY TopicsDiffer DEF MqttInv, MqttTypes, TaskInv

LEMMA TurnsOff == ASSUME MqttInv, NEW r \in Requests, Mqtt!TurnOff(r) PROVE MqttInv'
  <1> DEFINE later == [Mqtt!NoRequest EXCEPT !.pc = "stops", !.op = "off"]
             asks == [pc |-> "forgets", op |-> "off", todo |-> Mqtt!Keys(published), client |-> client, grew |-> FALSE]
  <1>1. later \in Request /\ later.pc = "stops"
    BY MqttNothing DEF Request
  <1>2. asks \in Request /\ asks.pc = "forgets" /\ asks.client = client
    BY DEF MqttInv, MqttTypes, Mqtt!Keys, Request
  <1>3. /\ req[r].pc = "idle"
        /\ UNCHANGED <<cfg, retained, session, run, task, client, pending, enable, shared, found, pub, gone, unsaid>>
        /\ IF client = Nobody THEN published' = Mqtt!Empty /\ req' = [req EXCEPT ![r] = later]
           ELSE published' = published /\ req' = [req EXCEPT ![r] = asks]
    BY DEF Mqtt!TurnOff
  <1>4. client = session /\ client \in Tasks \cup {Nobody}
    BY DEF MqttInv, MqttTypes, TaskInv
  <1> HIDE DEF later, asks
  <1>5. MqttTypes'
    BY <1>1, <1>2, <1>3, MqttNothing DEF MqttInv, MqttTypes
  <1>6. TaskInv'
    BY <1>3 DEF MqttInv, TaskInv
  <1>7. StopInv'
    BY <1>1, <1>2, <1>3, <1>4, ConnectionIsTasks DEF MqttInv, MqttTypes, StopInv
  <1>8. PassInv'
    BY <1>3 DEF MqttInv, PassInv
  <1>9. PublishedInv' /\ SentInv'
    <2>1. CASE client = Nobody
      BY <1>3, <1>4, <2>1, ConnectionIsTasks, MqttNothing, TopicsDiffer DEF PublishedInv, SentInv
    <2>2. CASE client # Nobody
      <3>1. ~Undisturbed'
        BY <1>2, <1>3, <2>2 DEF MqttInv, MqttTypes, Undisturbed
      <3> QED
        BY <1>3, <2>2, <3>1 DEF MqttInv, PublishedInv, SentInv
    <2> QED
      BY <2>1, <2>2
  <1> QED
    BY <1>5, <1>6, <1>7, <1>8, <1>9 DEF MqttInv

LEMMA Forgets == ASSUME MqttInv, NEW r \in Requests, Mqtt!Forgets(r) PROVE MqttInv'
  <1> DEFINE topic == Mqtt!First(req[r].todo)
             new == [req[r] EXCEPT !.todo = req[r].todo \ {topic}]
  <1>1. /\ req[r].pc = "forgets" /\ retained' = [retained EXCEPT ![topic] = ""] /\ req' = [req EXCEPT ![r] = new]
        /\ UNCHANGED <<cfg, session, run, task, client, published, pending, enable, shared, found, pub, gone, unsaid>>
    BY DEF Mqtt!Forgets, Mqtt!bridge, MqttInv, MqttTypes
  <1>2. new \in Request /\ new.pc = "forgets" /\ new.client = req[r].client
    BY <1>1 DEF MqttInv, MqttTypes, Request
  <1> HIDE DEF topic, new
  <1>3. MqttTypes'
    <2>1. retained' \in [Mqtt!Topics -> {Nobody, "online", "offline"} \cup Sent]
      BY <1>1 DEF MqttInv, MqttTypes, Sent
    <2> QED
      BY <1>1, <1>2, <2>1 DEF MqttInv, MqttTypes
  <1>4. TaskInv'
    BY <1>1 DEF MqttInv, TaskInv
  <1>5. StopInv'
    <2>1. retained'[Mqtt!Status] = "online" => retained[Mqtt!Status] = "online"
      BY <1>1, TopicsDiffer DEF MqttInv, MqttTypes
    <2> QED
      BY <1>1, <1>2, <2>1 DEF MqttInv, MqttTypes, StopInv
  <1>6. ~Undisturbed'
    BY <1>1, <1>2 DEF MqttInv, MqttTypes, Undisturbed
  <1>7. PublishedInv' /\ PassInv' /\ SentInv'
    BY <1>1, <1>6 DEF MqttInv, PublishedInv, PassInv, SentInv
  <1> QED
    BY <1>3, <1>4, <1>5, <1>7 DEF MqttInv

LEMMA Forgotten == ASSUME MqttInv, NEW r \in Requests, Mqtt!Forgotten(r) PROVE MqttInv'
  <1> DEFINE new == [req[r] EXCEPT !.pc = "stops"]
  <1>1. /\ req[r].pc = "forgets" /\ req' = [req EXCEPT ![r] = new] /\ published' = Mqtt!Empty
        /\ UNCHANGED <<cfg, session, run, task, client, pending, enable, shared, found, pub, unsaid>>
        /\ \/ Mqtt!Connected(r) /\ retained' = [retained EXCEPT ![Mqtt!Status] = "offline"] /\ gone' = "all"
           \/ ~Mqtt!Connected(r) /\ UNCHANGED <<retained, gone>>
           \/ Mqtt!Connected(r) /\ gone' = "half" /\ UNCHANGED retained
    BY DEF Mqtt!Forgotten
  <1>2. new \in Request /\ new.pc = "stops"
    BY DEF MqttInv, MqttTypes, Request
  <1>3. ~Mqtt!Connected(r) => session = Nobody
    BY <1>1, ConnectionIsTasks DEF MqttInv, StopInv, Mqtt!Connected
  <1> HIDE DEF new, Mqtt!Connected
  <1>4. MqttTypes'
    BY <1>1, <1>2, MqttNothing DEF MqttInv, MqttTypes
  <1>5. TaskInv'
    BY <1>1 DEF MqttInv, TaskInv
  <1>6. StopInv'
    <2>1. retained'[Mqtt!Status] = "online" => retained[Mqtt!Status] = "online"
      BY <1>1, TopicsDiffer DEF MqttInv, MqttTypes
    <2> QED
      BY <1>1, <1>2, <2>1 DEF MqttInv, MqttTypes, StopInv
  <1>7. PassInv'
    BY <1>1 DEF MqttInv, PassInv
  <1>8. PublishedInv'
    BY <1>1, MqttNothing, TopicsDiffer DEF PublishedInv
  <1>9. SentInv'
    <2>1. CASE Mqtt!Connected(r)
      BY <1>1, <2>1 DEF SentInv, Undisturbed
    <2>2. CASE ~Mqtt!Connected(r)
      BY <1>1, <1>3, <2>2, ConnectionIsTasks DEF SentInv
    <2> QED
      BY <2>1, <2>2
  <1> QED
    BY <1>4, <1>5, <1>6, <1>7, <1>8, <1>9 DEF MqttInv

LEMMA ForgetFails == ASSUME MqttInv, NEW r \in Requests, Mqtt!ForgetFails(r) PROVE MqttInv'
  <1>1. /\ req' = [req EXCEPT ![r] = Mqtt!NoRequest] /\ gone' = "half"
        /\ UNCHANGED <<cfg, retained, session, run, task, client, published, pending, enable, shared, found, pub, unsaid>>
    BY DEF Mqtt!ForgetFails, Mqtt!bridge
  <1>2. ~Undisturbed'
    BY <1>1 DEF Undisturbed
  <1>3. MqttTypes'
    BY <1>1, MqttNothing DEF MqttInv, MqttTypes
  <1>4. TaskInv'
    BY <1>1 DEF MqttInv, TaskInv
  <1>5. StopInv'
    BY <1>1, MqttNothing DEF MqttInv, MqttTypes, StopInv
  <1>6. PublishedInv' /\ PassInv' /\ SentInv'
    BY <1>1, <1>2 DEF MqttInv, PublishedInv, PassInv, SentInv
  <1> QED
    BY <1>3, <1>4, <1>5, <1>6 DEF MqttInv

LEMMA Stops == ASSUME MqttInv, NEW r \in Requests, Mqtt!Stops(r) PROVE MqttInv'
  <1> DEFINE new == [req[r] EXCEPT !.pc = "cancels"]
  <1>1. /\ req[r].pc = "stops" /\ client # Nobody /\ req' = [req EXCEPT ![r] = new]
        /\ \/ retained' = [retained EXCEPT ![Mqtt!Status] = "offline"] /\ unsaid' = FALSE
           \/ unsaid' = TRUE /\ retained' = retained
        /\ UNCHANGED <<cfg, session, run, task, client, published, pending, enable, shared, found, pub, gone>>
    BY DEF Mqtt!Stops, Mqtt!bridge
  <1>2. new \in Request /\ new.pc = "cancels"
    BY DEF MqttInv, MqttTypes, Request
  <1>3. \A t \in Tasks : run[t] # "connects"
    BY <1>1, ConnectionIsTasks DEF MqttInv, TaskInv
  <1> HIDE DEF new
  <1>4. MqttTypes'
    BY <1>1, <1>2, TopicsDiffer DEF MqttInv, MqttTypes
  <1>5. TaskInv'
    BY <1>1 DEF MqttInv, TaskInv
  <1>6. StopInv'
    <2>1. unsaid' \/ retained'[Mqtt!Status] = "offline"
      BY <1>1, TopicsDiffer DEF MqttInv, MqttTypes
    <2> QED
      BY <1>1, <1>2, <1>3, <2>1 DEF MqttInv, MqttTypes, StopInv
  <1>7. Undisturbed' => Undisturbed
    BY <1>1 DEF MqttInv, MqttTypes, Undisturbed
  <1>8. PublishedInv'
    <2>1. \A topic \in Mqtt!Topics : topic # Mqtt!Status => retained'[topic] = retained[topic]
      BY <1>1 DEF MqttInv, MqttTypes
    <2> QED
      BY <1>1, <1>7, <2>1 DEF MqttInv, PublishedInv
  <1>9. PassInv'
    BY <1>1 DEF MqttInv, PassInv
  <1>10. SentInv'
    <2>1. \A i \in Modules : retained'[Mqtt!State(i)] = retained[Mqtt!State(i)]
      BY <1>1, TopicsDiffer DEF MqttInv, MqttTypes
    <2>2. found.print[2] \subseteq Modules \/ found.due
      BY DEF MqttInv, MqttTypes, Prints
    <2> QED
      BY <1>1, <1>7, <2>1, <2>2 DEF MqttInv, SentInv, Waits
  <1> QED
    BY <1>4, <1>5, <1>6, <1>8, <1>9, <1>10 DEF MqttInv

(* With no task left, the one request there is may start one. *)
LEMMA Finishes ==
  ASSUME MqttInv, OneRequest, NEW r \in Requests, Mqtt!Finishes(r), req[r].pc # "forgets", \A t \in Tasks : run[t] = "none",
         UNCHANGED <<retained, session, client, published, pending, enable, shared, found, pub, gone, unsaid>>
  PROVE  MqttInv'
  <1>1. /\ \A t \in Tasks : pub[t].pc = "none"
        /\ session = Nobody /\ client = Nobody
    BY DEF MqttInv, MqttTypes, TaskInv
  <1>2. req' = [req EXCEPT ![r] = Mqtt!NoRequest] /\ cfg' = IF req[r].op = "off" THEN [cfg EXCEPT !.on = FALSE] ELSE cfg
    BY DEF Mqtt!Finishes
  <1>3. /\ run' \in [Tasks -> {"none", "connects"}] /\ task' \in Tasks \cup {Nobody}
        /\ \A t \in Tasks : run'[t] # "none" => t = task'
    <2>1. Mqtt!Free # {} => Mqtt!First(Mqtt!Free) \in Tasks
      BY FirstIsOne DEF Mqtt!Free
    <2> QED
      BY <2>1 DEF MqttInv, MqttTypes, Mqtt!Finishes
  <1>4. \A s \in Requests : req'[s].pc = "idle" /\ s = r
    BY <1>2, MqttNothing DEF MqttInv, MqttTypes, OneRequest
  <1>5. MqttTypes'
    <2>1. cfg' \in Saved
      BY <1>2 DEF MqttInv, MqttTypes, Saved
    <2>2. req' \in [Requests -> Request]
      BY <1>2, MqttNothing DEF MqttInv, MqttTypes
    <2> QED
      BY <1>3, <2>1, <2>2 DEF MqttInv, MqttTypes
  <1>6. TaskInv'
    BY <1>1, <1>3, TopicsDiffer DEF TaskInv
  <1>7. StopInv'
    BY <1>1, <1>4 DEF MqttInv, StopInv
  <1>8. Undisturbed' => Undisturbed
    BY <1>4 DEF Undisturbed
  <1>9. PublishedInv' /\ PassInv'
    BY <1>8 DEF MqttInv, PublishedInv, PassInv
  <1>10. SentInv'
    BY <1>1 DEF SentInv
  <1> QED
    BY <1>5, <1>6, <1>7, <1>9, <1>10 DEF MqttInv

LEMMA Ends == ASSUME MqttInv, OneRequest, NEW r \in Requests, Mqtt!Ends(r) PROVE MqttInv'
  <1>1. req[r].pc = "ends" /\ \A t \in Tasks : run[t] = "none"
    BY DEF Mqtt!Ends, MqttInv, StopInv
  <1> QED
    BY <1>1, Finishes DEF Mqtt!Ends

LEMMA Cancels == ASSUME MqttInv, OneRequest, NEW r \in Requests, Mqtt!Cancels(r) PROVE MqttInv'
  <1>1. req[r].pc = "cancels" \/ (req[r].pc = "stops" /\ client = Nobody)
    BY DEF Mqtt!Cancels
  <1>2. CASE task = Nobody
    <2>1. \A t \in Tasks : run[t] = "none"
      BY <1>2, TopicsDiffer DEF MqttInv, TaskInv
    <2>2. Mqtt!Finishes(r) /\ UNCHANGED <<retained, session, client, published, pending, enable, shared, found, pub, gone, unsaid>>
      BY <1>2 DEF Mqtt!Cancels
    <2> QED
      BY <1>1, <2>1, <2>2, Finishes
  <1>3. CASE task # Nobody
    <2> DEFINE new == [req[r] EXCEPT !.pc = "ends"]
    <2>1. /\ req' = [req EXCEPT ![r] = new] /\ client' = Nobody
          /\ run' = [run EXCEPT ![task] = "none"] /\ pub' = [pub EXCEPT ![task] = Mqtt!NoPass]
          /\ session' = (IF session = task THEN Nobody ELSE session)
          /\ UNCHANGED <<cfg, retained, task, published, pending, enable, shared, found, gone, unsaid>>
      BY <1>3 DEF Mqtt!Cancels
    <2>2. new \in Request /\ new.pc = "ends"
      BY DEF MqttInv, MqttTypes, Request
    <2> HIDE DEF new
    <2>3. session' = Nobody /\ task \in Tasks /\ \A t \in Tasks : run'[t] = "none" /\ pub'[t].pc = "none" /\ pub'[t].todo \subseteq {}
      <3>1. session' = Nobody /\ task \in Tasks
        BY <1>3, <2>1, ConnectionIsTasks DEF MqttInv, MqttTypes
      <3>2. \A t \in Tasks : t # task => run[t] = "none" /\ pub[t].pc = "none" /\ pub[t].todo \subseteq {}
        BY DEF MqttInv, TaskInv, PassInv
      <3> QED
        BY <2>1, <3>1, <3>2, MqttNothing DEF MqttInv, MqttTypes
    <2>4. MqttTypes'
      BY <2>1, <2>2, <2>3, MqttNothing DEF MqttInv, MqttTypes
    <2>5. TaskInv'
      BY <2>1, <2>3, TopicsDiffer DEF TaskInv
    <2>6. StopInv'
      <3>1. unsaid \/ retained[Mqtt!Status] # "online"
        BY <1>1 DEF MqttInv, TaskInv, StopInv
      <3>2. \A s \in Requests : req'[s].pc = "ends"
        BY <2>1, <2>2 DEF MqttInv, MqttTypes, OneRequest
      <3> QED
        BY <2>1, <2>3, <3>1, <3>2 DEF StopInv
    <2>7. Undisturbed' => Undisturbed
      BY <1>1, <2>1 DEF MqttInv, MqttTypes, Undisturbed
    <2>8. PublishedInv'
      BY <2>1, <2>3, <2>7 DEF MqttInv, PublishedInv
    <2>9. PassInv'
      BY <2>1, <2>3 DEF MqttInv, PassInv
    <2>10. SentInv'
      BY <2>3 DEF SentInv
    <2> QED
      BY <2>4, <2>5, <2>6, <2>8, <2>9, <2>10 DEF MqttInv
  <1> QED
    BY <1>2, <1>3

LEMMA MqttStep == ASSUME MqttInv, OneRequest, [Mqtt!Next]_MqttVars PROVE MqttInv'
  <1>1. ASSUME NEW t \in Tasks, Mqtt!ConnectionStep(t) PROVE MqttInv'
    BY <1>1, Connects, Serves, Refused, Loses DEF Mqtt!ConnectionStep
  <1>2. ASSUME NEW t \in Tasks, Mqtt!PublisherStep(t) PROVE MqttInv'
    BY <1>2, AppliesCommands, Discovers, Sends, PublisherDies, PassGoesOn DEF Mqtt!PublisherStep
  <1>3. ASSUME NEW r \in Requests, Mqtt!Save(r) \/ Mqtt!TurnOff(r) \/ Mqtt!RequestStep(r) PROVE MqttInv'
    BY <1>3, Save, TurnsOff, Forgets, Forgotten, ForgetFails, Stops, Cancels, Ends DEF Mqtt!RequestStep
  <1>4. ASSUME UNCHANGED MqttVars PROVE MqttInv'
    BY <1>4 DEF MqttVars, MqttInv, MqttTypes, TaskInv, StopInv, PublishedInv, PassInv, SentInv, Undisturbed, Waits
  <1> QED
    BY <1>1, <1>2, <1>3, <1>4, MqttReached DEF Mqtt!Next

(* Of one task at most, the tasks that run are one at most. *)
LEMMA OneRuns == ASSUME MqttInv PROVE Mqtt!OneTask
  <1> DEFINE running == {t \in Tasks : run[t] # "none"}
  <1>1. running \subseteq {task}
    BY DEF MqttInv, TaskInv
  <1>2. Cardinality({task}) = 1 /\ IsFiniteSet({task})
    BY FS_Singleton
  <1>3. Cardinality(running) <= Cardinality({task})
    BY <1>1, <1>2, FS_Subset
  <1>4. Mqtt!Cardinality(running) = Cardinality(running) /\ Cardinality(running) \in Nat
    BY <1>1, <1>2, FS_Subset, FS_CardinalityType DEF Mqtt!Cardinality, Cardinality
  <1> HIDE DEF running
  <1>5. Mqtt!Cardinality(running) <= 1
    BY <1>2, <1>3, <1>4
  <1> QED
    BY <1>5 DEF Mqtt!OneTask, running

LEMMA RestIsShown == ASSUME MqttInv PROVE Mqtt!SharedIsShown
  <1> SUFFICES ASSUME NEW t \in Tasks, NEW i \in Modules, Mqtt!AtRest(t), Undisturbed
      PROVE  /\ retained[Mqtt!Mirror] = Mqtt!MirrorShown(cfg) /\ (i \in shared => retained[Mqtt!Device(i)] = "shown")
             /\ i \in cfg.have \ shared => retained[Mqtt!State(i)] # "value"
    BY DEF Mqtt!SharedIsShown, Undisturbed
  <1>1. /\ pub[t].pc = "idle" /\ ~found.due /\ found.print[2] = cfg.have /\ found.print[3] = cfg.control
    BY DEF Mqtt!AtRest, Mqtt!Fingerprint
  <1>2. session # Nobody /\ \A u \in Tasks : pub[u].pc # "dead"
    BY <1>1, OnePublishes
  <1>3. /\ published[Mqtt!Mirror] = IF cfg.control THEN "controls" ELSE "shown"
        /\ i \in shared => published[Mqtt!Device(i)] = "shown"
        /\ i \in cfg.have \ shared => retained[Mqtt!State(i)] # "value"
    BY <1>1 DEF MqttInv, SentInv, Waits
  <1> QED
    BY <1>2, <1>3, TopicsDiffer DEF MqttInv, PublishedInv, Mqtt!MirrorShown, Sent

(* "online" is on the broker only while a connection is up or after one that ended cleanly and said nothing, the bridge
   has one connection task at most, and between two passes the broker has the mirror's device, one for each instance that
   is shared and no value of an installed one that isn't, across lost connections, answers that don't come, saved
   choices, commands, removals and turning it off, for any instances and tasks, with one request at a time (bridge.py). *)
THEOREM WhatIsToldIsTrue == ASSUME OneRequest PROVE Spec => []ToldTrue
  <1> DEFINE Inv == part = "mqtt" => MqttInv
  <1>1. Init => Inv
    BY MqttInit DEF Init
  <1>2. Inv /\ [Next]_vars => Inv'
    BY MqttStep, StepOfPart
  <1>3. Inv => ToldTrue
    <2> SUFFICES ASSUME MqttInv PROVE Mqtt!ToldTrue /\ Mqtt!SharedIsShown
      BY DEF ToldTrue
    <2>1. unsaid \/ Mqtt!OnlineIsUp
      BY DEF MqttInv, StopInv, Mqtt!OnlineIsUp
    <2>2. Mqtt!TypeOK
      <3>1. \A t \in Tasks : pub[t].todo \subseteq Mqtt!Topics
        BY DEF MqttInv, MqttTypes, Pass
      <3>2. \A r \in Requests : req[r].todo \subseteq Mqtt!Topics
        BY DEF MqttInv, MqttTypes, Request
      <3> QED
        BY <3>1, <3>2 DEF MqttInv, MqttTypes, PassInv, Sent, Mqtt!TypeOK
    <2> QED
      BY <2>1, <2>2, OneRuns, RestIsShown DEF Mqtt!ToldTrue
  <1> QED
    BY <1>1, <1>2, <1>3, PTL DEF Spec
=============================================================================
