-------------------------- MODULE MCModulesProofs --------------------------
(***************************************************************************)
(* Proofs about the third-party modules (MCModules): users and children of  *)
(* the forkserver, the syncs between the core and the module host, and the  *)
(* installation of modules. Each part has its inductive invariant, in named *)
(* conjuncts, that every step keeps: ForksInv, HostInv, PackagesInv.        *)
(***************************************************************************)
EXTENDS MCModules, Integers, TLAPS, FiniteSetTheorems, WellFoundedInduction

(* A behaviour stays one of the component it began as, and each step is a step of that
   component, or leaves it alone. *)
LEMMA StepOfPart == ASSUME [Next]_vars
  PROVE  /\ part' = part
         /\ part = "host" => [ModuleHost!Next]_ModuleHostVars
         /\ part = "forks" => [Forks!Next]_ForksVars
         /\ part = "packages" => [Packages!Next]_PackagesVars
BY DEF Next, vars

(* A set of numbers has a smallest one: their initial segments have, by inclusion. *)
LEMMA SmallestThere == ASSUME NEW S, S \subseteq Nat, S # {} PROVE \E x \in S : \A y \in S : x <= y
  <1> DEFINE Segments == {0..x : x \in S}
  <1>1. Segments \subseteq FiniteSubsetsOf(Nat) /\ Segments # {}
    <2>1. ASSUME NEW x \in S PROVE 0..x \in FiniteSubsetsOf(Nat)
      BY FS_Interval DEF FiniteSubsetsOf
    <2> QED
      BY <2>1
  <1>2. PICK s \in Segments : \A r \in Segments : ~(<<r, s>> \in StrictSubsetOrdering(Nat))
    <2> HIDE DEF Segments
    <2> QED
      BY <1>1, FS_StrictSubsetOrderingWellFounded, WFMin
  <1>3. PICK x \in S : s = 0..x
    OBVIOUS
  <1>4. ASSUME NEW y \in S PROVE x <= y
    <2>1. SUFFICES ASSUME y < x PROVE FALSE
      OBVIOUS
    <2>2. 0..y \subseteq 0..x /\ 0..y # 0..x /\ 0..y \subseteq Nat /\ 0..x \subseteq Nat
      BY <2>1
    <2>3. <<0..y, 0..x>> \in StrictSubsetOrdering(Nat)
      BY <2>2 DEF StrictSubsetOrdering
    <2> QED
      BY <1>2, <1>3, <2>3
  <1> QED
    BY <1>4

(* A set of numbers none of which is greater than a given one has a greatest one. *)
LEMMA GreatestThere == ASSUME NEW n \in Nat, NEW S, S \subseteq 0..n, S # {} PROVE \E x \in S : \A y \in S : x >= y
  <1> DEFINE Rests == {n - x : x \in S}
  <1>1. Rests \subseteq Nat /\ Rests # {}
    OBVIOUS
  <1>2. \E r \in Rests : \A q \in Rests : r <= q
    <2> HIDE DEF Rests
    <2> QED
      BY <1>1, SmallestThere
  <1>3. PICK x \in S : \A y \in S : n - x <= n - y
    BY <1>2
  <1>4. \A y \in S : x >= y
    BY <1>3
  <1> QED
    BY <1>4

-----------------------------------------------------------------------------
(* Users and children.                                                      *)

ForkChild == [pc : {"none", "asked", "forked", "switched", "bare", "tied", "runs", "stuck"},
              name : Forks!Names \cup {Forks!Probe, Nobody}, uid : Nat, user : Nat, caps : BOOLEAN,
              alone : BOOLEAN, cut : BOOLEAN]
ForksTypes ==
  /\ uids \in [Forks!Names -> ModuleUids \cup PackageUids \cup {0}]
  /\ forks_host \in 1..MaxStarts /\ server \in BOOLEAN
  /\ forks_control \in {"down", "up", "checks", "closed", "open"}
  /\ child \in [Slots -> ForkChild] /\ owner \in [ModuleUids \cup PackageUids -> Forks!Names \cup {Nobody}]

\* A user is one name's, of its kind, and the files of a user are that name's.
GivenInv ==
  /\ \A name \in Forks!Names : uids[name] # 0 => uids[name] \in Forks!Range(name)
  /\ \A name, other \in Forks!Names : uids[name] # 0 /\ uids[name] = uids[other] => name = other
  /\ \A uid \in ModuleUids \cup PackageUids : owner[uid] # Nobody => uids[owner[uid]] = uid

\* A child is for its name's user; once it is forked the user's files are the name's, and it comes to run
\* as that user, without capabilities, with a parent.
Forked == {"forked", "switched", "bare", "tied", "runs", "stuck"}
ChildOK(ch) ==
  /\ ch.pc # "none" => /\ ch.name \in Forks!Names \cup {Forks!Probe}
                       /\ ch.name = Forks!Probe => ch.user = Forks!ProbeUid
                       /\ ch.name # Forks!Probe => ch.user = uids[ch.name] /\ ch.user # 0
  /\ ch.pc \in Forked /\ ch.name # Forks!Probe => owner[ch.user] = ch.name
  /\ ch.pc \in Forked \ {"forked"} => ch.uid = ch.user
  /\ ch.pc \in Forked \ {"forked", "switched"} => ~ch.caps
  /\ ch.pc \in {"runs", "stuck"} => ~ch.alone
ChildInv == \A c \in Slots : ChildOK(child[c])
ForksInv == ForksTypes /\ GivenInv /\ ChildInv

(* The names are of two kinds, each with users of its own, none of which is the self-check's. *)
LEMMA ForksConstants ==
  /\ Forks!Names = Modules \cup Packed /\ Forks!Probe \notin Forks!Names /\ Nobody \notin Forks!Names
  /\ Nobody # Forks!Probe => Nobody \notin Forks!Names \cup {Forks!Probe}
  /\ \A name \in Forks!Names : Forks!Range(name) = IF name \in Modules THEN ModuleUids ELSE PackageUids
  /\ ModuleUids \cap PackageUids = {} /\ (ModuleUids \cup PackageUids) \subseteq Nat \ {0, 1}
  /\ Modules \cap Packed = {} /\ MaxStarts \in Nat \ {0}
BY ModulesAssumption DEF Forks!ForksAssumption, Forks!Names, Forks!Range, Forks!Probe

(* A child there is none of is a child with nothing to hold. *)
LEMMA NoChildOK == Forks!NoChild \in ForkChild /\ ChildOK(Forks!NoChild)
BY DEF Forks!NoChild, ForkChild, ChildOK, Forks!UnitUser, Forked

(* The users begin with none given. *)
LEMMA ForksInit == ASSUME Forks!Init PROVE ForksInv
  <1>1. ForksTypes
    BY NoChildOK, ForksConstants DEF Forks!Init, ForksTypes
  <1>2. GivenInv
    BY ForksConstants DEF Forks!Init, GivenInv
  <1>3. ChildInv
    BY NoChildOK DEF Forks!Init, ChildInv
  <1> QED
    BY <1>1, <1>2, <1>3 DEF ForksInv

(* A new user is 0 or one of the kind's, greater than each that is in use. *)
LEMMA NextUser == ASSUME NEW range, range \subseteq Nat \ {0}, NEW used, used \subseteq Nat
  PROVE  Forks!Next1(used, range) # 0 =>
           Forks!Next1(used, range) \in range /\ \A u \in used : u < Forks!Next1(used, range)
  <1> DEFINE Free == {v \in range : \A u \in used : u < v}
             Fits(uid) == IF \E v \in range : \A u \in used : u < v
                            THEN uid # 0 /\ (\A u \in used : u < uid) /\ \A v \in range : v < uid
                            => \E u \in used : u >= v
                            ELSE uid = 0
  <1>1. Forks!Next1(used, range) = CHOOSE uid \in range \cup {0} : Fits(uid)
    BY DEF Forks!Next1
  <1>2. \E uid \in range \cup {0} : Fits(uid)
    <2>1. CASE Free = {}
      BY <2>1
    <2>2. CASE Free # {}
      <3>1. \E x \in Free : \A y \in Free : x <= y
        <4>1. Free \subseteq Nat
          OBVIOUS
        <4> HIDE DEF Free
        <4> QED
          BY <2>2, <4>1, SmallestThere
      <3>2. PICK x \in Free : \A y \in Free : x <= y
        BY <3>1
      <3>3. ASSUME NEW v \in range, v < x PROVE \E u \in used : u >= v
        <4>1. v \notin Free
          BY <3>2, <3>3
        <4> QED
          BY <4>1
      <3>4. Fits(x)
        BY <3>2, <3>3
      <3> QED
        BY <3>4
    <2> QED
      BY <2>1, <2>2
  <1>3. Forks!Next1(used, range) \in range \cup {0} /\ Fits(Forks!Next1(used, range))
    <2> HIDE DEF Fits
    <2> QED
      BY <1>1, <1>2
  <1> QED
    BY <1>3

(* A step of one child keeps the invariant where it keeps that child's part of it. *)
LEMMA ChildKeeps ==
  ASSUME ForksInv, NEW c \in Slots, NEW ch \in ForkChild, ChildOK(ch), child' = [child EXCEPT ![c] = ch],
         UNCHANGED <<uids, owner, forks_host, server>>, forks_control' \in {"down", "up", "checks", "closed", "open"}
  PROVE  ForksInv'
  <1>1. ForksTypes'
    BY DEF ForksInv, ForksTypes
  <1>2. GivenInv'
    BY DEF ForksInv, GivenInv, Forks!Range
  <1>3. ChildInv'
    <2>1. ASSUME NEW d \in Slots PROVE ChildOK(child[d])'
      <3>1. child'[d] = IF d = c THEN ch ELSE child[d]
        BY DEF ForksInv, ForksTypes
      <3>2. ChildOK(child'[d])
        BY <3>1 DEF ForksInv, ChildInv
      <3> QED
        BY <3>2 DEF ChildOK
    <2> QED
      BY <2>1 DEF ChildInv
  <1> QED
    BY <1>1, <1>2, <1>3 DEF ForksInv

(* The users stay given, and one newly given is nobody else's. *)
LEMMA UsersKeep ==
  ASSUME ForksInv, NEW name \in Forks!Names, uids' = Forks!WithUser(name), UNCHANGED owner
  PROVE  /\ uids' \in [Forks!Names -> ModuleUids \cup PackageUids \cup {0}] /\ GivenInv'
         /\ \A other \in Forks!Names : uids[other] # 0 => uids'[other] = uids[other]
  <1> DEFINE new == Forks!Next1(Forks!Given(name), Forks!Range(name))
  <1>1. uids' = [other \in Forks!Names |-> IF other # name \/ uids[name] # 0 THEN uids[other] ELSE new]
    BY DEF Forks!WithUser
  <1>2. Forks!Range(name) \subseteq ModuleUids \cup PackageUids /\ Forks!Range(name) \subseteq Nat \ {0}
    BY ForksConstants
  <1>3. new # 0 => new \in Forks!Range(name) /\ \A u \in Forks!Given(name) : u < new
    <2>1. Forks!Given(name) \subseteq Nat
      BY <1>2 DEF Forks!Given
    <2> QED
      BY <1>2, <2>1, NextUser
  <1>4. new # 0 => \A other \in Forks!Names : uids[other] # new
    <2> SUFFICES ASSUME new # 0, NEW other \in Forks!Names, uids[other] = new PROVE FALSE
      OBVIOUS
    <2>1. new \in Forks!Given(name)
      BY <1>3 DEF Forks!Given
    <2>2. new < new /\ new \in Nat
      BY <1>2, <1>3, <2>1
    <2> QED
      BY <2>2
  <1>5. uids' \in [Forks!Names -> ModuleUids \cup PackageUids \cup {0}]
    BY <1>1, <1>2, <1>3 DEF ForksInv, ForksTypes
  <1>6. \A other \in Forks!Names : uids[other] # 0 => uids'[other] = uids[other]
    BY <1>1
  <1>7. \A other \in Forks!Names : uids'[other] = uids[other] \/ (other = name /\ uids[name] = 0
        /\ uids'[other] = new)
    BY <1>1
  <1> HIDE DEF new
  <1>8. GivenInv'
    <2>1. ASSUME NEW other \in Forks!Names, uids'[other] # 0 PROVE uids'[other] \in Forks!Range(other)
      BY <1>3, <1>7, <2>1 DEF ForksInv, GivenInv
    <2>2. ASSUME NEW n \in Forks!Names, NEW m \in Forks!Names, uids'[n] # 0, uids'[n] = uids'[m] PROVE n = m
      BY <1>4, <1>7, <2>2 DEF ForksInv, GivenInv
    <2>3. ASSUME NEW uid \in ModuleUids \cup PackageUids, owner[uid] # Nobody PROVE uids'[owner[uid]] = uid
      <3>1. owner[uid] \in Forks!Names /\ uids[owner[uid]] = uid /\ uid # 0
        BY <2>3, ForksConstants DEF ForksInv, GivenInv, ForksTypes
      <3> QED
        BY <3>1, <1>6
    <2>4. \A n \in Forks!Names : (Forks!Range(n))' = Forks!Range(n)
      BY DEF Forks!Range
    <2> QED
      BY <2>1, <2>2, <2>3, <2>4 DEF GivenInv
  <1> QED
    BY <1>5, <1>6, <1>8

(* The host's own steps leave the children and the users alone. *)
LEMMA ParentsKeep ==
  ASSUME ForksInv, UNCHANGED <<uids, child, owner>>, forks_host' \in 1..MaxStarts, server' \in BOOLEAN,
         forks_control' \in {"down", "up", "checks", "closed", "open"}
  PROVE  ForksInv'
  <1>1. ForksTypes'
    BY DEF ForksInv, ForksTypes
  <1>2. GivenInv'
    BY DEF ForksInv, GivenInv, Forks!Range
  <1>3. ChildInv'
    BY DEF ForksInv, ChildInv, ChildOK
  <1> QED
    BY <1>1, <1>2, <1>3 DEF ForksInv

(* The end of the forkserver leaves no child that is tied to it. *)
LEMMA EndKeeps == ASSUME ForksInv, Forks!Ends PROVE ForksInv'
  <1>1. \A c \in Slots : \/ child'[c] = Forks!NoChild
                         \/ /\ child'[c] = [child[c] EXCEPT !.alone = child[c].pc # "none", !.cut = TRUE]
                            /\ child[c].pc \notin {"runs", "stuck"}
    BY DEF Forks!Ends, Forks!Tied
  <1>2. ASSUME NEW c \in Slots PROVE child'[c] \in ForkChild /\ ChildOK(child[c])'
    <2>1. child[c] \in ForkChild /\ ChildOK(child[c])
      BY DEF ForksInv, ForksTypes, ChildInv
    <2>2. CASE child'[c] = Forks!NoChild
      BY <2>2, NoChildOK DEF ChildOK, Forks!NoChild, Forked
    <2>3. CASE /\ child'[c] = [child[c] EXCEPT !.alone = child[c].pc # "none", !.cut = TRUE]
               /\ child[c].pc \notin {"runs", "stuck"}
      <3>1. /\ child'[c] \in ForkChild /\ child'[c].pc = child[c].pc /\ child'[c].name = child[c].name
            /\ child'[c].user = child[c].user /\ child'[c].uid = child[c].uid /\ child'[c].caps = child[c].caps
        <4>1. (child[c].pc # "none") \in BOOLEAN
          OBVIOUS
        <4> QED
          BY <2>1, <2>3, <4>1 DEF ForkChild
      <3>2. UNCHANGED <<uids, owner>>
        BY DEF Forks!Ends
      <3> QED
        BY <2>1, <2>3, <3>1, <3>2 DEF ChildOK
    <2> QED
      BY <1>1, <2>2, <2>3
  <1>3. child' = [c \in Slots |-> child'[c]]
    BY DEF Forks!Ends
  <1>4. child' \in [Slots -> ForkChild]
    BY <1>2, <1>3
  <1>5. ForksTypes'
    BY <1>4 DEF ForksInv, ForksTypes, Forks!Ends
  <1>6. GivenInv'
    BY DEF ForksInv, GivenInv, Forks!Range, Forks!Ends
  <1>7. ChildInv'
    BY <1>2 DEF ChildInv
  <1> QED
    BY <1>5, <1>6, <1>7 DEF ForksInv

(* A child asked for is its name's and has no capabilities yet. *)
LEMMA AskedChild == ASSUME NEW name \in Forks!Names, NEW user \in Nat
  PROVE  LET ch == [Forks!NoChild EXCEPT !.pc = "asked", !.name = name, !.user = user]
         IN  ch \in ForkChild /\ ch.pc = "asked" /\ ch.name = name /\ ch.user = user /\ ~ch.caps
BY DEF ForkChild, Forks!NoChild, Forks!UnitUser

(* A module asked for has a user that stays its own, and so do all others. *)
LEMMA StartKeeps == ASSUME ForksInv, NEW c \in Slots, NEW name \in Forks!Names, Forks!StartsModule(c, name)
         PROVE ForksInv'
  <1>1. /\ uids' = Forks!WithUser(name) /\ UNCHANGED <<forks_host, server, forks_control, owner>>
        /\ \/ child' = child
           \/ /\ uids'[name] # 0
              /\ child' = [child EXCEPT ![c] = [Forks!NoChild EXCEPT !.pc = "asked", !.name = name,
                 !.user = uids'[name]]]
    BY DEF Forks!StartsModule, Forks!Asks, Forks!parents
  <1>2. /\ uids' \in [Forks!Names -> ModuleUids \cup PackageUids \cup {0}] /\ GivenInv'
        /\ \A other \in Forks!Names : uids[other] # 0 => uids'[other] = uids[other]
    BY <1>1, UsersKeep
  <1> DEFINE new == [Forks!NoChild EXCEPT !.pc = "asked", !.name = name, !.user = uids'[name]]
  <1>3. /\ new \in ForkChild /\ new.pc = "asked" /\ new.name = name /\ new.user = uids'[name] /\ ~new.caps
    <2>1. uids'[name] \in Nat
      BY <1>2, ForksConstants
    <2> QED
      BY <2>1, AskedChild
  <1> HIDE DEF new
  <1>4. \A d \in Slots : child'[d] = child[d] \/ (child'[d] = new /\ uids'[name] # 0)
    BY <1>1 DEF ForksInv, ForksTypes, new
  <1>5. child' \in [Slots -> ForkChild]
    BY <1>1, <1>3 DEF ForksInv, ForksTypes, new
  <1>6. ForksTypes'
    BY <1>1, <1>2, <1>5 DEF ForksInv, ForksTypes
  <1>7. ASSUME NEW d \in Slots PROVE ChildOK(child[d])'
    <2>1. CASE child'[d] = child[d]
      <3>1. ChildOK(child[d])
        BY DEF ForksInv, ChildInv
      <3>2. child[d].pc # "none" /\ child[d].name # Forks!Probe => uids'[child[d].name] = uids[child[d].name]
        BY <1>2, <3>1 DEF ChildOK
      <3> QED
        BY <1>1, <2>1, <3>1, <3>2 DEF ChildOK
    <2>2. CASE child'[d] = new /\ uids'[name] # 0
      BY <1>3, <2>2, ForksConstants DEF ChildOK, Forked
    <2> QED
      BY <1>4, <2>1, <2>2
  <1> QED
    BY <1>2, <1>6, <1>7 DEF ForksInv, ChildInv

(* A fork gives the user's folder to the name, which has it already or whose user it is. *)
LEMMA ForkKeeps == ASSUME ForksInv, NEW c \in Slots, Forks!Forks(c) PROVE ForksInv'
  <1> DEFINE ch == child[c]
             forked == [child[c] EXCEPT !.pc = "forked", !.caps = TRUE]
  <1>1. ch \in ForkChild /\ ChildOK(ch) /\ ch.pc = "asked" /\ ch.name \in Forks!Names \cup {Forks!Probe}
    BY DEF ForksInv, ForksTypes, ChildInv, ChildOK, Forks!Forks
  <1>2. /\ forked \in ForkChild /\ forked.pc = "forked" /\ forked.name = ch.name /\ forked.user = ch.user
    BY <1>1 DEF ForkChild
  <1>3. child' = [child EXCEPT ![c] = forked] /\ UNCHANGED <<uids, forks_host, server, forks_control>>
    BY DEF Forks!Forks, Forks!parents, ForksInv, ForksTypes
  <1>4. ch.name # Forks!Probe => /\ ch.name \in Forks!Names /\ ch.user = uids[ch.name] /\ ch.user # 0
                                 /\ ch.user \in ModuleUids \cup PackageUids
    <2>1. uids \in [Forks!Names -> ModuleUids \cup PackageUids \cup {0}]
      BY DEF ForksInv, ForksTypes
    <2> QED
      BY <1>1, <2>1 DEF ChildOK
  <1>5. \A uid \in ModuleUids \cup PackageUids :
          owner'[uid] = owner[uid] \/ (uid = ch.user /\ ch.name # Forks!Probe /\ owner[uid] = Nobody
          /\ owner'[uid] = ch.name)
    BY <1>4 DEF Forks!Forks, ForksInv, ForksTypes
  <1>6. owner' \in [ModuleUids \cup PackageUids -> Forks!Names \cup {Nobody}]
    BY <1>1, <1>4 DEF Forks!Forks, ForksInv, ForksTypes
  <1>7. ch.name # Forks!Probe => owner'[ch.user] = ch.name
    <2> SUFFICES ASSUME ch.name # Forks!Probe PROVE owner'[ch.user] = ch.name
      OBVIOUS
    <2>1. CASE owner[ch.user] = Nobody
      BY <1>4, <2>1 DEF Forks!Forks, ForksInv, ForksTypes
    <2>2. CASE owner[ch.user] # Nobody
      <3>1. owner[ch.user] \in Forks!Names /\ uids[owner[ch.user]] = ch.user
        BY <1>4, <2>2 DEF ForksInv, ForksTypes, GivenInv
      <3>2. owner[ch.user] = ch.name
        BY <1>4, <3>1 DEF ForksInv, GivenInv
      <3> QED
        BY <1>4, <1>5, <2>2, <3>2
    <2> QED
      BY <2>1, <2>2
  <1> HIDE DEF ch, forked
  <1>8. ForksTypes'
    BY <1>2, <1>3, <1>6 DEF ForksInv, ForksTypes
  <1>9. GivenInv'
    <2>1. \A uid \in ModuleUids \cup PackageUids : owner'[uid] # Nobody => uids[owner'[uid]] = uid
      BY <1>4, <1>5 DEF ForksInv, GivenInv
    <2> QED
      BY <1>3, <2>1 DEF ForksInv, GivenInv, Forks!Range
  <1>10. ASSUME NEW d \in Slots PROVE ChildOK(child[d])'
    <2>1. CASE d = c
      <3>1. child'[d] = forked
        BY <1>3, <2>1 DEF ForksInv, ForksTypes
      <3> QED
        BY <1>1, <1>2, <1>3, <1>4, <1>7, <3>1 DEF ChildOK, Forked
    <2>2. CASE d # c
      <3>1. child'[d] = child[d] /\ ChildOK(child[d])
        BY <1>3, <2>2 DEF ForksInv, ForksTypes, ChildInv
      <3>2. child[d].pc \in Forked /\ child[d].name # Forks!Probe => owner'[child[d].user] = child[d].name
        <4> SUFFICES ASSUME child[d].pc \in Forked, child[d].name # Forks!Probe
                            PROVE owner'[child[d].user] = child[d].name
          OBVIOUS
        <4>1. /\ child[d].name \in Forks!Names /\ child[d].user = uids[child[d].name] /\ child[d].user # 0
              /\ owner[child[d].user] = child[d].name
          BY <3>1 DEF ChildOK, Forked
        <4>2. child[d].user \in ModuleUids \cup PackageUids /\ owner[child[d].user] # Nobody
          BY <4>1, ForksConstants DEF ForksInv, ForksTypes
        <4> QED
          BY <1>5, <4>1, <4>2
      <3> QED
        BY <1>3, <3>1, <3>2 DEF ChildOK
    <2> QED
      BY <2>1, <2>2
  <1> QED
    BY <1>8, <1>9, <1>10 DEF ForksInv, ChildInv

(* Each step of the host and its children keeps the invariant. *)
LEMMA ForksStep == ASSUME ForksInv, [Forks!Next]_ForksVars PROVE ForksInv'
  <1> USE DEF Forks!parents
  <1>1. CASE Forks!StartsControl \/ Forks!Starts \/ Forks!Answers \/ UNCHANGED ForksVars
    <2>1. /\ UNCHANGED <<uids, child, owner>> /\ server' \in BOOLEAN
          /\ forks_control' \in {"down", "up", "checks", "closed", "open"}
      BY <1>1 DEF Forks!StartsControl, Forks!Starts, Forks!Answers, ForksVars, ForksInv, ForksTypes
    <2>2. forks_host' \in 1..MaxStarts
      BY <1>1, ForksConstants DEF Forks!StartsControl, Forks!Starts, Forks!Answers, ForksVars, ForksInv, ForksTypes
    <2> QED
      BY <2>1, <2>2, ParentsKeep
  <1>2. CASE Forks!Ends
    BY <1>2, EndKeeps
  <1>3. ASSUME NEW c \in Slots,
               Forks!Probes(c) \/ Forks!Closes(c) \/ Forks!Hangs(c) \/ Forks!Finishes(c) \/ Forks!ChildStep(c)
        PROVE  ForksInv'
    <2>1. child[c] \in ForkChild /\ ChildOK(child[c]) /\ forks_control \in {"down", "up", "checks", "closed", "open"}
      BY DEF ForksInv, ForksTypes, ChildInv
    <2>2. CASE Forks!Forks(c)
      BY <2>2, ForkKeeps
    <2>3. CASE Forks!Probes(c)
      <3> DEFINE ch == [Forks!NoChild EXCEPT !.pc = "asked", !.name = Forks!Probe, !.user = Forks!ProbeUid]
      <3>1. ch \in ForkChild /\ ChildOK(ch)
        BY DEF ForkChild, ChildOK, Forks!NoChild, Forks!UnitUser, Forks!ProbeUid, Forked
      <3>2. /\ child' = [child EXCEPT ![c] = ch] /\ forks_control' = "checks"
            /\ UNCHANGED <<uids, owner, forks_host, server>>
        BY <2>3 DEF Forks!Probes, Forks!Asks
      <3> QED
        BY <3>1, <3>2, ChildKeeps
    <2>4. CASE Forks!Closes(c)
      <3> DEFINE ch == [child[c] EXCEPT !.cut = TRUE]
      <3>1. ch \in ForkChild /\ ChildOK(ch)
        BY <2>1 DEF ForkChild, ChildOK
      <3>2. /\ child' = [child EXCEPT ![c] = ch] /\ forks_control' = forks_control
            /\ UNCHANGED <<uids, owner, forks_host, server>>
        BY <2>4 DEF Forks!Closes, ForksInv, ForksTypes
      <3> QED
        BY <2>1, <3>1, <3>2, ChildKeeps
    <2>5. ASSUME NEW from, NEW ch \in ForkChild, ChildOK(ch), Forks!Child(c, from, ch) PROVE ForksInv'
      <3>1. /\ child' = [child EXCEPT ![c] = ch] /\ forks_control' = forks_control
            /\ UNCHANGED <<uids, owner, forks_host, server>>
        BY <2>5 DEF Forks!Child
      <3> QED
        BY <2>1, <2>5, <3>1, ChildKeeps
    <2>6. CASE Forks!SwitchesUser(c)
      <3> DEFINE ch == [child[c] EXCEPT !.pc = "switched", !.uid = child[c].user]
      <3>1. Forks!Child(c, "forked", ch) /\ child[c].pc = "forked"
        BY <2>6 DEF Forks!SwitchesUser, Forks!Child
      <3>2. ch \in ForkChild /\ ChildOK(ch)
        BY <2>1, <3>1 DEF ForkChild, ChildOK, Forked
      <3> QED
        BY <2>5, <3>1, <3>2
    <2>7. CASE Forks!DropsCapabilities(c)
      <3> DEFINE ch == [child[c] EXCEPT !.pc = "bare", !.caps = FALSE]
      <3>1. Forks!Child(c, "switched", ch) /\ child[c].pc = "switched"
        BY <2>7 DEF Forks!DropsCapabilities, Forks!Child
      <3>2. ch \in ForkChild /\ ChildOK(ch)
        BY <2>1, <3>1 DEF ForkChild, ChildOK, Forked
      <3> QED
        BY <2>5, <3>1, <3>2
    <2>8. CASE Forks!TiesToParent(c)
      <3> DEFINE ch == [child[c] EXCEPT !.pc = "tied"]
      <3>1. Forks!Child(c, "bare", ch) /\ child[c].pc = "bare"
        BY <2>8 DEF Forks!TiesToParent, Forks!Child
      <3>2. ch \in ForkChild /\ ChildOK(ch)
        BY <2>1, <3>1 DEF ForkChild, ChildOK, Forked
      <3> QED
        BY <2>5, <3>1, <3>2
    <2>9. CASE Forks!ChecksParent(c)
      <3>1. child[c].pc = "tied" /\ (\/ Forks!Child(c, "tied", Forks!NoChild)
                                     \/ ~child[c].alone /\ Forks!Child(c, "tied", [child[c] EXCEPT !.pc = "runs"]))
        BY <2>9 DEF Forks!ChecksParent, Forks!Child
      <3>2. CASE Forks!Child(c, "tied", Forks!NoChild)
        BY <2>5, <3>2, NoChildOK
      <3>3. CASE ~child[c].alone /\ Forks!Child(c, "tied", [child[c] EXCEPT !.pc = "runs"])
        <4> DEFINE ch == [child[c] EXCEPT !.pc = "runs"]
        <4>1. ch \in ForkChild /\ ChildOK(ch)
          BY <2>1, <3>1, <3>3 DEF ForkChild, ChildOK, Forked
        <4> QED
          BY <2>5, <3>3, <4>1
      <3> QED
        BY <3>1, <3>2, <3>3
    <2>10. CASE Forks!Hangs(c)
      <3> DEFINE ch == [child[c] EXCEPT !.pc = "stuck"]
      <3>1. Forks!Child(c, "runs", ch) /\ child[c].pc = "runs"
        BY <2>10 DEF Forks!Hangs, Forks!Child
      <3>2. ch \in ForkChild /\ ChildOK(ch)
        BY <2>1, <3>1 DEF ForkChild, ChildOK, Forked
      <3> QED
        BY <2>5, <3>1, <3>2
    <2>11. CASE Forks!Finishes(c) \/ Forks!ExitsAfterGrace(c)
      BY <2>5, <2>11, NoChildOK DEF Forks!Finishes, Forks!ExitsAfterGrace
    <2> QED
      BY <1>3, <2>2, <2>3, <2>4, <2>6, <2>7, <2>8, <2>9, <2>10, <2>11 DEF Forks!ChildStep
  <1>4. ASSUME NEW c \in Slots, NEW name \in Forks!Names, Forks!StartsModule(c, name) PROVE ForksInv'
    BY <1>4, StartKeeps
  <1> QED
    BY <1>1, <1>2, <1>3, <1>4 DEF Forks!Next

(* A module's code runs as a user that no other name ever has, without capabilities and never without a parent,
   whatever the names, the users and the order of installs, ends and forks (module_uids, fork_child). *)
THEOREM UsersAlwaysOwn == Spec => []UsersAreOwn
  <1> DEFINE Inv == part = "forks" => ForksInv
  <1>1. Init => Inv
    BY ForksInit DEF Init
  <1>2. Inv /\ [Next]_vars => Inv'
    BY ForksStep, StepOfPart
  <1>3. ForksInv => Forks!UsersAreOwn
    <2> SUFFICES ASSUME ForksInv PROVE Forks!UsersAreOwn
      OBVIOUS
    <2>1. Forks!TypeOK
      BY DEF ForksInv, ForksTypes, ForkChild, Forks!TypeOK
    <2>2. ASSUME NEW c \in Slots, Forks!Runs(c)
          PROVE  /\ ~child[c].caps /\ ~child[c].alone /\ child[c].uid \in Forks!Range(child[c].name)
                 /\ child[c].name # Forks!Probe => owner[child[c].uid] = child[c].name
      <3>1. child[c].pc \in {"runs", "stuck"} /\ ChildOK(child[c])
        BY <2>2 DEF Forks!Runs, ForksInv, ChildInv
      <3>2. /\ ~child[c].caps /\ ~child[c].alone /\ child[c].uid = child[c].user
            /\ child[c].name \in Forks!Names \cup {Forks!Probe}
            /\ child[c].name = Forks!Probe => child[c].user = Forks!ProbeUid
            /\ child[c].name # Forks!Probe => /\ child[c].user = uids[child[c].name] /\ child[c].user # 0
                                              /\ owner[child[c].user] = child[c].name
        BY <3>1 DEF ChildOK, Forked
      <3>3. CASE child[c].name = Forks!Probe
        BY <3>2, <3>3 DEF Forks!Range
      <3>4. CASE child[c].name # Forks!Probe
        BY <3>2, <3>4 DEF ForksInv, GivenInv
      <3> QED
        BY <3>2, <3>3, <3>4
    <2> QED
      BY <2>1, <2>2 DEF Forks!UsersAreOwn
  <1>4. Inv => UsersAreOwn
    BY <1>3 DEF UsersAreOwn
  <1> QED
    BY <1>1, <1>2, <1>4, PTL DEF Spec

-----------------------------------------------------------------------------
(* Syncs, instances and the host.                                           *)

HostSync == [by : ModuleHost!Callers, pc : {"idle", "uids", "lan", "loop", "open"}, control : 0..ModuleHost!MaxHosts,
             wanted : [Instances -> ModuleHost!Keys], todo : SUBSET Instances, conn : 0..MaxConns]
HostConn == [st : {"free", "opening", "served", "closed", "ended"}, inst : Instances \cup {ModuleHost!None},
             key : ModuleHost!Keys, host : 0..ModuleHost!MaxHosts, proc : {"none", "asked", "alive", "gone"},
             old : BOOLEAN]
OwnerTypes ==
  /\ bound \in HostBounds /\ settings \in [Instances -> ModuleHost!Keys] /\ changes \in 0..bound.changes
  /\ reload \in BOOLEAN /\ waiting \subseteq ModuleHost!Callers
HostTypes ==
  /\ modulehost_host \in [no : 1..ModuleHost!MaxHosts, st : {"down", "checking", "closed", "open"}, taken : BOOLEAN]
  /\ modulehost_control \in 0..ModuleHost!MaxHosts /\ run \in {"connect", "sync", "read", "dead"}
ConnTypes == conn \in [ModuleHost!Conns -> HostConn] /\ reg \in [Instances -> 0..MaxConns]
CountTypes == /\ restart \subseteq Instances /\ paused \subseteq Instances /\ lasted \subseteq Instances
              /\ crashes \in [Instances -> Nat] /\ died \in 0..bound.crashes
SyncTypes == OwnerTypes /\ HostTypes /\ sync \in HostSync /\ ConnTypes /\ CountTypes

\* While _run connects there is no connection, and while it waits for its sync there is: so no sync of its own
\* meets a connection that is gone.
RunInv ==
  /\ modulehost_control = ModuleHost!None <=> run = "connect"
  /\ run # "dead"
  /\ "run" \in waiting => run = "sync" /\ (sync.pc # "idle" => sync.by # "run")
  /\ sync.pc # "idle" /\ sync.by = "run" => run = "sync"

\* A process that was asked for is one of the host that is up.
AliveInv ==
  \A c \in ModuleHost!Conns : /\ conn[c].proc \in {"asked", "alive"} => ModuleHost!HostUp(conn[c].host)
                              /\ conn[c].proc = "alive" => modulehost_host.st = "closed"

\* An instance's connection is the one _instances knows, from when it is served to its end; before that it is
\* the sync's.
OpensInv ==
  /\ sync.pc = "open" <=> sync.conn # ModuleHost!None
  /\ sync.pc = "open" => conn[sync.conn].st = "opening" /\ reg[conn[sync.conn].inst] = ModuleHost!None
  /\ \A c \in ModuleHost!Conns : /\ conn[c].st = "opening" => sync.conn = c
                                 /\ conn[c].st # "free" => conn[c].inst \in Instances
                                 /\ conn[c].st = "served" => reg[conn[c].inst] = c
  /\ \A i \in Instances : reg[i] # ModuleHost!None => conn[reg[i]].inst = i /\ conn[reg[i]].st \in {"served", "ended"}

\* What a sync goes by is what the settings say, or another sync is to come, or there is nothing it could stop.
WantedInv ==
  sync.pc \in {"uids", "lan"} =>
     \/ reload \/ waiting # {} \/ modulehost_control = ModuleHost!None
     \/ \A i \in Instances : sync.wanted[i] = settings[i] \/ i \in paused
     \/ /\ sync.pc = "lan"
        /\ modulehost_host.st = "open" \/ \A c \in ModuleHost!Conns : conn[c].proc \notin {"asked", "alive"}
HostInv == SyncTypes /\ RunInv /\ AliveInv /\ OpensInv /\ WantedInv

(* The bounds of a behaviour, and what its keys and numbers of hosts are. *)
LEMMA HostConstants ==
  /\ CrashLimit \in Nat \ {0, 1} /\ MaxConns \in Nat \ {0} /\ ModuleHost!Conns = 1..MaxConns /\ ModuleHost!None = 0
  /\ ModuleHost!Callers = {"run", "other"}
  /\ bound \in HostBounds =>
       /\ bound.changes \in Nat /\ bound.crashes \in Nat /\ bound.hosts \in Nat \ {0}
       /\ bound.instances \subseteq Instances /\ ModuleHost!MaxHosts = bound.hosts
       /\ ModuleHost!Keys = 0..(bound.changes + 1)
BY ModulesAssumption DEF ModuleHost!ModuleHostAssumption, ModuleHost!Conns, ModuleHost!None, ModuleHost!Callers,
   ModuleHost!MaxHosts, ModuleHost!Keys

(* No step changes the bounds of the behaviour, nor the sets that depend on them. *)
LEMMA BoundStays == ASSUME [ModuleHost!Next]_ModuleHostVars
  PROVE  /\ bound' = bound /\ ModuleHost!Keys' = ModuleHost!Keys /\ ModuleHost!MaxHosts' = ModuleHost!MaxHosts
         /\ HostSync' = HostSync /\ HostConn' = HostConn
  <1>1. bound' = bound
    BY DEF ModuleHost!Next, ModuleHost!CoreStep, ModuleHost!HostStep, ModuleHost!Trouble, ModuleHost!SaveSettings,
       ModuleHost!Resume, ModuleHost!ReloadModules, ModuleHost!RunConnects, ModuleHost!RunLosesHost,
       ModuleHost!SyncBegins, ModuleHost!UidsAnswered, ModuleHost!UidsFail, ModuleHost!SyncFails,
       ModuleHost!LanApplied, ModuleHost!LeavesRunning, ModuleHost!OpensInstance, ModuleHost!OpenFails,
       ModuleHost!OpenBreaks, ModuleHost!Starts, ModuleHost!StartNotSent, ModuleHost!SyncEnds, ModuleHost!ServeEnds,
       ModuleHost!ServeCounts, ModuleHost!ServeRestarts, ModuleHost!HostExits, ModuleHost!HostStarts,
       ModuleHost!HostChecks, ModuleHost!HostStartsInstance, ModuleHost!HostDies, ModuleHost!HostGone,
       ModuleHost!InstanceDies, ModuleHost!InstanceLasts, ModuleHost!owner, ModuleHostVars
  <1> QED
    BY <1>1 DEF ModuleHost!Keys, ModuleHost!MaxHosts, HostSync, HostConn

(* The connections of the instances that a stop closes; the others stay as they are. *)
LEMMA StopsServed == ASSUME SyncTypes, NEW is \in SUBSET Instances
  PROVE  /\ ModuleHost!Stopped(is) \in [ModuleHost!Conns -> HostConn]
         /\ \A c \in ModuleHost!Conns :
              \/ /\ ModuleHost!Stopped(is)[c] = conn[c]
                 /\ \A i \in is : reg[i] = c => conn[c].st # "served"
              \/ /\ conn[c].st = "served" /\ \E i \in is : reg[i] = c
                 /\ ModuleHost!Stopped(is)[c].st = "closed" /\ ModuleHost!Stopped(is)[c].proc = "none"
                 /\ ModuleHost!Stopped(is)[c].inst = conn[c].inst
  <1>1. \A c \in ModuleHost!Conns : /\ conn[c] \in HostConn /\ ModuleHost!Closed(c) \in HostConn
                                    /\ ModuleHost!Closed(c).st = "closed" /\ ModuleHost!Closed(c).proc = "none"
                                    /\ ModuleHost!Closed(c).inst = conn[c].inst
    BY DEF SyncTypes, ConnTypes, HostConn, ModuleHost!Closed
  <1>2. ModuleHost!Stopped(is) = [c \in ModuleHost!Conns |->
           IF \E i \in is : reg[i] = c /\ conn[c].st = "served" THEN ModuleHost!Closed(c) ELSE conn[c]]
    BY DEF ModuleHost!Stopped
  <1> QED
    BY <1>1, <1>2

(* Without a sync nothing is wanted. *)
LEMMA NoSyncTyped == ASSUME SyncTypes
  PROVE  ModuleHost!NoSync \in HostSync /\ ModuleHost!NoSync.pc = "idle" /\ ModuleHost!NoSync.conn = ModuleHost!None
  <1>1. [i \in Instances |-> 0] \in [Instances -> ModuleHost!Keys] /\ 0 \in 0..ModuleHost!MaxHosts
        /\ 0 \in 0..MaxConns
    BY HostConstants DEF SyncTypes, OwnerTypes
  <1> QED
    BY <1>1, HostConstants DEF HostSync, ModuleHost!NoSync

(* Without a connection there is no instance on it. *)
LEMMA NoConnTyped == ASSUME SyncTypes
  PROVE  ModuleHost!NoConn \in HostConn /\ ModuleHost!NoConn.st = "free" /\ ModuleHost!NoConn.proc = "none"
  <1>1. 0 \in ModuleHost!Keys /\ 0 \in 0..ModuleHost!MaxHosts
    BY HostConstants DEF SyncTypes, OwnerTypes
  <1> QED
    BY <1>1 DEF HostConn, ModuleHost!NoConn

(* A sync that fails leaves nothing of itself; the one of _run takes every connection with it. *)
LEMMA FailsTyped == ASSUME SyncTypes, ModuleHost!SyncFails
  PROVE  /\ UNCHANGED <<ModuleHost!owner, modulehost_host, waiting, restart, ModuleHost!counts, died>>
         /\ sync' = ModuleHost!NoSync
         /\ \/ sync.by # "run" /\ UNCHANGED <<conn, reg, modulehost_control, run>>
            \/ /\ sync.by = "run" /\ run' = "connect" /\ modulehost_control' = ModuleHost!None
               /\ conn' = ModuleHost!Stopped(Instances) /\ reg' = [i \in Instances |-> ModuleHost!None]
BY DEF ModuleHost!SyncFails, ModuleHost!Disconnected, ModuleHost!link

(* The steps by which a sync fails. *)
SyncFailing == ModuleHost!UidsFail \/ \E i \in Instances : ModuleHost!OpenFails(i)

(* What the owner does, and who waits, stays of its type. *)
LEMMA OwnerStep == ASSUME SyncTypes, [ModuleHost!Next]_ModuleHostVars PROVE OwnerTypes'
  <1> USE DEF SyncTypes, OwnerTypes
  <1>0. bound' = bound /\ ModuleHost!Keys' = ModuleHost!Keys
    BY BoundStays
  <1>1. CASE ModuleHost!SaveSettings
    <2>1. PICK i \in bound.instances, key \in {0, changes + 2} : settings' = [settings EXCEPT ![i] = key]
      BY <1>1 DEF ModuleHost!SaveSettings
    <2>2. key \in ModuleHost!Keys /\ changes' \in 0..bound.changes
      BY <1>1, HostConstants DEF ModuleHost!SaveSettings
    <2> QED
      BY <1>0, <1>1, <2>1, <2>2 DEF ModuleHost!SaveSettings
  <1>2. CASE ModuleHost!ReloadModules \/ ModuleHost!Resume
    <2>1. changes' \in 0..bound.changes
      BY <1>2, HostConstants DEF ModuleHost!ReloadModules, ModuleHost!Resume
    <2>2. waiting' \subseteq ModuleHost!Callers
      BY <1>2, HostConstants DEF ModuleHost!ReloadModules, ModuleHost!Resume, ModuleHost!AskForSync
    <2> QED
      BY <1>0, <1>2, <2>1, <2>2 DEF ModuleHost!ReloadModules, ModuleHost!Resume
  <1>3. CASE \/ ModuleHost!RunConnects \/ (\E caller \in ModuleHost!Callers : ModuleHost!SyncBegins(caller))
             \/ \E i \in Instances : ModuleHost!ServeRestarts(i)
    BY <1>0, <1>3, HostConstants DEF ModuleHost!RunConnects, ModuleHost!SyncBegins, ModuleHost!ServeRestarts,
       ModuleHost!owner
  <1>4. CASE SyncFailing
    BY <1>0, <1>4, FailsTyped DEF SyncFailing, ModuleHost!UidsFail, ModuleHost!OpenFails, ModuleHost!owner
  <1>5. CASE \/ ModuleHost!RunLosesHost \/ ModuleHost!UidsAnswered \/ ModuleHost!LanApplied \/ ModuleHost!Starts
             \/ ModuleHost!StartNotSent \/ ModuleHost!SyncEnds
             \/ \E i \in Instances : ModuleHost!LeavesRunning(i) \/ ModuleHost!OpensInstance(i)
                \/ ModuleHost!OpenBreaks(i)
    BY <1>0, <1>5 DEF ModuleHost!RunLosesHost, ModuleHost!UidsAnswered, ModuleHost!LanApplied, ModuleHost!Starts,
       ModuleHost!StartNotSent, ModuleHost!SyncEnds, ModuleHost!LeavesRunning, ModuleHost!OpensInstance,
       ModuleHost!OpenBreaks, ModuleHost!owner
  <1>6. CASE \/ ModuleHost!HostExits \/ ModuleHost!HostStarts \/ ModuleHost!HostChecks \/ ModuleHost!HostDies
             \/ \E c \in ModuleHost!Conns : \/ ModuleHost!ServeEnds(c) \/ ModuleHost!ServeCounts(c)
                                            \/ ModuleHost!HostStartsInstance(c) \/ ModuleHost!InstanceDies(c)
                                            \/ ModuleHost!InstanceLasts(c)
    BY <1>0, <1>6 DEF ModuleHost!HostExits, ModuleHost!HostStarts, ModuleHost!HostChecks, ModuleHost!HostDies,
       ModuleHost!HostGone, ModuleHost!ServeEnds, ModuleHost!ServeCounts, ModuleHost!HostStartsInstance,
       ModuleHost!InstanceDies, ModuleHost!InstanceLasts, ModuleHost!owner
  <1>7. CASE UNCHANGED ModuleHostVars
    BY <1>0, <1>7 DEF ModuleHostVars
  <1> QED
    BY <1>1, <1>2, <1>3, <1>4, <1>5, <1>6, <1>7
    DEF ModuleHost!Next, ModuleHost!CoreStep, ModuleHost!HostStep, ModuleHost!Trouble, SyncFailing

(* The host, and the core's connection to it, stay of their type. *)
LEMMA HostTypesStep == ASSUME SyncTypes, [ModuleHost!Next]_ModuleHostVars PROVE HostTypes'
  <1> USE DEF SyncTypes, HostTypes
  <1>0. /\ ModuleHost!MaxHosts' = ModuleHost!MaxHosts /\ ModuleHost!MaxHosts \in Nat \ {0} /\ ModuleHost!None = 0
        /\ ModuleHost!MaxHosts = bound.hosts
    BY BoundStays, HostConstants DEF OwnerTypes
  <1>1. CASE ModuleHost!HostExits \/ ModuleHost!HostDies \/ ModuleHost!HostChecks
    BY <1>0, <1>1 DEF ModuleHost!HostExits, ModuleHost!HostDies, ModuleHost!HostGone, ModuleHost!HostChecks,
       ModuleHost!link
  <1>2. CASE ModuleHost!HostStarts
    <2>1. modulehost_host.no + 1 \in 1..ModuleHost!MaxHosts
      BY <1>0, <1>2 DEF ModuleHost!HostStarts
    <2> QED
      BY <1>0, <1>2, <2>1 DEF ModuleHost!HostStarts, ModuleHost!link
  <1>3. CASE ModuleHost!RunConnects
    <2>1. modulehost_control' \in 0..ModuleHost!MaxHosts
      BY <1>0, <1>3 DEF ModuleHost!RunConnects
    <2> QED
      BY <1>0, <1>3, <2>1 DEF ModuleHost!RunConnects
  <1>8. CASE ModuleHost!RunLosesHost
    BY <1>0, <1>8 DEF ModuleHost!RunLosesHost, ModuleHost!Disconnected
  <1>4. CASE SyncFailing
    BY <1>0, <1>4, FailsTyped DEF SyncFailing, ModuleHost!UidsFail, ModuleHost!OpenFails
  <1>5. CASE ModuleHost!StartNotSent \/ ModuleHost!SyncEnds \/ \E i \in Instances : ModuleHost!OpenBreaks(i)
    BY <1>0, <1>5 DEF ModuleHost!StartNotSent, ModuleHost!SyncEnds, ModuleHost!OpenBreaks, ModuleHost!link
  <1>6. CASE \/ ModuleHost!SaveSettings \/ ModuleHost!ReloadModules \/ ModuleHost!Resume \/ ModuleHost!UidsAnswered
             \/ ModuleHost!LanApplied \/ ModuleHost!Starts \/ UNCHANGED ModuleHostVars
    BY <1>0, <1>6 DEF ModuleHost!SaveSettings, ModuleHost!ReloadModules, ModuleHost!Resume, ModuleHost!UidsAnswered,
       ModuleHost!LanApplied, ModuleHost!Starts, ModuleHostVars, ModuleHost!link
  <1>7. CASE \/ \E caller \in ModuleHost!Callers : ModuleHost!SyncBegins(caller)
             \/ \E i \in Instances : \/ ModuleHost!LeavesRunning(i) \/ ModuleHost!OpensInstance(i)
                                     \/ ModuleHost!ServeRestarts(i)
             \/ \E c \in ModuleHost!Conns : \/ ModuleHost!ServeEnds(c) \/ ModuleHost!ServeCounts(c)
                                            \/ ModuleHost!HostStartsInstance(c) \/ ModuleHost!InstanceDies(c)
                                            \/ ModuleHost!InstanceLasts(c)
    BY <1>0, <1>7 DEF ModuleHost!SyncBegins, ModuleHost!LeavesRunning, ModuleHost!OpensInstance,
       ModuleHost!ServeRestarts, ModuleHost!ServeEnds, ModuleHost!ServeCounts, ModuleHost!HostStartsInstance,
       ModuleHost!InstanceDies, ModuleHost!InstanceLasts, ModuleHost!link
  <1> QED
    BY <1>1, <1>2, <1>3, <1>4, <1>5, <1>6, <1>7, <1>8
    DEF ModuleHost!Next, ModuleHost!CoreStep, ModuleHost!HostStep, ModuleHost!Trouble, SyncFailing

(* What a sync read and where it is stays of its type. *)
LEMMA SyncStep == ASSUME SyncTypes, [ModuleHost!Next]_ModuleHostVars PROVE sync' \in HostSync
  <1> DEFINE OK == sync' \in HostSync
  <1>0. /\ HostSync' = HostSync /\ ModuleHost!None = 0 /\ 0 \in ModuleHost!Keys /\ 0 \in 0..ModuleHost!MaxHosts
        /\ sync \in HostSync /\ ModuleHost!NoSync \in HostSync
    BY BoundStays, HostConstants, NoSyncTyped DEF SyncTypes, OwnerTypes
  <1>1. CASE \E caller \in ModuleHost!Callers : ModuleHost!SyncBegins(caller)
    <2>1. PICK caller \in ModuleHost!Callers : ModuleHost!SyncBegins(caller)
      BY <1>1
    <2>2. ModuleHost!Wanted \in [Instances -> ModuleHost!Keys]
      BY <1>0 DEF ModuleHost!Wanted, SyncTypes, OwnerTypes
    <2>3. \/ sync' = sync
          \/ sync' = [ModuleHost!NoSync EXCEPT !.by = caller, !.pc = "uids", !.control = modulehost_control,
                                               !.wanted = ModuleHost!Wanted]
      BY <2>1 DEF ModuleHost!SyncBegins
    <2>4. modulehost_control \in 0..ModuleHost!MaxHosts
      BY DEF SyncTypes, HostTypes
    <2> QED
      BY <1>0, <2>2, <2>3, <2>4 DEF HostSync
  <1>2. CASE ModuleHost!UidsAnswered
    <2>1. PICK w \in [Instances -> ModuleHost!Keys] :
            sync' = [sync EXCEPT !.pc = "lan", !.control = 0, !.wanted = w]
      <3>1. /\ sync.wanted \in [Instances -> ModuleHost!Keys]
            /\ [i \in Instances |-> 0] \in [Instances -> ModuleHost!Keys]
        BY <1>0 DEF HostSync
      <3> QED
        BY <1>2, <3>1 DEF ModuleHost!UidsAnswered
    <2> QED
      BY <1>0, <2>1 DEF HostSync
  <1>3. CASE ModuleHost!LanApplied
    <2>1. {i \in Instances : sync.wanted[i] # 0} \in SUBSET Instances
      OBVIOUS
    <2>2. sync' = [sync EXCEPT !.pc = "loop", !.todo = {i \in Instances : sync.wanted[i] # 0}]
      BY <1>3 DEF ModuleHost!LanApplied
    <2> QED
      BY <1>0, <2>1, <2>2 DEF HostSync
  <1>4. CASE \E i \in Instances : ModuleHost!LeavesRunning(i)
    BY <1>0, <1>4 DEF ModuleHost!LeavesRunning, HostSync
  <1>5. CASE \E i \in Instances : ModuleHost!OpensInstance(i)
    <2>1. PICK i \in Instances, c \in ModuleHost!Conns :
            sync' = [sync EXCEPT !.pc = "open", !.todo = @ \ {i}, !.conn = c]
      BY <1>5 DEF ModuleHost!OpensInstance
    <2>2. c \in 0..MaxConns
      BY HostConstants
    <2> QED
      BY <1>0, <2>1, <2>2 DEF HostSync
  <1>6. CASE ModuleHost!Starts
    <2>1. 0 \in 0..MaxConns
      BY HostConstants
    <2> QED
      BY <1>0, <1>6, <2>1 DEF ModuleHost!Starts, HostSync
  <1>7. CASE SyncFailing
    BY <1>0, <1>7, FailsTyped DEF SyncFailing, ModuleHost!UidsFail, ModuleHost!OpenFails
  <1>8. CASE ModuleHost!StartNotSent \/ ModuleHost!SyncEnds \/ \E i \in Instances : ModuleHost!OpenBreaks(i)
    BY <1>0, <1>8 DEF ModuleHost!StartNotSent, ModuleHost!SyncEnds, ModuleHost!OpenBreaks
  <1>9. CASE \/ ModuleHost!SaveSettings \/ ModuleHost!ReloadModules \/ ModuleHost!Resume \/ ModuleHost!RunConnects
             \/ ModuleHost!RunLosesHost \/ ModuleHost!HostExits \/ ModuleHost!HostDies \/ ModuleHost!HostStarts
             \/ ModuleHost!HostChecks \/ UNCHANGED ModuleHostVars
    BY <1>0, <1>9 DEF ModuleHost!SaveSettings, ModuleHost!ReloadModules, ModuleHost!Resume, ModuleHost!RunConnects,
       ModuleHost!RunLosesHost, ModuleHost!HostExits, ModuleHost!HostDies, ModuleHost!HostGone,
       ModuleHost!HostStarts, ModuleHost!HostChecks, ModuleHostVars
  <1>10. CASE \/ \E i \in Instances : ModuleHost!ServeRestarts(i)
              \/ \E c \in ModuleHost!Conns : \/ ModuleHost!ServeEnds(c) \/ ModuleHost!ServeCounts(c)
                                             \/ ModuleHost!HostStartsInstance(c) \/ ModuleHost!InstanceDies(c)
                                             \/ ModuleHost!InstanceLasts(c)
    BY <1>0, <1>10 DEF ModuleHost!ServeRestarts, ModuleHost!ServeEnds, ModuleHost!ServeCounts,
       ModuleHost!HostStartsInstance, ModuleHost!InstanceDies, ModuleHost!InstanceLasts
  <1> QED
    BY <1>1, <1>2, <1>3, <1>4, <1>5, <1>6, <1>7, <1>8, <1>9, <1>10
    DEF ModuleHost!Next, ModuleHost!CoreStep, ModuleHost!HostStep, ModuleHost!Trouble, SyncFailing

(* What was counted, and who is paused or about to be started again, stays of its type. *)
LEMMA CountStep == ASSUME SyncTypes, AliveInv, OpensInv, [ModuleHost!Next]_ModuleHostVars PROVE CountTypes'
  <1> USE DEF SyncTypes, CountTypes
  <1>0. bound' = bound /\ bound.crashes \in Nat
    BY BoundStays, HostConstants DEF OwnerTypes
  <1>1. CASE ModuleHost!Resume
    BY <1>0, <1>1 DEF ModuleHost!Resume
  <1>2. CASE \E c \in ModuleHost!Conns : ModuleHost!InstanceDies(c)
    <2>1. died' = died + 1 /\ died < bound.crashes /\ UNCHANGED <<restart, paused, lasted, crashes>>
      BY <1>2 DEF ModuleHost!InstanceDies, ModuleHost!counts
    <2> QED
      BY <1>0, <2>1
  <1>3. CASE \E c \in ModuleHost!Conns : ModuleHost!InstanceLasts(c)
    <2>1. PICK c \in ModuleHost!Conns : ModuleHost!InstanceLasts(c)
      BY <1>3
    <2>2. conn[c].inst \in Instances
      BY <2>1 DEF ModuleHost!InstanceLasts, OpensInv
    <2> QED
      BY <1>0, <2>1, <2>2 DEF ModuleHost!InstanceLasts
  <1>4. CASE \E c \in ModuleHost!Conns : ModuleHost!ServeCounts(c)
    <2>1. PICK c \in ModuleHost!Conns : ModuleHost!ServeCounts(c)
      BY <1>4
    <2>2. conn[c].inst \in Instances
      BY <2>1 DEF ModuleHost!ServeCounts, OpensInv
    <2>3. CASE ModuleHost!IsRegistered(c)
      <3>1. ModuleHost!CrashCount(c) \in Nat
        BY <2>2 DEF ModuleHost!CrashCount
      <3>2. /\ crashes' = [crashes EXCEPT ![conn[c].inst] = ModuleHost!CrashCount(c)] /\ lasted' \subseteq Instances
            /\ paused' \subseteq Instances /\ restart' \subseteq Instances /\ died' = died
        BY <2>1, <2>2, <2>3 DEF ModuleHost!ServeCounts
      <3> QED
        BY <1>0, <3>1, <3>2
    <2>4. CASE ~ModuleHost!IsRegistered(c)
      BY <1>0, <2>1, <2>4 DEF ModuleHost!ServeCounts, ModuleHost!counts
    <2> QED
      BY <2>3, <2>4
  <1>5. CASE \E i \in Instances : ModuleHost!ServeRestarts(i)
    BY <1>0, <1>5 DEF ModuleHost!ServeRestarts, ModuleHost!counts
  <1>6. CASE SyncFailing
    BY <1>0, <1>6, FailsTyped DEF SyncFailing, ModuleHost!UidsFail, ModuleHost!OpenFails, ModuleHost!counts
  <1>7. CASE \/ ModuleHost!SaveSettings \/ ModuleHost!ReloadModules \/ ModuleHost!RunConnects
             \/ ModuleHost!RunLosesHost \/ ModuleHost!HostExits \/ ModuleHost!HostDies \/ ModuleHost!HostStarts
             \/ ModuleHost!HostChecks \/ UNCHANGED ModuleHostVars
    BY <1>0, <1>7 DEF ModuleHost!SaveSettings, ModuleHost!ReloadModules, ModuleHost!RunConnects,
       ModuleHost!RunLosesHost, ModuleHost!HostExits, ModuleHost!HostDies, ModuleHost!HostGone,
       ModuleHost!HostStarts, ModuleHost!HostChecks, ModuleHostVars, ModuleHost!counts
  <1>8. CASE \/ ModuleHost!UidsAnswered \/ ModuleHost!LanApplied \/ ModuleHost!Starts
             \/ ModuleHost!StartNotSent \/ ModuleHost!SyncEnds
             \/ (\E caller \in ModuleHost!Callers : ModuleHost!SyncBegins(caller))
             \/ \E i \in Instances : ModuleHost!LeavesRunning(i) \/ ModuleHost!OpensInstance(i)
                \/ ModuleHost!OpenBreaks(i)
             \/ \E c \in ModuleHost!Conns : ModuleHost!ServeEnds(c) \/ ModuleHost!HostStartsInstance(c)
    BY <1>0, <1>8 DEF ModuleHost!UidsAnswered, ModuleHost!LanApplied, ModuleHost!Starts, ModuleHost!StartNotSent,
       ModuleHost!SyncEnds, ModuleHost!SyncBegins, ModuleHost!LeavesRunning, ModuleHost!OpensInstance,
       ModuleHost!OpenBreaks, ModuleHost!ServeEnds, ModuleHost!HostStartsInstance, ModuleHost!counts
  <1> QED
    BY <1>1, <1>2, <1>3, <1>4, <1>5, <1>6, <1>7, <1>8
    DEF ModuleHost!Next, ModuleHost!CoreStep, ModuleHost!HostStep, ModuleHost!Trouble, SyncFailing

\* What a step leaves of each connection that is neither opened nor closed by it.
SameConns == \A c \in ModuleHost!Conns : /\ conn'[c].st = conn[c].st /\ conn'[c].inst = conn[c].inst
                                         /\ conn'[c].key = conn[c].key /\ conn'[c].host = conn[c].host
SamePlace == reg' = reg /\ sync'.conn = sync.conn /\ (sync'.pc = "open" <=> sync.pc = "open")
ProcActs == ModuleHost!HostExits \/ ModuleHost!HostDies
            \/ \E c \in ModuleHost!Conns : \/ ModuleHost!HostStartsInstance(c) \/ ModuleHost!InstanceDies(c)
                                           \/ ModuleHost!InstanceLasts(c)

(* What happens to the processes leaves the connections where they are. *)
LEMMA ProcsMove == ASSUME SyncTypes, ProcActs
  PROVE  conn' \in [ModuleHost!Conns -> HostConn] /\ SameConns /\ reg' = reg /\ sync' = sync
  <1>0. \A c \in ModuleHost!Conns : conn[c] \in HostConn
    BY DEF SyncTypes, ConnTypes
  <1>1. reg' = reg /\ sync' = sync
    BY DEF ProcActs, ModuleHost!HostExits, ModuleHost!HostDies, ModuleHost!HostGone, ModuleHost!HostStartsInstance,
       ModuleHost!InstanceDies, ModuleHost!InstanceLasts
  <1>2. CASE ModuleHost!HostGone
    <2>1. \A c \in ModuleHost!Conns : conn'[c] = conn[c] \/ conn'[c] = [conn[c] EXCEPT !.proc = "gone"]
      BY <1>2 DEF ModuleHost!HostGone
    <2>2. ASSUME NEW c \in ModuleHost!Conns
          PROVE  /\ conn'[c] \in HostConn /\ conn'[c].st = conn[c].st /\ conn'[c].inst = conn[c].inst
                 /\ conn'[c].key = conn[c].key /\ conn'[c].host = conn[c].host
      <3>1. CASE conn'[c] = conn[c]
        BY <1>0, <3>1
      <3>2. CASE conn'[c] = [conn[c] EXCEPT !.proc = "gone"]
        BY <1>0, <3>2 DEF HostConn
      <3> QED
        BY <2>1, <3>1, <3>2
    <2>3. conn' = [c \in ModuleHost!Conns |-> conn'[c]]
      BY <1>2 DEF ModuleHost!HostGone
    <2> QED
      BY <1>1, <2>2, <2>3 DEF SameConns
  <1>4. CASE \E c \in ModuleHost!Conns : \/ ModuleHost!HostStartsInstance(c) \/ ModuleHost!InstanceDies(c)
                                         \/ ModuleHost!InstanceLasts(c)
    <2>1. PICK c \in ModuleHost!Conns : \/ ModuleHost!HostStartsInstance(c) \/ ModuleHost!InstanceDies(c)
                                        \/ ModuleHost!InstanceLasts(c)
      BY <1>4
    <2>2. \/ \E p \in {"none", "asked", "alive", "gone"} : conn' = [conn EXCEPT ![c] = [conn[c] EXCEPT !.proc = p]]
          \/ \E o \in BOOLEAN : conn' = [conn EXCEPT ![c] = [conn[c] EXCEPT !.old = o]]
      BY <2>1 DEF ModuleHost!HostStartsInstance, ModuleHost!InstanceDies, ModuleHost!InstanceLasts, SyncTypes,
         ConnTypes
    <2>3. CASE \E p \in {"none", "asked", "alive", "gone"} : conn' = [conn EXCEPT ![c] = [conn[c] EXCEPT !.proc = p]]
      <3>1. PICK p \in {"none", "asked", "alive", "gone"} : conn' = [conn EXCEPT ![c] = [conn[c] EXCEPT !.proc = p]]
        BY <2>3
      <3> DEFINE r == [conn[c] EXCEPT !.proc = p]
      <3>2. /\ r \in HostConn /\ r.st = conn[c].st /\ r.inst = conn[c].inst /\ r.key = conn[c].key
            /\ r.host = conn[c].host
        BY <1>0, <2>1 DEF HostConn
      <3>3. conn' = [conn EXCEPT ![c] = r]
        BY <3>1
      <3> HIDE DEF r
      <3> QED
        BY <1>1, <2>1, <3>2, <3>3 DEF SyncTypes, ConnTypes, SameConns
    <2>4. CASE \E o \in BOOLEAN : conn' = [conn EXCEPT ![c] = [conn[c] EXCEPT !.old = o]]
      <3>1. PICK o \in BOOLEAN : conn' = [conn EXCEPT ![c] = [conn[c] EXCEPT !.old = o]]
        BY <2>4
      <3> DEFINE r == [conn[c] EXCEPT !.old = o]
      <3>2. /\ r \in HostConn /\ r.st = conn[c].st /\ r.inst = conn[c].inst /\ r.key = conn[c].key
            /\ r.host = conn[c].host
        BY <1>0, <2>1 DEF HostConn
      <3>3. conn' = [conn EXCEPT ![c] = r]
        BY <3>1
      <3> HIDE DEF r
      <3> QED
        BY <1>1, <2>1, <3>2, <3>3 DEF SyncTypes, ConnTypes, SameConns
    <2> QED
      BY <2>2, <2>3, <2>4
  <1> QED
    BY <1>1, <1>2, <1>4 DEF ProcActs, ModuleHost!HostExits, ModuleHost!HostDies

(* Steps that move no connection and register none leave the two the same. *)
LEMMA PlaceStays == ASSUME OpensInv, SameConns, SamePlace, ConnTypes, sync \in HostSync PROVE OpensInv'
  <1>1. sync.conn # ModuleHost!None => sync.conn \in ModuleHost!Conns
    BY HostConstants DEF HostSync
  <1>2. \A i \in Instances : reg[i] # ModuleHost!None => reg[i] \in ModuleHost!Conns
    BY HostConstants DEF ConnTypes
  <1>3. (sync'.pc = "open" <=> sync'.conn # ModuleHost!None)
    BY DEF OpensInv, SamePlace
  <1>4. sync'.pc = "open" => conn'[sync'.conn].st = "opening" /\ reg'[conn'[sync'.conn].inst] = ModuleHost!None
    BY <1>1 DEF OpensInv, SamePlace, SameConns
  <1>5. \A c \in ModuleHost!Conns : /\ conn'[c].st = "opening" => sync'.conn = c
                                    /\ conn'[c].st # "free" => conn'[c].inst \in Instances
                                    /\ conn'[c].st = "served" => reg'[conn'[c].inst] = c
    BY DEF OpensInv, SamePlace, SameConns
  <1>6. \A i \in Instances : reg'[i] # ModuleHost!None => conn'[reg'[i]].inst = i
        /\ conn'[reg'[i]].st \in {"served", "ended"}
    BY <1>2 DEF OpensInv, SamePlace, SameConns
  <1> QED
    BY <1>3, <1>4, <1>5, <1>6 DEF OpensInv, ModuleHost!Conns, ModuleHost!None

(* The invariant from its parts, in the next state. *)
LEMMA OpensNext ==
  ASSUME sync'.pc = "open" <=> sync'.conn # ModuleHost!None,
         sync'.pc = "open" => conn'[sync'.conn].st = "opening" /\ reg'[conn'[sync'.conn].inst] = ModuleHost!None,
         \A c \in ModuleHost!Conns : /\ conn'[c].st = "opening" => sync'.conn = c
                                     /\ conn'[c].st # "free" => conn'[c].inst \in Instances
                                     /\ conn'[c].st = "served" => reg'[conn'[c].inst] = c,
         \A i \in Instances : reg'[i] # ModuleHost!None =>
                                conn'[reg'[i]].inst = i /\ conn'[reg'[i]].st \in {"served", "ended"}
  PROVE  OpensInv'
BY DEF OpensInv, ModuleHost!Conns, ModuleHost!None

(* Where every instance is stopped, what is open is what a sync is opening, if it goes on. *)
LEMMA AllStopped ==
  ASSUME OpensInv, SyncTypes, conn' = ModuleHost!Stopped(Instances), reg' = [i \in Instances |-> ModuleHost!None],
         sync'.conn = sync.conn, sync'.pc = "open" <=> sync.pc = "open"
  PROVE  OpensInv'
  <1>0. sync.conn # ModuleHost!None => sync.conn \in ModuleHost!Conns
    BY HostConstants DEF HostSync, SyncTypes
  <1>1. \A c \in ModuleHost!Conns :
           \/ conn'[c] = conn[c] /\ conn[c].st # "served"
           \/ conn[c].st = "served" /\ conn'[c].st = "closed" /\ conn'[c].inst = conn[c].inst
    BY StopsServed DEF OpensInv
  <1>2. sync'.pc = "open" => conn'[sync'.conn].st = "opening" /\ reg'[conn'[sync'.conn].inst] = ModuleHost!None
    BY <1>0, <1>1 DEF OpensInv
  <1>3. \A c \in ModuleHost!Conns : /\ conn'[c].st = "opening" => sync'.conn = c
                                    /\ conn'[c].st # "free" => conn'[c].inst \in Instances
                                    /\ conn'[c].st = "served" => reg'[conn'[c].inst] = c
    BY <1>1 DEF OpensInv
  <1>4. \A i \in Instances : reg'[i] # ModuleHost!None => FALSE
    OBVIOUS
  <1>5. sync'.pc = "open" <=> sync'.conn # ModuleHost!None
    BY DEF OpensInv
  <1> QED
    BY <1>2, <1>3, <1>4, <1>5, OpensNext

(* Each step keeps what _instances knows and what is open together. *)
LEMMA OpensStep == ASSUME SyncTypes, OpensInv, [ModuleHost!Next]_ModuleHostVars PROVE ConnTypes' /\ OpensInv'
  <1>0. /\ HostConn' = HostConn /\ ConnTypes /\ sync \in HostSync
        /\ ModuleHost!Conns = 1..MaxConns /\ ModuleHost!None = 0 /\ MaxConns \in Nat
        /\ \A c \in ModuleHost!Conns : conn[c] \in HostConn
    BY BoundStays, HostConstants DEF SyncTypes, ConnTypes
  <1>1. ASSUME conn' = conn, reg' = reg, sync'.conn = sync.conn, sync'.pc = "open" <=> sync.pc = "open"
        PROVE  ConnTypes' /\ OpensInv'
    <2>1. SameConns /\ SamePlace
      BY <1>1 DEF SameConns, SamePlace
    <2>2. ConnTypes'
      BY <1>0, <1>1 DEF ConnTypes, ModuleHost!Conns
    <2> QED
      BY <1>0, <2>1, <2>2, PlaceStays
  <1>2. CASE ProcActs
    <2>1. conn' \in [ModuleHost!Conns -> HostConn] /\ SameConns /\ reg' = reg /\ sync' = sync
      BY <1>2, ProcsMove
    <2>2. SamePlace
      BY <2>1 DEF SamePlace
    <2>3. ConnTypes'
      BY <1>0, <2>1 DEF ConnTypes, ModuleHost!Conns
    <2> QED
      BY <1>0, <2>1, <2>2, <2>3, PlaceStays
  <1>3. CASE \/ ModuleHost!SaveSettings \/ ModuleHost!ReloadModules \/ ModuleHost!Resume \/ ModuleHost!HostStarts
             \/ ModuleHost!HostChecks \/ ModuleHost!RunConnects \/ UNCHANGED ModuleHostVars
             \/ \E i \in Instances : ModuleHost!ServeRestarts(i)
    <2>1. conn' = conn /\ reg' = reg /\ sync' = sync
      BY <1>3 DEF ModuleHost!SaveSettings, ModuleHost!ReloadModules, ModuleHost!Resume, ModuleHost!HostStarts,
         ModuleHost!HostChecks, ModuleHost!RunConnects, ModuleHostVars, ModuleHost!ServeRestarts
    <2> QED
      BY <1>1, <2>1
  <1>4. CASE \E caller \in ModuleHost!Callers : ModuleHost!SyncBegins(caller)
    <2>1. PICK caller \in ModuleHost!Callers : ModuleHost!SyncBegins(caller)
      BY <1>4
    <2>2. /\ conn' = conn /\ reg' = reg /\ sync.pc = "idle" /\ sync.conn = ModuleHost!None
          /\ \/ sync' = sync
             \/ sync' = [ModuleHost!NoSync EXCEPT !.by = caller, !.pc = "uids", !.control = modulehost_control,
                                                  !.wanted = ModuleHost!Wanted]
      BY <2>1 DEF ModuleHost!SyncBegins, ModuleHost!Syncing, OpensInv
    <2>3. sync'.conn = sync.conn /\ sync'.pc # "open"
      BY <2>2 DEF ModuleHost!NoSync
    <2> QED
      BY <1>1, <2>2, <2>3
  <1>5. CASE \/ ModuleHost!UidsAnswered \/ ModuleHost!SyncEnds
             \/ \E i \in Instances : ModuleHost!LeavesRunning(i) \/ ModuleHost!OpenBreaks(i)
    <2>1. conn' = conn /\ reg' = reg /\ sync.pc # "open" /\ sync.conn = ModuleHost!None
      BY <1>5 DEF ModuleHost!UidsAnswered, ModuleHost!SyncEnds, ModuleHost!LeavesRunning, ModuleHost!OpenBreaks,
         ModuleHost!Syncing, OpensInv
    <2>2. sync'.conn = ModuleHost!None /\ sync'.pc # "open"
      BY <1>0, <1>5, <2>1, NoSyncTyped DEF ModuleHost!UidsAnswered, ModuleHost!SyncEnds, ModuleHost!LeavesRunning,
         ModuleHost!OpenBreaks, ModuleHost!Syncing, HostSync
    <2> QED
      BY <1>1, <2>1, <2>2
  <1>6. ASSUME conn' = ModuleHost!Stopped(Instances), reg' = [i \in Instances |-> ModuleHost!None],
               sync'.conn = sync.conn, sync'.pc = "open" <=> sync.pc = "open"
        PROVE  ConnTypes' /\ OpensInv'
    <2>1. ConnTypes'
      BY <1>0, <1>6, StopsServed DEF ConnTypes, ModuleHost!Conns
    <2> QED
      BY <1>6, <2>1, AllStopped
  <1>7. CASE ModuleHost!RunLosesHost
    BY <1>6, <1>7 DEF ModuleHost!RunLosesHost, ModuleHost!Disconnected
  <1>8. CASE SyncFailing
    <2>1. ModuleHost!SyncFails /\ sync.pc # "open" /\ sync.conn = ModuleHost!None
      BY <1>8 DEF SyncFailing, ModuleHost!UidsFail, ModuleHost!OpenFails, ModuleHost!Syncing, OpensInv
    <2>2. sync'.conn = sync.conn /\ sync'.pc # "open"
      BY <2>1, FailsTyped, NoSyncTyped
    <2> QED
      BY <1>1, <1>6, <2>1, <2>2, FailsTyped
  <1>9. CASE ModuleHost!LanApplied
    <2> DEFINE stop == ModuleHost!ToStop
    <2>1. /\ sync.pc = "lan" /\ conn' = ModuleHost!Stopped(stop) /\ stop \in SUBSET Instances
          /\ reg' = [i \in Instances |-> IF i \in stop THEN ModuleHost!None ELSE reg[i]]
          /\ sync'.conn = ModuleHost!None /\ sync'.pc = "loop" /\ sync.conn = ModuleHost!None
      BY <1>0, <1>9 DEF ModuleHost!LanApplied, ModuleHost!Syncing, ModuleHost!ToStop, OpensInv, HostSync
    <2> HIDE DEF stop
    <2>2. /\ conn' \in [ModuleHost!Conns -> HostConn]
          /\ \A c \in ModuleHost!Conns :
               \/ /\ conn'[c] = conn[c]
                  /\ \A i \in stop : reg[i] = c => conn[c].st # "served"
               \/ /\ conn[c].st = "served" /\ \E i \in stop : reg[i] = c
                  /\ conn'[c].st = "closed" /\ conn'[c].proc = "none"
                  /\ conn'[c].inst = conn[c].inst
      BY <2>1, StopsServed
    <2>3. ConnTypes'
      BY <1>0, <2>1, <2>2 DEF ConnTypes, ModuleHost!Conns
    <2>4. ASSUME NEW c \in ModuleHost!Conns
          PROVE  /\ conn'[c].st = "opening" => sync'.conn = c
                 /\ conn'[c].st # "free" => conn'[c].inst \in Instances
                 /\ conn'[c].st = "served" => reg'[conn'[c].inst] = c
      <3>1. conn[c].st # "opening" /\ (conn[c].st # "free" => conn[c].inst \in Instances)
            /\ (conn[c].st = "served" => reg[conn[c].inst] = c)
        BY <1>0, <2>1 DEF OpensInv
      <3>2. CASE conn'[c] = conn[c] /\ \A i \in stop : reg[i] = c => conn[c].st # "served"
        BY <2>1, <3>1, <3>2
      <3>3. CASE conn'[c].st = "closed" /\ conn'[c].inst = conn[c].inst /\ conn[c].st = "served"
        BY <3>1, <3>3
      <3> QED
        BY <2>2, <3>2, <3>3
    <2>5. ASSUME NEW i \in Instances, reg'[i] # ModuleHost!None
          PROVE  conn'[reg'[i]].inst = i /\ conn'[reg'[i]].st \in {"served", "ended"}
      <3>1. /\ reg'[i] = reg[i] /\ i \notin stop /\ reg[i] \in ModuleHost!Conns
            /\ conn[reg[i]].inst = i /\ conn[reg[i]].st \in {"served", "ended"}
        BY <1>0, <2>1, <2>5 DEF ConnTypes, OpensInv
      <3>2. \A j \in stop : reg[j] # reg[i]
        <4> SUFFICES ASSUME NEW j \in stop, reg[j] = reg[i] PROVE FALSE
          OBVIOUS
        <4>1. conn[reg[j]].inst = j
          BY <1>0, <2>1, <3>1 DEF OpensInv
        <4> QED
          BY <3>1, <4>1
      <3>3. conn'[reg[i]] = conn[reg[i]]
        BY <2>2, <3>1, <3>2
      <3> QED
        BY <3>1, <3>3
    <2> QED
      BY <1>0, <2>1, <2>3, <2>4, <2>5, OpensNext
  <1>10. CASE \E i \in Instances : ModuleHost!OpensInstance(i)
    <2>1. PICK i \in Instances, c \in ModuleHost!Conns :
            /\ ModuleHost!OpensInstance(i) /\ conn[c].st = "free"
            /\ conn' = [conn EXCEPT ![c] = [st |-> "opening", inst |-> i, key |-> sync.wanted[i],
                                            host |-> modulehost_control, proc |-> "asked", old |-> FALSE]]
            /\ sync' = [sync EXCEPT !.pc = "open", !.todo = @ \ {i}, !.conn = c]
      BY <1>10 DEF ModuleHost!OpensInstance
    <2>2. /\ sync.pc = "loop" /\ reg[i] = ModuleHost!None /\ reg' = reg /\ sync.conn = ModuleHost!None
      BY <2>1 DEF ModuleHost!OpensInstance, ModuleHost!Syncing, ModuleHost!IsRunning, OpensInv
    <2>3. sync'.pc = "open" /\ sync'.conn = c
      BY <1>0, <2>1 DEF HostSync
    <2> DEFINE new == [st |-> "opening", inst |-> i, key |-> sync.wanted[i], host |-> modulehost_control,
                       proc |-> "asked", old |-> FALSE]
    <2>4. new \in HostConn /\ new.st = "opening" /\ new.inst = i
      <3>1. sync.wanted[i] \in ModuleHost!Keys /\ modulehost_control \in 0..ModuleHost!MaxHosts
        BY <1>0 DEF HostSync, SyncTypes, HostTypes
      <3> QED
        BY <3>1 DEF HostConn
    <2>5. conn' = [conn EXCEPT ![c] = new]
      BY <2>1
    <2> HIDE DEF new
    <2>6. conn' \in [ModuleHost!Conns -> HostConn] /\ conn'[c] = new
          /\ \A d \in ModuleHost!Conns \ {c} : conn'[d] = conn[d]
      BY <2>4, <2>5 DEF SyncTypes, ConnTypes
    <2>7. ConnTypes'
      BY <1>0, <2>2, <2>6 DEF ConnTypes, ModuleHost!Conns
    <2>8. ASSUME NEW d \in ModuleHost!Conns
          PROVE  /\ conn'[d].st = "opening" => sync'.conn = d
                 /\ conn'[d].st # "free" => conn'[d].inst \in Instances
                 /\ conn'[d].st = "served" => reg'[conn'[d].inst] = d
      BY <1>0, <2>2, <2>3, <2>4, <2>6 DEF OpensInv
    <2>9. ASSUME NEW j \in Instances, reg'[j] # ModuleHost!None
          PROVE  conn'[reg'[j]].inst = j /\ conn'[reg'[j]].st \in {"served", "ended"}
      <3>1. reg[j] \in ModuleHost!Conns /\ conn[reg[j]].inst = j /\ conn[reg[j]].st \in {"served", "ended"}
        BY <1>0, <2>2, <2>9 DEF ConnTypes, OpensInv
      <3> QED
        BY <2>1, <2>2, <2>6, <3>1
    <2> QED
      BY <1>0, <2>2, <2>3, <2>4, <2>6, <2>7, <2>8, <2>9, OpensNext
  <1>11. CASE ModuleHost!Starts \/ ModuleHost!StartNotSent
    <2> DEFINE c == sync.conn
               i == conn[sync.conn].inst
    <2>1. /\ sync.pc = "open" /\ c \in ModuleHost!Conns /\ conn[c].st = "opening" /\ i \in Instances
          /\ reg[i] = ModuleHost!None
      BY <1>0, <1>11 DEF ModuleHost!Starts, ModuleHost!StartNotSent, ModuleHost!Syncing, OpensInv, HostSync
    <2>2. sync'.pc # "open" /\ sync'.conn = ModuleHost!None
      BY <1>0, <1>11, NoSyncTyped DEF ModuleHost!Starts, ModuleHost!StartNotSent, HostSync
    <2>3. CASE ModuleHost!Registered
      <3> DEFINE new == [conn[c] EXCEPT !.st = "served"]
      <3>1. new \in HostConn /\ new.st = "served" /\ new.inst = i
        BY <1>0, <2>1 DEF HostConn
      <3>2. reg' = [reg EXCEPT ![i] = c] /\ conn' = [conn EXCEPT ![c] = new]
        BY <1>0, <2>3 DEF ModuleHost!Registered, ConnTypes
      <3> HIDE DEF new, c, i
      <3>3. conn' \in [ModuleHost!Conns -> HostConn] /\ conn'[c] = new
            /\ \A d \in ModuleHost!Conns \ {c} : conn'[d] = conn[d]
        BY <1>0, <2>1, <3>1, <3>2 DEF ConnTypes
      <3>4. reg' \in [Instances -> 0..MaxConns] /\ reg'[i] = c /\ \A j \in Instances \ {i} : reg'[j] = reg[j]
        BY <1>0, <2>1, <3>2 DEF ConnTypes
      <3>5. ConnTypes'
        BY <1>0, <3>3, <3>4 DEF ConnTypes, ModuleHost!Conns
      <3>6. ASSUME NEW d \in ModuleHost!Conns
            PROVE  /\ conn'[d].st = "opening" => sync'.conn = d
                   /\ conn'[d].st # "free" => conn'[d].inst \in Instances
                   /\ conn'[d].st = "served" => reg'[conn'[d].inst] = d
        <4>1. CASE d = c
          BY <2>1, <3>1, <3>3, <3>4, <4>1
        <4>2. CASE d # c
          <5>1. conn'[d] = conn[d] /\ conn[d].st # "opening"
            BY <3>3, <4>2 DEF OpensInv, c
          <5>2. conn[d].st = "served" => conn[d].inst # i
            BY <1>0, <2>1 DEF OpensInv
          <5> QED
            BY <3>4, <5>1, <5>2 DEF OpensInv
        <4> QED
          BY <4>1, <4>2
      <3>7. ASSUME NEW j \in Instances, reg'[j] # ModuleHost!None
            PROVE  conn'[reg'[j]].inst = j /\ conn'[reg'[j]].st \in {"served", "ended"}
        <4>1. CASE j = i
          BY <3>1, <3>3, <3>4, <4>1
        <4>2. CASE j # i
          <5>1. /\ reg'[j] = reg[j] /\ reg[j] \in ModuleHost!Conns
                /\ conn[reg[j]].inst = j /\ conn[reg[j]].st \in {"served", "ended"}
            BY <1>0, <3>4, <3>7, <4>2 DEF ConnTypes, OpensInv
          <5>2. reg[j] # c
            BY <2>1, <5>1
          <5> QED
            BY <3>3, <5>1, <5>2
        <4> QED
          BY <4>1, <4>2
      <3> QED
        BY <2>2, <3>5, <3>6, <3>7, OpensNext
    <2>4. CASE /\ conn' = [ModuleHost!Stopped(Instances) EXCEPT ![c] = ModuleHost!Closed(c)]
               /\ reg' = [j \in Instances |-> ModuleHost!None]
      <3>1. ModuleHost!Closed(c) \in HostConn /\ ModuleHost!Closed(c).st = "closed" /\ ModuleHost!Closed(c).inst = i
        <4>1. \A d \in ModuleHost!Conns : /\ ModuleHost!Closed(d) \in HostConn /\ ModuleHost!Closed(d).st = "closed"
                                          /\ ModuleHost!Closed(d).inst = conn[d].inst
          BY <1>0 DEF HostConn, ModuleHost!Closed
        <4> QED
          BY <2>1, <4>1
      <3> HIDE DEF c, i
      <3>2. /\ ModuleHost!Stopped(Instances) \in [ModuleHost!Conns -> HostConn]
            /\ \A d \in ModuleHost!Conns :
                 \/ ModuleHost!Stopped(Instances)[d] = conn[d] /\ \A j \in Instances : reg[j] = d
                    => conn[d].st # "served"
                 \/ conn[d].st = "served" /\ ModuleHost!Stopped(Instances)[d].st = "closed"
                    /\ ModuleHost!Stopped(Instances)[d].inst = conn[d].inst
        BY StopsServed
      <3>3. /\ conn' \in [ModuleHost!Conns -> HostConn] /\ conn'[c] = ModuleHost!Closed(c)
            /\ \A d \in ModuleHost!Conns \ {c} : conn'[d] = ModuleHost!Stopped(Instances)[d]
        BY <2>1, <2>4, <3>1, <3>2
      <3>4. ConnTypes'
        BY <1>0, <2>4, <3>3 DEF ConnTypes, ModuleHost!Conns
      <3>5. ASSUME NEW d \in ModuleHost!Conns
            PROVE  /\ conn'[d].st = "opening" => sync'.conn = d
                   /\ conn'[d].st # "free" => conn'[d].inst \in Instances
                   /\ conn'[d].st = "served" => reg'[conn'[d].inst] = d
        <4>1. CASE d = c
          BY <2>1, <3>1, <3>3, <4>1
        <4>2. CASE d # c
          <5>1. conn[d].st # "opening" /\ (conn[d].st # "free" => conn[d].inst \in Instances)
                /\ (conn[d].st = "served" => reg[conn[d].inst] = d) /\ conn'[d] = ModuleHost!Stopped(Instances)[d]
            BY <3>3, <4>2 DEF OpensInv, c
          <5>2. \/ conn'[d] = conn[d] /\ conn[d].st # "served"
                \/ conn'[d].st = "closed" /\ conn'[d].inst = conn[d].inst /\ conn[d].st = "served"
            BY <3>2, <5>1
          <5> QED
            BY <5>1, <5>2
        <4> QED
          BY <4>1, <4>2
      <3>6. \A j \in Instances : reg'[j] # ModuleHost!None => FALSE
        BY <2>4
      <3> QED
        BY <2>2, <3>4, <3>5, <3>6, OpensNext
    <2> QED
      BY <1>11, <2>3, <2>4 DEF ModuleHost!Starts, ModuleHost!StartNotSent
  <1>12. ASSUME NEW c \in ModuleHost!Conns, ModuleHost!ServeEnds(c) PROVE ConnTypes' /\ OpensInv'
    <2> DEFINE new == [conn[c] EXCEPT !.st = "ended", !.proc = "none"]
    <2>1. new \in HostConn /\ new.st = "ended" /\ new.inst = conn[c].inst
      BY <1>0 DEF HostConn
    <2>2. /\ conn' = [conn EXCEPT ![c] = new] /\ reg' = reg /\ sync' = sync /\ conn[c].st \in {"served", "closed"}
      BY <1>0, <1>12 DEF ModuleHost!ServeEnds, ConnTypes
    <2> HIDE DEF new
    <2>3. conn' \in [ModuleHost!Conns -> HostConn] /\ conn'[c] = new
          /\ \A d \in ModuleHost!Conns \ {c} : conn'[d] = conn[d]
      BY <1>0, <2>1, <2>2 DEF ConnTypes
    <2>4. ConnTypes'
      BY <1>0, <2>2, <2>3 DEF ConnTypes, ModuleHost!Conns
    <2>5. sync.conn # ModuleHost!None => sync.conn \in ModuleHost!Conns \ {c}
      BY <1>0, <2>2 DEF HostSync, OpensInv
    <2>6. sync'.pc = "open" => conn'[sync'.conn].st = "opening" /\ reg'[conn'[sync'.conn].inst] = ModuleHost!None
      BY <2>2, <2>3, <2>5 DEF OpensInv
    <2>7. ASSUME NEW d \in ModuleHost!Conns
          PROVE  /\ conn'[d].st = "opening" => sync'.conn = d
                 /\ conn'[d].st # "free" => conn'[d].inst \in Instances
                 /\ conn'[d].st = "served" => reg'[conn'[d].inst] = d
      BY <2>1, <2>2, <2>3 DEF OpensInv
    <2>8. ASSUME NEW j \in Instances, reg'[j] # ModuleHost!None
          PROVE  conn'[reg'[j]].inst = j /\ conn'[reg'[j]].st \in {"served", "ended"}
      <3>1. reg[j] \in ModuleHost!Conns /\ conn[reg[j]].inst = j /\ conn[reg[j]].st \in {"served", "ended"}
        BY <1>0, <2>2, <2>8 DEF ConnTypes, OpensInv
      <3> QED
        BY <2>1, <2>2, <2>3, <3>1
    <2>9. sync'.pc = "open" <=> sync'.conn # ModuleHost!None
      BY <2>2 DEF OpensInv
    <2> QED
      BY <2>4, <2>6, <2>7, <2>8, <2>9, OpensNext
  <1>13. ASSUME NEW c \in ModuleHost!Conns, ModuleHost!ServeCounts(c) PROVE ConnTypes' /\ OpensInv'
    <2> DEFINE i == conn[c].inst
    <2>1. /\ conn' = [conn EXCEPT ![c] = ModuleHost!NoConn] /\ sync' = sync /\ conn[c].st = "ended" /\ i \in Instances
          /\ reg' = IF ModuleHost!IsRegistered(c) THEN [reg EXCEPT ![i] = ModuleHost!None] ELSE reg
      BY <1>0, <1>13 DEF ModuleHost!ServeCounts, OpensInv
    <2> HIDE DEF i
    <2>2. /\ conn' \in [ModuleHost!Conns -> HostConn] /\ conn'[c] = ModuleHost!NoConn
          /\ \A d \in ModuleHost!Conns \ {c} : conn'[d] = conn[d]
      BY <1>0, <2>1, NoConnTyped DEF ConnTypes
    <2>3. /\ reg' \in [Instances -> 0..MaxConns] /\ \A j \in Instances : reg'[j] = reg[j] \/ (j = i
             /\ reg[j] = c /\ reg'[j] = 0)
          /\ \A j \in Instances : reg'[j] # c
      <3>1. CASE ModuleHost!IsRegistered(c)
        <4>1. reg[i] = c /\ reg' = [reg EXCEPT ![i] = ModuleHost!None]
          BY <2>1, <3>1 DEF ModuleHost!IsRegistered, i
        <4>2. \A j \in Instances : reg[j] = c => j = i
          BY <1>0 DEF OpensInv, i
        <4>3. reg' \in [Instances -> 0..MaxConns] /\ reg'[i] = 0 /\ \A j \in Instances \ {i} : reg'[j] = reg[j]
          BY <1>0, <2>1, <4>1 DEF ConnTypes
        <4>4. c # 0
          BY <1>0
        <4> QED
          BY <4>1, <4>2, <4>3, <4>4
      <3>2. CASE ~ModuleHost!IsRegistered(c)
        <4>1. reg' = reg /\ reg[i] # c
          BY <2>1, <3>2 DEF ModuleHost!IsRegistered, i
        <4>2. \A j \in Instances : reg[j] = c => j = i
          BY <1>0 DEF OpensInv, i
        <4> QED
          BY <1>0, <4>1, <4>2 DEF ConnTypes
      <3> QED
        BY <3>1, <3>2
    <2>4. ConnTypes'
      BY <1>0, <2>2, <2>3 DEF ConnTypes, ModuleHost!Conns
    <2>5. sync.conn # ModuleHost!None => sync.conn \in ModuleHost!Conns \ {c}
      BY <1>0, <2>1 DEF HostSync, OpensInv
    <2>6. sync'.pc = "open" => conn'[sync'.conn].st = "opening" /\ reg'[conn'[sync'.conn].inst] = ModuleHost!None
      <3> SUFFICES ASSUME sync.pc = "open" PROVE conn'[sync.conn].st = "opening"
                          /\ reg'[conn'[sync.conn].inst] = ModuleHost!None
        BY <2>1
      <3>1. /\ conn'[sync.conn] = conn[sync.conn] /\ conn[sync.conn].st = "opening"
               /\ conn[sync.conn].inst \in Instances
            /\ reg[conn[sync.conn].inst] = 0
        BY <1>0, <2>2, <2>5 DEF OpensInv
      <3> QED
        BY <1>0, <2>3, <3>1
    <2>7. ASSUME NEW d \in ModuleHost!Conns
          PROVE  /\ conn'[d].st = "opening" => sync'.conn = d
                 /\ conn'[d].st # "free" => conn'[d].inst \in Instances
                 /\ conn'[d].st = "served" => reg'[conn'[d].inst] = d
      <3>1. CASE d = c
        BY <2>2, <3>1, NoConnTyped
      <3>2. CASE d # c
        <4>1. conn'[d] = conn[d]
          BY <2>2, <3>2
        <4>2. conn[d].st = "served" => conn[d].inst \in Instances /\ reg[conn[d].inst] = d
          BY DEF OpensInv
        <4>3. conn[d].st = "served" => reg'[conn[d].inst] = d
          BY <2>3, <3>2, <4>2
        <4> QED
          BY <2>1, <4>1, <4>3 DEF OpensInv
      <3> QED
        BY <3>1, <3>2
    <2>8. ASSUME NEW j \in Instances, reg'[j] # ModuleHost!None
          PROVE  conn'[reg'[j]].inst = j /\ conn'[reg'[j]].st \in {"served", "ended"}
      <3>1. reg'[j] = reg[j] /\ reg[j] # c /\ reg[j] \in ModuleHost!Conns
        BY <1>0, <2>3, <2>8 DEF ConnTypes
      <3> QED
        BY <1>0, <2>2, <3>1 DEF OpensInv
    <2>9. sync'.pc = "open" <=> sync'.conn # ModuleHost!None
      BY <2>1 DEF OpensInv
    <2> QED
      BY <2>4, <2>6, <2>7, <2>8, <2>9, OpensNext
  <1> QED
    BY <1>2, <1>3, <1>4, <1>5, <1>7, <1>8, <1>9, <1>10, <1>11, <1>12, <1>13
    DEF ModuleHost!Next, ModuleHost!CoreStep, ModuleHost!HostStep, ModuleHost!Trouble, SyncFailing, ProcActs

(* No step leaves a sync of _run without its connection. *)
LEMMA RunStep == ASSUME SyncTypes, RunInv, [ModuleHost!Next]_ModuleHostVars PROVE RunInv'
  <1> USE DEF RunInv
  <1>0. /\ ModuleHost!Callers = {"run", "other"} /\ ModuleHost!None = 0 /\ sync \in HostSync
        /\ ModuleHost!NoSync.pc = "idle" /\ ModuleHost!NoSync \in HostSync
        /\ modulehost_host.no # 0
    BY HostConstants, NoSyncTyped DEF SyncTypes, OwnerTypes, HostTypes
  <1>1. CASE ModuleHost!ReloadModules \/ ModuleHost!Resume \/ \E i \in Instances : ModuleHost!ServeRestarts(i)
    <2>1. /\ modulehost_control' = modulehost_control /\ run' = run /\ sync' = sync
          /\ "run" \in waiting' => "run" \in waiting
      BY <1>1 DEF ModuleHost!ReloadModules, ModuleHost!Resume, ModuleHost!AskForSync, ModuleHost!ServeRestarts,
         ModuleHost!link
    <2> QED
      BY <1>0, <2>1 DEF ModuleHost!None
  <1>2. CASE ModuleHost!RunConnects
    <2>1. /\ run = "connect" /\ run' = "sync" /\ modulehost_control' = modulehost_host.no /\ sync' = sync
          /\ waiting' = waiting \cup {"run"}
      BY <1>2 DEF ModuleHost!RunConnects
    <2> QED
      BY <1>0, <2>1 DEF ModuleHost!None
  <1>3. CASE ModuleHost!RunLosesHost
    <2>1. /\ run = "read" /\ run' = "connect" /\ modulehost_control' = ModuleHost!None /\ sync' = sync
          /\ waiting' = waiting
      BY <1>3 DEF ModuleHost!RunLosesHost, ModuleHost!MayLoseHost, ModuleHost!Disconnected
    <2> QED
      BY <1>0, <2>1 DEF ModuleHost!None
  <1>4. CASE \E caller \in ModuleHost!Callers : ModuleHost!SyncBegins(caller)
    <2>1. PICK caller \in ModuleHost!Callers : ModuleHost!SyncBegins(caller)
      BY <1>4
    <2>2. /\ modulehost_control' = modulehost_control /\ run' = run /\ caller \in waiting
             /\ waiting' = waiting \ {caller}
          /\ sync.pc = "idle"
          /\ IF modulehost_control = ModuleHost!None THEN sync' = sync ELSE sync'.by = caller /\ sync'.pc = "uids"
      BY <2>1 DEF ModuleHost!SyncBegins, ModuleHost!link, ModuleHost!Syncing, ModuleHost!NoSync
    <2> QED
      BY <1>0, <2>2 DEF ModuleHost!None
  <1>5. CASE \/ ModuleHost!UidsAnswered \/ ModuleHost!LanApplied \/ ModuleHost!Starts
             \/ \E i \in Instances : ModuleHost!LeavesRunning(i) \/ ModuleHost!OpensInstance(i)
    <2>1. /\ modulehost_control' = modulehost_control /\ run' = run /\ waiting' = waiting /\ sync.pc # "idle"
      BY <1>5 DEF ModuleHost!UidsAnswered, ModuleHost!LanApplied, ModuleHost!Starts, ModuleHost!LeavesRunning,
         ModuleHost!OpensInstance, ModuleHost!link, ModuleHost!Syncing
    <2>2. sync'.by = sync.by
      BY <1>0, <1>5 DEF ModuleHost!UidsAnswered, ModuleHost!LanApplied, ModuleHost!Starts, ModuleHost!LeavesRunning,
         ModuleHost!OpensInstance, HostSync
    <2> QED
      BY <1>0, <2>1, <2>2 DEF ModuleHost!None
  <1>6. CASE SyncFailing
    <2>1. ModuleHost!SyncFails /\ sync.pc # "idle"
      BY <1>6 DEF SyncFailing, ModuleHost!UidsFail, ModuleHost!OpenFails, ModuleHost!Syncing
    <2>2. /\ sync' = ModuleHost!NoSync /\ waiting' = waiting
          /\ \/ sync.by # "run" /\ UNCHANGED <<modulehost_control, run>>
             \/ sync.by = "run" /\ run' = "connect" /\ modulehost_control' = ModuleHost!None
      BY <2>1, FailsTyped
    <2> QED
      BY <1>0, <2>1, <2>2 DEF ModuleHost!None
  <1>7. CASE ModuleHost!SyncEnds \/ (\E i \in Instances : ModuleHost!OpenBreaks(i)) \/ ModuleHost!StartNotSent
    <2>1. /\ sync' = ModuleHost!NoSync /\ waiting' = waiting /\ sync.pc # "idle"
          /\ \/ sync.by # "run" /\ UNCHANGED <<modulehost_control, run>>
             \/ sync.by = "run" /\ run' = "read" /\ modulehost_control' = modulehost_control
             \/ sync.by = "run" /\ modulehost_control = ModuleHost!None
             \/ sync.by = "run" /\ run' = "connect" /\ modulehost_control' = ModuleHost!None
      BY <1>7 DEF ModuleHost!SyncEnds, ModuleHost!OpenBreaks, ModuleHost!StartNotSent, ModuleHost!Syncing,
         ModuleHost!link
    <2>2. sync.by = "run" => run = "sync" /\ modulehost_control # ModuleHost!None
      BY <2>1
    <2> QED
      BY <1>0, <2>1, <2>2 DEF ModuleHost!None
  <1>8. CASE \/ ModuleHost!SaveSettings \/ ModuleHost!HostStarts \/ ModuleHost!HostChecks \/ ProcActs
             \/ UNCHANGED ModuleHostVars \/ \E c \in ModuleHost!Conns : ModuleHost!ServeEnds(c)
                \/ ModuleHost!ServeCounts(c)
    <2>1. modulehost_control' = modulehost_control /\ run' = run /\ waiting' = waiting /\ sync' = sync
      BY <1>8 DEF ModuleHost!SaveSettings, ModuleHost!HostStarts, ModuleHost!HostChecks, ProcActs,
         ModuleHost!HostExits,
         ModuleHost!HostDies, ModuleHost!HostGone, ModuleHost!HostStartsInstance, ModuleHost!InstanceDies,
         ModuleHost!InstanceLasts, ModuleHostVars, ModuleHost!ServeEnds, ModuleHost!ServeCounts, ModuleHost!link
    <2> QED
      BY <1>0, <2>1 DEF ModuleHost!None
  <1> QED
    BY <1>1, <1>2, <1>3, <1>4, <1>5, <1>6, <1>7, <1>8
    DEF ModuleHost!Next, ModuleHost!CoreStep, ModuleHost!HostStep, ModuleHost!Trouble, SyncFailing, ProcActs

\* What a step makes of the processes: none comes to be asked for or alive but by the host's leave or a sync's.
NoNewProcs == \A c \in ModuleHost!Conns : conn'[c].proc \in {"asked", "alive"} => conn'[c].proc = conn[c].proc
                                                                                 /\ conn'[c].host = conn[c].host

(* Where no process is new and the host stays as it is, or comes up while none is there, none is of a lost host. *)
LEMMA AliveStays == ASSUME AliveInv, NoNewProcs, modulehost_host'.no = modulehost_host.no,
                           \/ modulehost_host'.st = modulehost_host.st
                           \/ (modulehost_host.st = "checking" /\ modulehost_host'.st # "down")
                    PROVE  AliveInv'
BY DEF AliveInv, NoNewProcs, ModuleHost!HostUp, ModuleHost!Conns

(* The steps of a sync and of a connection's end begin no process, but one that is opened. *)
LEMMA ProcsNew == ASSUME SyncTypes, OpensInv, [ModuleHost!Next]_ModuleHostVars
  PROVE  \/ NoNewProcs
         \/ \E c \in ModuleHost!Conns : ModuleHost!HostStartsInstance(c)
         \/ \E i \in Instances : ModuleHost!OpensInstance(i)
  <1>0. /\ ModuleHost!Conns = 1..MaxConns /\ ModuleHost!None = 0 /\ sync \in HostSync
        /\ \A c \in ModuleHost!Conns : conn[c] \in HostConn
        /\ conn \in [ModuleHost!Conns -> HostConn]
    BY HostConstants DEF SyncTypes, ConnTypes
  <1>1. ASSUME NEW is \in SUBSET Instances, conn' = ModuleHost!Stopped(is) PROVE NoNewProcs
    <2>1. \A c \in ModuleHost!Conns : conn'[c] = conn[c] \/ conn'[c].proc = "none"
      BY <1>1, StopsServed
    <2> QED
      BY <2>1 DEF NoNewProcs
  <1>2. CASE conn' = conn
    BY <1>2 DEF NoNewProcs
  <1>3. CASE ModuleHost!RunLosesHost \/ SyncFailing \/ ModuleHost!LanApplied
    <2>1. ModuleHost!ToStop \in SUBSET Instances
      BY DEF ModuleHost!ToStop
    <2>2. conn' = conn \/ conn' = ModuleHost!Stopped(Instances) \/ conn' = ModuleHost!Stopped(ModuleHost!ToStop)
      BY <1>3, FailsTyped DEF ModuleHost!RunLosesHost, ModuleHost!Disconnected, SyncFailing, ModuleHost!UidsFail,
         ModuleHost!OpenFails, ModuleHost!LanApplied
    <2> QED
      BY <1>1, <1>2, <2>1, <2>2
  <1>4. CASE ModuleHost!Starts \/ ModuleHost!StartNotSent
    <2> DEFINE c == sync.conn
    <2>1. c \in ModuleHost!Conns
      BY <1>0, <1>4 DEF ModuleHost!Starts, ModuleHost!StartNotSent, ModuleHost!Syncing, OpensInv, HostSync
    <2>2. CASE ModuleHost!Registered
      <3>1. \A d \in ModuleHost!Conns : conn'[d].proc = conn[d].proc /\ conn'[d].host = conn[d].host
        BY <1>0, <2>1, <2>2 DEF ModuleHost!Registered, HostConn
      <3> QED
        BY <3>1 DEF NoNewProcs
    <2>3. CASE conn' = [ModuleHost!Stopped(Instances) EXCEPT ![c] = ModuleHost!Closed(c)]
      <3>1. ModuleHost!Closed(c).proc = "none"
        <4>1. \A d \in ModuleHost!Conns : ModuleHost!Closed(d).proc = "none"
          BY <1>0 DEF HostConn, ModuleHost!Closed
        <4> QED
          BY <2>1, <4>1
      <3>2. /\ ModuleHost!Stopped(Instances) \in [ModuleHost!Conns -> HostConn]
            /\ \A d \in ModuleHost!Conns :
                 ModuleHost!Stopped(Instances)[d] = conn[d] \/ ModuleHost!Stopped(Instances)[d].proc = "none"
        BY StopsServed
      <3> HIDE DEF c
      <3>3. \A d \in ModuleHost!Conns : conn'[d] = conn[d] \/ conn'[d].proc = "none"
        BY <2>1, <2>3, <3>1, <3>2
      <3> QED
        BY <3>3 DEF NoNewProcs
    <2> QED
      BY <1>4, <2>2, <2>3 DEF ModuleHost!Starts, ModuleHost!StartNotSent
  <1>5. ASSUME NEW c \in ModuleHost!Conns, ModuleHost!ServeEnds(c) \/ ModuleHost!ServeCounts(c) PROVE NoNewProcs
    <2>1. ModuleHost!NoConn.proc = "none"
      BY NoConnTyped
    <2>2. \A d \in ModuleHost!Conns : conn'[d] = conn[d] \/ conn'[d].proc = "none"
      <3>1. CASE ModuleHost!ServeEnds(c)
        <4>1. /\ conn' = [conn EXCEPT ![c] = [conn[c] EXCEPT !.st = "ended", !.proc = "none"]]
              /\ [conn[c] EXCEPT !.st = "ended", !.proc = "none"].proc = "none"
          BY <1>0, <3>1 DEF ModuleHost!ServeEnds, HostConn
        <4> QED
          BY <1>0, <4>1
      <3>2. CASE ModuleHost!ServeCounts(c)
        BY <1>0, <2>1, <3>2 DEF ModuleHost!ServeCounts
      <3> QED
        BY <1>5, <3>1, <3>2
    <2> QED
      BY <2>2 DEF NoNewProcs
  <1>6. CASE ModuleHost!HostExits \/ ModuleHost!HostDies
    <2>1. \A d \in ModuleHost!Conns : conn'[d] = conn[d] \/ conn'[d].proc = "gone"
      BY <1>0, <1>6 DEF ModuleHost!HostExits, ModuleHost!HostDies, ModuleHost!HostGone, HostConn
    <2> QED
      BY <2>1 DEF NoNewProcs
  <1>7. ASSUME NEW c \in ModuleHost!Conns, ModuleHost!InstanceDies(c) \/ ModuleHost!InstanceLasts(c) PROVE NoNewProcs
    <2>1. \A d \in ModuleHost!Conns : conn'[d].host = conn[d].host
      BY <1>7, ProcsMove DEF ProcActs, SameConns
    <2>2. CASE ModuleHost!InstanceDies(c)
      <3>1. \A d \in ModuleHost!Conns : conn'[d].proc = conn[d].proc \/ conn'[d].proc = "gone"
        BY <1>0, <2>2 DEF ModuleHost!InstanceDies, HostConn
      <3> QED
        BY <2>1, <3>1 DEF NoNewProcs
    <2>3. CASE ModuleHost!InstanceLasts(c)
      <3>1. [conn[c] EXCEPT !.old = TRUE].proc = conn[c].proc
        BY <1>0 DEF HostConn
      <3>2. conn' = [conn EXCEPT ![c] = [conn[c] EXCEPT !.old = TRUE]]
        BY <1>0, <2>3 DEF ModuleHost!InstanceLasts
      <3>3. \A d \in ModuleHost!Conns : conn'[d].proc = conn[d].proc
        BY <1>0, <3>1, <3>2
      <3> QED
        BY <2>1, <3>3 DEF NoNewProcs
    <2> QED
      BY <1>7, <2>2, <2>3
  <1>8. CASE \/ ModuleHost!SaveSettings \/ ModuleHost!ReloadModules \/ ModuleHost!Resume \/ ModuleHost!HostStarts
             \/ ModuleHost!HostChecks \/ ModuleHost!RunConnects \/ UNCHANGED ModuleHostVars
             \/ ModuleHost!UidsAnswered \/ ModuleHost!SyncEnds
             \/ (\E caller \in ModuleHost!Callers : ModuleHost!SyncBegins(caller))
             \/ \E i \in Instances : \/ ModuleHost!ServeRestarts(i) \/ ModuleHost!LeavesRunning(i)
                                     \/ ModuleHost!OpenBreaks(i)
    <2>1. conn' = conn
      BY <1>8 DEF ModuleHost!SaveSettings, ModuleHost!ReloadModules, ModuleHost!Resume, ModuleHost!HostStarts,
         ModuleHost!HostChecks, ModuleHost!RunConnects, ModuleHostVars, ModuleHost!ServeRestarts,
         ModuleHost!UidsAnswered, ModuleHost!SyncEnds, ModuleHost!SyncBegins, ModuleHost!LeavesRunning,
         ModuleHost!OpenBreaks
    <2> QED
      BY <1>2, <2>1
  <1> QED
    BY <1>3, <1>4, <1>5, <1>6, <1>7, <1>8
    DEF ModuleHost!Next, ModuleHost!CoreStep, ModuleHost!HostStep, ModuleHost!Trouble, SyncFailing

(* A process is asked for of the host that is up, and is alive only where its sandbox was found closed. *)
LEMMA AliveStep == ASSUME SyncTypes, AliveInv, OpensInv, [ModuleHost!Next]_ModuleHostVars PROVE AliveInv'
  <1>0. /\ ModuleHost!Conns = 1..MaxConns /\ \A c \in ModuleHost!Conns : conn[c] \in HostConn
        /\ conn \in [ModuleHost!Conns -> HostConn]
        /\ modulehost_host \in [no : Nat, st : {"down", "checking", "closed", "open"}, taken : BOOLEAN]
    BY HostConstants DEF SyncTypes, ConnTypes, HostTypes, OwnerTypes
  <1>1. CASE ModuleHost!HostExits \/ ModuleHost!HostDies
    <2>1. \A c \in ModuleHost!Conns : conn'[c].proc \notin {"asked", "alive"}
      <3> SUFFICES ASSUME NEW c \in ModuleHost!Conns PROVE conn'[c].proc \notin {"asked", "alive"}
        OBVIOUS
      <3>1. conn'[c] = IF conn[c].host = modulehost_host.no /\ conn[c].proc # "none"
                       THEN [conn[c] EXCEPT !.proc = "gone"] ELSE conn[c]
        BY <1>1 DEF ModuleHost!HostExits, ModuleHost!HostDies, ModuleHost!HostGone
      <3>2. [conn[c] EXCEPT !.proc = "gone"].proc = "gone"
        BY <1>0 DEF HostConn
      <3>3. conn[c].proc \in {"asked", "alive"} => conn[c].host = modulehost_host.no
        BY DEF AliveInv, ModuleHost!HostUp
      <3> QED
        BY <3>1, <3>2, <3>3
    <2> QED
      BY <2>1 DEF AliveInv, ModuleHost!Conns
  <1>2. CASE ModuleHost!HostStarts
    <2>1. conn' = conn /\ modulehost_host.st = "down"
      BY <1>2 DEF ModuleHost!HostStarts
    <2> QED
      BY <2>1 DEF AliveInv, ModuleHost!HostUp, ModuleHost!Conns
  <1>3. ASSUME NEW c \in ModuleHost!Conns, ModuleHost!HostStartsInstance(c) PROVE AliveInv'
    <2>1. PICK p \in {"gone", "alive"} : /\ conn' = [conn EXCEPT ![c] = [conn[c] EXCEPT !.proc = p]]
                                         /\ p = "alive" => modulehost_host.st = "closed"
      BY <1>0, <1>3 DEF ModuleHost!HostStartsInstance, ModuleHost!Refuses
    <2>2. [conn[c] EXCEPT !.proc = p].proc = p /\ [conn[c] EXCEPT !.proc = p].host = conn[c].host
      BY <1>0 DEF HostConn
    <2>3. ModuleHost!HostUp(conn[c].host) /\ modulehost_host' = modulehost_host
      BY <1>3 DEF ModuleHost!HostStartsInstance
    <2>4. \A d \in ModuleHost!Conns : /\ conn'[d].host = conn[d].host
                                      /\ conn'[d].proc = conn[d].proc \/ (d = c /\ conn'[d].proc = p)
      BY <1>0, <2>1, <2>2
    <2> QED
      BY <2>1, <2>3, <2>4 DEF AliveInv, ModuleHost!HostUp, ModuleHost!Conns
  <1>4. CASE \E i \in Instances : ModuleHost!OpensInstance(i)
    <2>1. PICK i \in Instances, c \in ModuleHost!Conns :
            /\ ModuleHost!HostUp(modulehost_control) /\ modulehost_host' = modulehost_host
            /\ conn' = [conn EXCEPT ![c] = [st |-> "opening", inst |-> i, key |-> sync.wanted[i],
                                            host |-> modulehost_control, proc |-> "asked", old |-> FALSE]]
      BY <1>4 DEF ModuleHost!OpensInstance
    <2>2. \A d \in ModuleHost!Conns : \/ conn'[d] = conn[d]
                                      \/ conn'[d].proc = "asked" /\ conn'[d].host = modulehost_control
      BY <1>0, <2>1
    <2> QED
      BY <2>1, <2>2 DEF AliveInv, ModuleHost!HostUp, ModuleHost!Conns
  <1>5. CASE ModuleHost!HostChecks
    <2>1. PICK found \in {"closed", "open"} : modulehost_host' = [modulehost_host EXCEPT !.st = found]
      BY <1>5 DEF ModuleHost!HostChecks
    <2>2. conn' = conn /\ modulehost_host.st = "checking" /\ modulehost_host'.no = modulehost_host.no
          /\ modulehost_host'.st \in {"closed", "open"}
      BY <1>0, <1>5, <2>1 DEF ModuleHost!HostChecks
    <2> QED
      BY <2>2, AliveStays DEF NoNewProcs
  <1>6. CASE ModuleHost!RunConnects
    <2>1. conn' = conn /\ modulehost_host'.no = modulehost_host.no /\ modulehost_host'.st = modulehost_host.st
      BY <1>0, <1>6 DEF ModuleHost!RunConnects
    <2> QED
      BY <2>1, AliveStays DEF NoNewProcs
  <1>7. CASE modulehost_host' = modulehost_host /\ NoNewProcs
    BY <1>7, AliveStays
  <1>8. \/ ModuleHost!HostExits \/ ModuleHost!HostDies \/ ModuleHost!HostStarts \/ ModuleHost!HostChecks
        \/ ModuleHost!RunConnects \/ modulehost_host' = modulehost_host
    BY FailsTyped
    DEF ModuleHost!Next, ModuleHost!CoreStep, ModuleHost!HostStep, ModuleHost!Trouble, ModuleHost!SaveSettings,
       ModuleHost!Resume, ModuleHost!ReloadModules, ModuleHost!RunLosesHost,
       ModuleHost!SyncBegins, ModuleHost!UidsAnswered, ModuleHost!UidsFail,
       ModuleHost!LanApplied, ModuleHost!LeavesRunning, ModuleHost!OpensInstance, ModuleHost!OpenFails,
       ModuleHost!OpenBreaks, ModuleHost!Starts, ModuleHost!StartNotSent, ModuleHost!SyncEnds, ModuleHost!ServeEnds,
       ModuleHost!ServeCounts, ModuleHost!ServeRestarts, ModuleHost!HostStartsInstance, ModuleHost!InstanceDies,
       ModuleHost!InstanceLasts, ModuleHostVars
  <1> QED
    BY <1>1, <1>2, <1>3, <1>4, <1>5, <1>6, <1>7, <1>8, ProcsNew

\* What a sync holds against the settings is settled, or about to be.
Excuse == \/ reload \/ waiting # {} \/ modulehost_control = ModuleHost!None
          \/ \A i \in Instances : sync.wanted[i] = settings[i] \/ i \in paused
Harmless == /\ sync.pc = "lan"
            /\ modulehost_host.st = "open" \/ \A c \in ModuleHost!Conns : conn[c].proc \notin {"asked", "alive"}

(* What a sync goes by stays what the settings say, or another one is to come. *)
LEMMA WantedStep == ASSUME SyncTypes, AliveInv, OpensInv, WantedInv, [ModuleHost!Next]_ModuleHostVars PROVE WantedInv'
  <1>0. /\ ModuleHost!None = 0 /\ ModuleHost!Conns = 1..MaxConns /\ sync \in HostSync
        /\ \A c \in ModuleHost!Conns : conn[c] \in HostConn
        /\ modulehost_host \in [no : Nat, st : {"down", "checking", "closed", "open"}, taken : BOOLEAN]
        /\ ModuleHost!NoSync.pc = "idle"
    BY HostConstants, NoSyncTyped DEF SyncTypes, ConnTypes, OwnerTypes, HostTypes
  <1>1. ASSUME sync'.pc \in {"uids", "lan"}, Excuse' \/ Harmless' PROVE WantedInv'
    BY <1>1 DEF WantedInv, Excuse, Harmless
  <1>2. ASSUME sync.pc \in {"uids", "lan"} PROVE Excuse \/ Harmless
    BY <1>2 DEF WantedInv, Excuse, Harmless
  <1>3. ASSUME sync'.pc \notin {"uids", "lan"} PROVE WantedInv'
    BY <1>3 DEF WantedInv
  <1>4. CASE ModuleHost!SaveSettings
    <2>1. reload'
      BY <1>4 DEF ModuleHost!SaveSettings
    <2> QED
      BY <2>1 DEF WantedInv
  <1>5. CASE ModuleHost!ReloadModules \/ ModuleHost!Resume \/ \E i \in Instances : ModuleHost!ServeRestarts(i)
    <2>1. waiting' # {} \/ (modulehost_control' = ModuleHost!None)
      BY <1>5 DEF ModuleHost!ReloadModules, ModuleHost!Resume, ModuleHost!AskForSync, ModuleHost!ServeRestarts,
         ModuleHost!link
    <2> QED
      BY <2>1 DEF WantedInv, ModuleHost!None
  <1>6. CASE ModuleHost!RunConnects
    <2>1. waiting' # {}
      BY <1>6 DEF ModuleHost!RunConnects
    <2> QED
      BY <2>1 DEF WantedInv
  <1>7. CASE ModuleHost!RunLosesHost
    <2>1. modulehost_control' = 0
      BY <1>0, <1>7 DEF ModuleHost!RunLosesHost, ModuleHost!Disconnected
    <2> QED
      BY <2>1 DEF WantedInv, ModuleHost!None
  <1>8. CASE \E caller \in ModuleHost!Callers : ModuleHost!SyncBegins(caller)
    <2>1. PICK caller \in ModuleHost!Callers : ModuleHost!SyncBegins(caller)
      BY <1>8
    <2>2. CASE modulehost_control = ModuleHost!None
      <3>1. modulehost_control' = 0
        BY <1>0, <2>1, <2>2 DEF ModuleHost!SyncBegins, ModuleHost!link
      <3> QED
        BY <3>1 DEF WantedInv, ModuleHost!None
    <2>3. CASE modulehost_control # ModuleHost!None
      <3>1. sync'.wanted = ModuleHost!Wanted /\ settings' = settings /\ paused' = paused
        BY <2>1, <2>3 DEF ModuleHost!SyncBegins, ModuleHost!NoSync, ModuleHost!owner, ModuleHost!counts
      <3>2. \A i \in Instances : ModuleHost!Wanted[i] = settings[i] \/ i \in paused
        BY DEF ModuleHost!Wanted
      <3> QED
        BY <3>1, <3>2 DEF WantedInv
    <2> QED
      BY <2>2, <2>3
  <1>9. CASE ModuleHost!UidsAnswered
    <2>1. /\ sync.pc = "uids" /\ UNCHANGED <<settings, reload, modulehost_host, modulehost_control, waiting, paused>>
      BY <1>9 DEF ModuleHost!UidsAnswered, ModuleHost!owner, ModuleHost!link, ModuleHost!counts, ModuleHost!Syncing
    <2>2. sync'.pc = "lan" /\ (modulehost_host.st = "open" \/ sync'.wanted = sync.wanted)
      BY <1>0, <1>9 DEF ModuleHost!UidsAnswered, HostSync
    <2>3. CASE modulehost_host.st = "open"
      <3>1. modulehost_host'.st = "open"
        BY <2>1, <2>3
      <3> QED
        BY <2>2, <3>1 DEF WantedInv
    <2>4. CASE sync'.wanted = sync.wanted
      <3>1. Excuse
        BY <1>2, <2>1 DEF Harmless
      <3>2. Excuse'
        BY <2>1, <2>4, <3>1 DEF Excuse, ModuleHost!None
      <3> QED
        BY <1>1, <2>2, <3>2
    <2> QED
      BY <2>2, <2>3, <2>4
  <1>10. CASE \/ ModuleHost!LanApplied \/ ModuleHost!Starts \/ ModuleHost!StartNotSent \/ ModuleHost!SyncEnds
              \/ SyncFailing
              \/ \E i \in Instances : \/ ModuleHost!LeavesRunning(i) \/ ModuleHost!OpensInstance(i)
                                      \/ ModuleHost!OpenBreaks(i)
    <2>1. sync'.pc \notin {"uids", "lan"}
      BY <1>0, <1>10, FailsTyped DEF ModuleHost!LanApplied, ModuleHost!Starts, ModuleHost!StartNotSent,
         ModuleHost!SyncEnds, SyncFailing, ModuleHost!UidsFail, ModuleHost!OpenFails, ModuleHost!LeavesRunning,
         ModuleHost!OpensInstance, ModuleHost!OpenBreaks, HostSync, ModuleHost!Syncing
    <2> QED
      BY <1>3, <2>1
  <1>11. ASSUME UNCHANGED <<settings, reload, modulehost_control, waiting, sync>>, paused \subseteq paused',
                Harmless => Harmless'
         PROVE  WantedInv'
    <2>1. Excuse => Excuse'
      BY <1>11 DEF Excuse, ModuleHost!None
    <2> QED
      BY <1>1, <1>2, <1>3, <1>11, <2>1
  <1>12. CASE ModuleHost!HostExits \/ ModuleHost!HostDies
    <2>1. UNCHANGED <<settings, reload, modulehost_control, waiting, sync, paused>>
      BY <1>12 DEF ModuleHost!HostExits, ModuleHost!HostDies, ModuleHost!HostGone, ModuleHost!owner, ModuleHost!link,
         ModuleHost!counts
    <2>2. AliveInv' /\ modulehost_host'.st = "down"
      BY <1>0, <1>12, AliveStep DEF ModuleHost!HostExits, ModuleHost!HostDies, ModuleHost!HostGone
    <2>3. \A c \in ModuleHost!Conns : conn'[c].proc \notin {"asked", "alive"}
      BY <2>2 DEF AliveInv, ModuleHost!HostUp, ModuleHost!Conns
    <2>4. Harmless => Harmless'
      BY <2>1, <2>3 DEF Harmless, ModuleHost!Conns
    <2> QED
      BY <1>11, <2>1, <2>4
  <1>13. CASE ModuleHost!HostStarts \/ ModuleHost!HostChecks
    <2>1. /\ UNCHANGED <<settings, reload, modulehost_control, waiting, sync, paused, conn>>
          /\ modulehost_host.st \in {"down", "checking"}
      BY <1>13 DEF ModuleHost!HostStarts, ModuleHost!HostChecks, ModuleHost!owner, ModuleHost!link, ModuleHost!counts
    <2>2. Harmless => Harmless'
      BY <2>1 DEF Harmless, ModuleHost!Conns
    <2> QED
      BY <1>11, <2>1, <2>2
  <1>14. ASSUME NEW c \in ModuleHost!Conns, \/ ModuleHost!HostStartsInstance(c) \/ ModuleHost!InstanceDies(c)
                                            \/ ModuleHost!InstanceLasts(c)
         PROVE  WantedInv'
    <2>1. UNCHANGED <<settings, reload, modulehost_control, waiting, paused, modulehost_host, sync>>
      BY <1>14 DEF ModuleHost!HostStartsInstance, ModuleHost!InstanceDies, ModuleHost!InstanceLasts, ModuleHost!owner,
         ModuleHost!link, ModuleHost!counts
    <2>2. CASE ModuleHost!HostStartsInstance(c)
      <3>1. conn[c].proc = "asked"
        BY <2>2 DEF ModuleHost!HostStartsInstance
      <3>2. Harmless => Harmless'
        BY <2>1, <3>1 DEF Harmless
      <3> QED
        BY <1>11, <2>1, <3>2
    <2>3. CASE NoNewProcs
      <3>1. Harmless => Harmless'
        BY <2>1, <2>3 DEF Harmless, NoNewProcs, ModuleHost!Conns
      <3> QED
        BY <1>11, <2>1, <3>1
    <2>4. \/ ModuleHost!HostStartsInstance(c) \/ NoNewProcs
      <3>1. ModuleHost!InstanceDies(c) \/ ModuleHost!InstanceLasts(c) => conn[c].proc = "alive"
        BY DEF ModuleHost!InstanceDies, ModuleHost!InstanceLasts
      <3>2. CASE ModuleHost!InstanceDies(c)
        <4>1. \A d \in ModuleHost!Conns : conn'[d].proc \in {"asked", "alive"} => conn'[d] = conn[d]
          BY <1>0, <3>2 DEF ModuleHost!InstanceDies, HostConn, SyncTypes, ConnTypes
        <4> QED
          BY <4>1 DEF NoNewProcs
      <3>3. CASE ModuleHost!InstanceLasts(c)
        <4>1. /\ [conn[c] EXCEPT !.old = TRUE].proc = conn[c].proc
              /\ [conn[c] EXCEPT !.old = TRUE].host = conn[c].host
          BY <1>0 DEF HostConn
        <4>2. conn' = [conn EXCEPT ![c] = [conn[c] EXCEPT !.old = TRUE]] /\ conn \in [ModuleHost!Conns -> HostConn]
          BY <3>3 DEF ModuleHost!InstanceLasts, SyncTypes, ConnTypes
        <4> QED
          BY <4>1, <4>2 DEF NoNewProcs
      <3> QED
        BY <1>14, <3>2, <3>3
    <2> QED
      BY <2>2, <2>3, <2>4
  <1>15. ASSUME NEW c \in ModuleHost!Conns, ModuleHost!ServeEnds(c) \/ ModuleHost!ServeCounts(c) PROVE WantedInv'
    <2>1. UNCHANGED <<settings, reload, modulehost_control, waiting, modulehost_host, sync>>
      BY <1>15 DEF ModuleHost!ServeEnds, ModuleHost!ServeCounts, ModuleHost!owner, ModuleHost!link
    <2>2. paused \subseteq paused'
      BY <1>15 DEF ModuleHost!ServeEnds, ModuleHost!ServeCounts, ModuleHost!counts
    <2>3. \A d \in ModuleHost!Conns : conn'[d] = conn[d] \/ conn'[d].proc = "none"
      <3>1. CASE ModuleHost!ServeEnds(c)
        <4>1. /\ conn' = [conn EXCEPT ![c] = [conn[c] EXCEPT !.st = "ended", !.proc = "none"]]
              /\ [conn[c] EXCEPT !.st = "ended", !.proc = "none"].proc = "none"
          BY <1>0, <3>1 DEF ModuleHost!ServeEnds, HostConn, SyncTypes, ConnTypes
        <4> QED
          BY <1>0, <4>1 DEF SyncTypes, ConnTypes
      <3>2. CASE ModuleHost!ServeCounts(c)
        BY <1>0, <3>2, NoConnTyped DEF ModuleHost!ServeCounts, SyncTypes, ConnTypes
      <3> QED
        BY <1>15, <3>1, <3>2
    <2>4. Harmless => Harmless'
      BY <2>1, <2>3 DEF Harmless, ModuleHost!Conns
    <2> QED
      BY <1>11, <2>1, <2>2, <2>4
  <1>16. CASE UNCHANGED ModuleHostVars
    BY <1>16 DEF ModuleHostVars, WantedInv, ModuleHost!None, ModuleHost!Conns
  <1> QED
    BY <1>4, <1>5, <1>6, <1>7, <1>8, <1>9, <1>10, <1>12, <1>13, <1>14, <1>15, <1>16
    DEF ModuleHost!Next, ModuleHost!CoreStep, ModuleHost!HostStep, ModuleHost!Trouble, SyncFailing

(* The core begins without a connection, the host with its self-check. *)
LEMMA HostInit == ASSUME ModuleHost!Init PROVE HostInv
  <1>0. /\ bound \in HostBounds /\ bound.changes \in Nat /\ bound.crashes \in Nat /\ bound.hosts \in Nat \ {0}
        /\ ModuleHost!MaxHosts = bound.hosts /\ ModuleHost!Keys = 0..(bound.changes + 1)
        /\ ModuleHost!Conns = 1..MaxConns /\ MaxConns \in Nat \ {0} /\ ModuleHost!None = 0
    BY HostConstants DEF ModuleHost!Init
  <1>1. OwnerTypes
    <2>1. \A i \in Instances : (IF i \in bound.instances THEN 1 ELSE 0) \in ModuleHost!Keys
      BY <1>0
    <2>2. settings \in [Instances -> ModuleHost!Keys]
      BY <2>1 DEF ModuleHost!Init
    <2>3. changes \in 0..bound.changes
      BY <1>0 DEF ModuleHost!Init
    <2> QED
      BY <1>0, <2>2, <2>3 DEF ModuleHost!Init, OwnerTypes
  <1>2. HostTypes
    BY <1>0 DEF ModuleHost!Init, HostTypes
  <1>3. CountTypes
    BY <1>0 DEF ModuleHost!Init, CountTypes
  <1>4. ModuleHost!NoSync \in HostSync /\ ModuleHost!NoSync.pc = "idle" /\ ModuleHost!NoSync.conn = 0
    <2>1. [i \in Instances |-> 0] \in [Instances -> ModuleHost!Keys] /\ 0 \in 0..ModuleHost!MaxHosts
          /\ 0 \in 0..MaxConns
      BY <1>0
    <2> QED
      BY <1>0, <2>1, HostConstants DEF HostSync, ModuleHost!NoSync
  <1>5. ModuleHost!NoConn \in HostConn /\ ModuleHost!NoConn.st = "free" /\ ModuleHost!NoConn.proc = "none"
    <2>1. 0 \in ModuleHost!Keys /\ 0 \in 0..ModuleHost!MaxHosts
      BY <1>0
    <2> QED
      BY <2>1 DEF HostConn, ModuleHost!NoConn
  <1>6. ConnTypes
    BY <1>0, <1>5 DEF ModuleHost!Init, ConnTypes
  <1>7. SyncTypes
    BY <1>1, <1>2, <1>3, <1>4, <1>6 DEF SyncTypes, ModuleHost!Init
  <1>8. RunInv
    BY <1>4 DEF RunInv, ModuleHost!Init
  <1>9. AliveInv
    BY <1>5 DEF AliveInv, ModuleHost!Init
  <1>10. OpensInv
    BY <1>0, <1>4, <1>5 DEF OpensInv, ModuleHost!Init
  <1>11. WantedInv
    BY <1>4 DEF WantedInv, ModuleHost!Init
  <1> QED
    BY <1>7, <1>8, <1>9, <1>10, <1>11 DEF HostInv

(* Each step of the core and the host keeps the invariant. *)
LEMMA HostStep == ASSUME HostInv, [ModuleHost!Next]_ModuleHostVars PROVE HostInv'
  <1> USE DEF HostInv
  <1>1. SyncTypes'
    <2>1. HostSync' = HostSync
      BY BoundStays
    <2>2. OwnerTypes' /\ HostTypes' /\ sync' \in HostSync /\ CountTypes' /\ ConnTypes'
      BY OwnerStep, HostTypesStep, SyncStep, CountStep, OpensStep
    <2> QED
      BY <2>1, <2>2 DEF SyncTypes
  <1>2. RunInv' /\ AliveInv' /\ OpensInv' /\ WantedInv'
    BY RunStep, AliveStep, OpensStep, WantedStep
  <1> QED
    BY <1>1, <1>2

(* A module runs only on a host whose self-check found its sandbox closed; an instance has one connection, which
   _instances knows; and _run never dies: with any number of instances, connections, saves, crashes and restarts
   (host.start_instance, client._sync, client._run). *)
THEOREM SandboxAlwaysHolds == Spec => []SandboxHolds
  <1> DEFINE Inv == part = "host" => HostInv
  <1>1. Init => Inv
    BY HostInit DEF Init
  <1>2. Inv /\ [Next]_vars => Inv'
    BY HostStep, StepOfPart
  <1>3. HostInv => ModuleHost!TypeOK
    BY DEF HostInv, SyncTypes, OwnerTypes, HostTypes, ConnTypes, CountTypes, HostSync, HostConn, ModuleHost!TypeOK
  <1>4. HostInv => ModuleHost!SandboxHolds
    BY DEF HostInv, AliveInv, ModuleHost!SandboxHolds
  <1>5. HostInv => ModuleHost!OneConnEach
    <2> SUFFICES ASSUME OpensInv PROVE ModuleHost!OneConnEach
      BY DEF HostInv
    <2>1. \A c \in ModuleHost!Open : /\ c \in ModuleHost!Conns /\ conn[c].inst \in Instances
                                     /\ \/ sync.conn = c /\ reg[conn[c].inst] = ModuleHost!None
                                        \/ reg[conn[c].inst] = c
      BY HostConstants DEF ModuleHost!Open, OpensInv
    <2>2. 0 \notin ModuleHost!Conns
      BY HostConstants
    <2> QED
      BY <2>1, <2>2, HostConstants DEF ModuleHost!OneConnEach
  <1>6. HostInv => ModuleHost!RunLives
    BY DEF HostInv, RunInv, ModuleHost!RunLives
  <1>7. Inv => SandboxHolds
    BY <1>3, <1>4, <1>5, <1>6 DEF SandboxHolds
  <1> QED
    BY <1>1, <1>2, <1>7, PTL DEF Spec

(* A step that closes the connection of a process that is alive does it for a change of its own, or another sync is to
   come. *)
LEMMA StopsForChange == ASSUME HostInv, [ModuleHost!Next]_ModuleHostVars PROVE ModuleHost!StopsChanged
  <1> SUFFICES ASSUME NEW c \in ModuleHost!Conns, conn[c].proc = "alive", conn[c].st = "served",
                      conn'[c].st = "closed"
               PROVE  \/ modulehost_control' = ModuleHost!None \/ modulehost_host.st = "open"
                      \/ conn[c].key # settings[conn[c].inst] \/ conn[c].inst \in paused
                      \/ reload \/ waiting # {}
    BY DEF ModuleHost!StopsChanged
  <1>0. /\ SyncTypes /\ ModuleHost!None = 0 /\ sync \in HostSync /\ ModuleHost!Conns = 1..MaxConns
        /\ conn \in [ModuleHost!Conns -> HostConn] /\ \A d \in ModuleHost!Conns : conn[d] \in HostConn
    BY HostConstants DEF HostInv, SyncTypes, ConnTypes
  <1>1. CASE ModuleHost!LanApplied
    <2>1. /\ sync.pc = "lan" /\ conn' = ModuleHost!Stopped(ModuleHost!ToStop)
             /\ modulehost_control' = modulehost_control
      BY <1>1 DEF ModuleHost!LanApplied, ModuleHost!Syncing, ModuleHost!link
    <2>2. PICK i \in ModuleHost!ToStop : reg[i] = c
      <3>1. ModuleHost!ToStop \in SUBSET Instances
        BY DEF ModuleHost!ToStop
      <3>2. conn'[c] # conn[c]
        OBVIOUS
      <3> QED
        BY <1>0, <2>1, <3>1, <3>2, StopsServed
    <2>3. i \in Instances /\ conn[c].inst = i /\ conn[c].key # sync.wanted[i]
      BY <1>0, <2>2 DEF ModuleHost!ToStop, HostInv, OpensInv
    <2>4. \/ reload \/ waiting # {} \/ modulehost_control = ModuleHost!None
          \/ sync.wanted[i] = settings[i] \/ i \in paused
          \/ modulehost_host.st = "open"
      BY <2>1, <2>3 DEF HostInv, WantedInv
    <2> QED
      BY <2>1, <2>3, <2>4
  <1>2. CASE ModuleHost!RunLosesHost
    BY <1>2 DEF ModuleHost!RunLosesHost, ModuleHost!Disconnected
  <1>3. CASE SyncFailing
    <2>1. \/ conn' = conn \/ modulehost_control' = ModuleHost!None
      BY <1>0, <1>3, FailsTyped DEF SyncFailing, ModuleHost!UidsFail, ModuleHost!OpenFails
    <2> QED
      BY <2>1
  <1>4. CASE ModuleHost!Starts \/ ModuleHost!StartNotSent
    <2>1. sync.conn \in ModuleHost!Conns /\ conn[sync.conn].st = "opening"
      BY <1>0, <1>4 DEF ModuleHost!Starts, ModuleHost!StartNotSent, ModuleHost!Syncing, HostInv, OpensInv, HostSync
    <2>2. CASE ModuleHost!Registered
      <3>1. conn'[c] = conn[c]
        BY <1>0, <2>1, <2>2 DEF ModuleHost!Registered
      <3> QED
        BY <3>1
    <2> QED
      BY <1>4, <2>2 DEF ModuleHost!Starts, ModuleHost!StartNotSent
  <1>5. CASE ProcActs
    BY <1>0, <1>5, ProcsMove DEF SameConns
  <1>6. ASSUME NEW d \in ModuleHost!Conns, ModuleHost!ServeEnds(d) \/ ModuleHost!ServeCounts(d) PROVE FALSE
    <2>1. [conn[d] EXCEPT !.st = "ended", !.proc = "none"].st = "ended" /\ ModuleHost!NoConn.st = "free"
      BY <1>0, NoConnTyped DEF HostConn
    <2>2. \/ conn' = [conn EXCEPT ![d] = [conn[d] EXCEPT !.st = "ended", !.proc = "none"]]
          \/ conn' = [conn EXCEPT ![d] = ModuleHost!NoConn]
      BY <1>0, <1>6 DEF ModuleHost!ServeEnds, ModuleHost!ServeCounts
    <2>3. conn'[c].st \in {conn[c].st, "ended", "free"}
      BY <1>0, <2>1, <2>2
    <2> QED
      BY <2>3
  <1>7. CASE \E i \in Instances : ModuleHost!OpensInstance(i)
    <2>1. PICK d \in ModuleHost!Conns, i \in Instances :
            conn' = [conn EXCEPT ![d] = [st |-> "opening", inst |-> i, key |-> sync.wanted[i],
                                         host |-> modulehost_control, proc |-> "asked", old |-> FALSE]]
      BY <1>7 DEF ModuleHost!OpensInstance
    <2>2. conn'[c].st \in {conn[c].st, "opening"}
      BY <1>0, <2>1
    <2> QED
      BY <2>2
  <1>8. CASE conn' = conn
    BY <1>8
  <1>9. CASE \/ ModuleHost!SaveSettings \/ ModuleHost!ReloadModules \/ ModuleHost!Resume \/ ModuleHost!HostStarts
             \/ ModuleHost!HostChecks \/ ModuleHost!RunConnects \/ UNCHANGED ModuleHostVars
             \/ ModuleHost!UidsAnswered \/ ModuleHost!SyncEnds
             \/ (\E caller \in ModuleHost!Callers : ModuleHost!SyncBegins(caller))
             \/ \E i \in Instances : \/ ModuleHost!ServeRestarts(i) \/ ModuleHost!LeavesRunning(i)
                                     \/ ModuleHost!OpenBreaks(i)
    <2>1. conn' = conn
      BY <1>9 DEF ModuleHost!SaveSettings, ModuleHost!ReloadModules, ModuleHost!Resume, ModuleHost!HostStarts,
         ModuleHost!HostChecks, ModuleHost!RunConnects, ModuleHostVars, ModuleHost!ServeRestarts,
         ModuleHost!UidsAnswered, ModuleHost!SyncEnds, ModuleHost!SyncBegins, ModuleHost!LeavesRunning,
         ModuleHost!OpenBreaks
    <2> QED
      BY <2>1
  <1> QED
    BY <1>1, <1>2, <1>3, <1>4, <1>5, <1>6, <1>7, <1>9
    DEF ModuleHost!Next, ModuleHost!CoreStep, ModuleHost!HostStep, ModuleHost!Trouble, SyncFailing, ProcActs

(* A running module is stopped only for a change of its own settings, its pause, an open sandbox or a lost host, or
   another sync is already on its way: with any number of instances, saves, crashes and restarts (_sync). *)
THEOREM AlwaysStopsOnlyChanged == Spec => StopsOnlyChanged
  <1> DEFINE Inv == part = "host" => HostInv
  <1>1. Init => Inv
    BY HostInit DEF Init
  <1>2. Inv /\ [Next]_vars => Inv'
    BY HostStep, StepOfPart
  <1>3. Inv /\ [Next]_vars => [part = "host" => ModuleHost!StopsChanged]_vars
    BY StopsForChange, StepOfPart
  <1> QED
    BY <1>1, <1>2, <1>3, PTL DEF Spec, StopsOnlyChanged

-----------------------------------------------------------------------------
(* Installing, updating and removing.                                       *)

Pkgs == Packages!Packages
Folders == 1..MaxFolders
PackageJob == [st : {"idle", "running", "restarting", "failed"},
               pc : {"none", "pin", "prepare", "pip", "uv", "check", "revert", "commit", "save"},
               op : {"install", "update", "uninstall"}, want : SUBSET Published, todo : SUBSET Published,
               from : [Pkgs -> 0..MaxFolders]]
JobBounds == [jobs : Nat, fails : Nat, restarts : Nat, hosts : Nat, settings : Nat, hurry : Nat]
DiskTypes ==
  /\ folders \in [Pkgs -> [Folders -> Published \cup {"none", "partial"}]]
  /\ \A p \in Pkgs, n \in Folders : folders[p][n] \in Published => ReleaseInfo[folders[p][n]].pkg = p
  /\ site \in [Packages!Sites -> [Pkgs -> 0..MaxFolders]] /\ link \in Packages!Sites
RestTypes ==
  /\ running \in [Pkgs -> 0..MaxFolders] /\ have \subseteq Pkgs /\ scripts \subseteq Pkgs
     /\ trusted \subseteq Published
  /\ job \in PackageJob /\ page \in [st : {"none", "follows", "success", "failed"}, over : BOOLEAN, done : BOOLEAN]
  /\ torn \in BOOLEAN /\ left \in JobBounds /\ left.hurry = 0

\* What is linked in either site is a whole module, no two of them with a module of one name.
WholeInv == \A s \in Packages!Sites, p \in Pkgs : site[s][p] # 0 => folders[p][site[s][p]] \in Published
NamesInv ==
  \A s \in Packages!Sites : \A p, q \in Pkgs : p # q /\ site[s][p] # 0 /\ site[s][q] # 0 =>
    ReleaseInfo[folders[p][site[s][p]]].names \cap ReleaseInfo[folders[q][site[s][q]]].names = {}
DiskInv == DiskTypes /\ WholeInv /\ NamesInv

\* What runs is from the site that is linked, or after a switch from the one that was.
Switched == Packages!At("save") \/ job.st = "restarting"
RunsInv == \A p \in Pkgs : \/ running[p] \in {0, site[link][p]}
                           \/ Switched /\ running[p] = site[Packages!next_site][p]

\* Where the job is and what it has left to do.
PkgOf(r) == ReleaseInfo[r].pkg
StepInv ==
  /\ job.st = "running" => job.pc # "none"
  /\ job.st = "running" /\ job.pc # "save" => job.from = site[link]
  /\ Packages!At("save") => job.from = site[Packages!next_site]
  /\ job.todo \subseteq job.want
  /\ \A r, s \in job.want : PkgOf(r) = PkgOf(s) => r = s
  /\ job.st = "running" /\ job.pc \in {"pin", "prepare"} => job.todo = job.want
  /\ job.st = "running" /\ job.pc \in {"pin", "prepare", "pip", "uv"} => job.todo # {}
  /\ Packages!At("pin") => job.op = "install"
  /\ Packages!At("uv") => /\ job.op # "uninstall"
                          /\ \E n \in Folders : folders[PkgOf(Packages!First(job.todo))][n] = "partial"
  /\ Packages!At("check") => job.op # "uninstall" /\ job.todo = {}
  /\ job.st = "running" /\ job.pc \in {"commit", "save"} /\ job.op # "uninstall" => job.todo = {}
  /\ job.st = "restarting" /\ job.op # "uninstall" => job.todo = {}
  /\ ~torn /\ job.st = "failed" => job.from = site[link]

\* What is done of it is in the site it makes, and then in the site that is linked.
Making == job.st = "running" /\ job.pc \in {"pip", "uv", "check", "commit"}
DoneAt(s) == job.op # "uninstall" =>
  \A r \in job.want \ job.todo : site[s][PkgOf(r)] # 0 /\ folders[PkgOf(r)][site[s][PkgOf(r)]] = r
DoneInv == (Making => DoneAt(Packages!next_site)) /\ (Switched => DoneAt(link))

\* The site it makes differs from the other only as such a job may: nothing goes in an install, nobody else's release
\* comes in an update, nothing comes in a removal.
Origin(s, p) == ReleaseInfo[folders[p][site[s][p]]].from
Differs(old, new) ==
  \A p \in Pkgs :
    /\ job.op = "install" /\ site[new][p] = 0 => site[old][p] = 0
    /\ job.op = "update" => \/ site[new][p] = site[old][p]
                            \/ site[new][p] # 0 /\ site[old][p] # 0 /\ Origin(new, p) = Origin(old, p)
    /\ job.op = "uninstall" => site[new][p] \in {0, site[old][p]}
ChangeInv ==
  /\ Making => Differs(link, Packages!next_site)
  /\ Packages!At("save") => Differs(Packages!next_site, link)
  /\ job.st = "running" /\ job.pc \in {"pin", "prepare", "pip", "uv"} /\ job.op = "update" =>
       \A r \in job.todo : site[link][PkgOf(r)] # 0 /\ ReleaseInfo[r].from = Origin(link, PkgOf(r))

\* A yes is for what is installed, or between the switch and the save for what was.
YesOf(s, p) ==
  site[s][p] # 0 /\ (Origin(s, p) = Owner \/ \E r \in trusted : PkgOf(r) = p /\ ReleaseInfo[r].from = Origin(s, p))
YesInv == ~torn =>
  /\ \A p \in scripts : YesOf(link, p) \/ (Packages!At("save") /\ YesOf(Packages!next_site, p))
  /\ \A p \in have : site[link][p] # 0 \/ (Packages!At("save") /\ site[Packages!next_site][p] # 0)
PackagesInv == DiskInv /\ RestTypes /\ RunsInv /\ StepInv /\ DoneInv /\ ChangeInv /\ YesInv
NoHurry == \A m \in JobScenes : m.hurry = 0

(* What is installed at first, and what the releases and folders are. *)
LEMMA PackagesConstants ==
  /\ IsFiniteSet(Published) /\ "none" \notin Published /\ "partial" \notin Published /\ MaxFolders \in Nat \ {0}
  /\ Folders = 1..MaxFolders /\ 0 \notin Folders /\ \A n \in 0..MaxFolders : n # 0 => n \in Folders
  /\ JobScenes \subseteq JobBounds /\ Pkgs = {PkgOf(r) : r \in Published} /\ Packages!Packages = Pkgs
  /\ \A r \in Published : PkgOf(r) \in Pkgs
  /\ Firsts \subseteq [Pkgs -> Published]
  /\ \A first \in Firsts : \A p, q \in Pkgs :
       /\ ReleaseInfo[first[p]].pkg = p
       /\ p # q => ReleaseInfo[first[p]].names \cap ReleaseInfo[first[q]].names = {}
  /\ Packages!Sites = {"a", "b"} /\ Packages!NoFolder = 0 /\ Packages!NoLinks = [p \in Pkgs |-> 0]
  <1>1. \A S : Packages!IsFiniteSet(S) <=> IsFiniteSet(S)
    BY DEF Packages!IsFiniteSet, IsFiniteSet
  <1>2. Pkgs = {PkgOf(r) : r \in Published}
    BY DEF Packages!Packages, Pkgs, PkgOf
  <1>3. /\ Packages!IsFiniteSet(Published) /\ Published \cap {"none", "partial"} = {} /\ MaxFolders \in Nat \ {0}
        /\ JobScenes \subseteq JobBounds
    BY ModulesAssumption DEF Packages!PackagesAssumption, JobBounds
  <1>4. /\ Firsts \subseteq [Pkgs -> Published]
        /\ \A first \in Firsts : \A p, q \in Pkgs :
             /\ ReleaseInfo[first[p]].pkg = p
             /\ p # q => ReleaseInfo[first[p]].names \cap ReleaseInfo[first[q]].names = {}
    BY ModulesAssumption DEF Packages!PackagesAssumption, Pkgs
  <1>5. Packages!Sites = {"a", "b"} /\ Packages!NoFolder = 0 /\ Packages!NoLinks = [p \in Pkgs |-> 0]
    BY DEF Packages!Sites, Packages!NoFolder, Packages!NoLinks, Pkgs
  <1>6. 0 \notin Folders /\ \A n \in 0..MaxFolders : n # 0 => n \in Folders
    BY <1>3 DEF Folders
  <1>7. \A r \in Published : PkgOf(r) \in Pkgs
    BY <1>2
  <1> QED
    BY <1>1, <1>2, <1>3, <1>4, <1>5, <1>6, <1>7 DEF Folders, Pkgs

(* There are two sites: the one that is linked and the next one. *)
LEMMA TwoSites == ASSUME link \in Packages!Sites
  PROVE  /\ Packages!next_site \in Packages!Sites /\ Packages!next_site # link
         /\ \A s \in Packages!Sites : s = link \/ s = Packages!next_site
BY DEF Packages!next_site, Packages!Sites

(* Which the next one is follows from which is linked. *)
LEMMA NextSite ==
  ASSUME link \in Packages!Sites
  PROVE  /\ link' = link => Packages!next_site' = Packages!next_site
         /\ link' = Packages!next_site => Packages!next_site' = link
  <1>1. ASSUME link' = Packages!next_site PROVE Packages!next_site' = link
    BY <1>1, TwoSites DEF Packages!next_site, Packages!Sites
  <1>2. ASSUME link' = link PROVE Packages!next_site' = Packages!next_site
    BY <1>2 DEF Packages!next_site, Packages!Sites
  <1> QED
    BY <1>1, <1>2

(* What may still happen is spent one by one, and no hurry is to spend. *)
LEMMA Happening ==
  ASSUME RestTypes, NEW what \in {"jobs", "fails", "restarts", "hosts", "settings"}, Packages!Happens(what)
  PROVE  left' \in JobBounds /\ left'.hurry = 0
  <1>1. left[what] \in Nat /\ left[what] > 0 /\ left' = [left EXCEPT ![what] = left[what] - 1]
    BY DEF RestTypes, JobBounds, Packages!Happens
  <1>2. left[what] - 1 \in Nat
    BY <1>1
  <1> QED
    BY <1>1, <1>2 DEF RestTypes, JobBounds

(* A job goes on, fails or restarts as what it was. *)
LEMMA JobEdits == ASSUME NEW r \in PackageJob
  PROVE  /\ \A pc \in {"prepare", "pip", "uv", "check", "revert", "commit", "save"} :
              LET e == [r EXCEPT !.pc = pc]
              IN  e \in PackageJob /\ e.pc = pc /\ e.st = r.st /\ e.op = r.op /\ e.want = r.want /\ e.todo = r.todo
                  /\ e.from = r.from
         /\ \A st \in {"failed", "restarting"} :
              LET e == [r EXCEPT !.st = st, !.pc = "none"]
              IN  e \in PackageJob /\ e.pc = "none" /\ e.st = st /\ e.op = r.op /\ e.want = r.want
                  /\ e.todo = r.todo /\ e.from = r.from
BY DEF PackageJob

(* Of what is to do one is done first. *)
LEMMA FirstIsOf == ASSUME NEW S, S # {} PROVE Packages!First(S) \in S
BY DEF Packages!First

(* A new folder of a package is one nothing is in. *)
LEMMA NewFolderIsNew == ASSUME DiskTypes, NEW p \in Pkgs, Packages!NewFolder(p) \in Folders
  PROVE  folders[p][Packages!NewFolder(p)] = "none"
  <1> DEFINE U == Packages!Used(p)
             n == Packages!NewFolder(p)
  <1>1. MaxFolders \in Nat /\ Folders = 1..MaxFolders
    BY PackagesConstants
  <1>2. U \subseteq 0..MaxFolders /\ \A m \in Folders : m \notin U => folders[p][m] = "none"
    BY <1>1 DEF Packages!Used
  <1>3. \A u \in U : u < n
    <2>1. CASE U = {}
      BY <2>1
    <2>2. CASE U # {}
      <3>1. \E x \in U : \A y \in U : x >= y
        <4> HIDE DEF U
        <4> QED
          BY <1>1, <1>2, <2>2, GreatestThere
      <3>2. Packages!Max(U) \in U /\ \A y \in U : Packages!Max(U) >= y
        <4> HIDE DEF U
        <4> QED
          BY <3>1 DEF Packages!Max
      <3>3. n = 1 + Packages!Max(U)
        BY <2>2 DEF Packages!NewFolder
      <3> HIDE DEF U, n
      <3> QED
        BY <1>1, <1>2, <3>2, <3>3
    <2> QED
      BY <2>1, <2>2
  <1> HIDE DEF U, n
  <1>4. n \in Folders /\ n \notin U
    <2>1. n \in Folders
      BY DEF n
    <2> QED
      BY <1>1, <1>3, <2>1
  <1> QED
    BY <1>2, <1>4 DEF n

(* The folder uv fills is one that is not whole yet. *)
LEMMA WrittenIsPartial == ASSUME NEW p \in Pkgs, \E n \in Folders : folders[p][n] = "partial"
  PROVE  Packages!Written(p) \in Folders /\ folders[p][Packages!Written(p)] = "partial"
  <1> DEFINE S == {n \in Folders : folders[p][n] = "partial"}
  <1>1. MaxFolders \in Nat /\ Folders = 1..MaxFolders
    BY PackagesConstants
  <1>2. S \subseteq 0..MaxFolders /\ S # {}
    BY <1>1
  <1>3. \E x \in S : \A y \in S : x >= y
    <2> HIDE DEF S
    <2> QED
      BY <1>1, <1>2, GreatestThere
  <1>4. PICK x \in S : \A y \in S : x >= y
    BY <1>3
  <1>5. x \in Folders /\ folders[p][x] = "partial" /\ \A m \in Folders : folders[p][m] = "partial" => m <= x
    BY <1>1, <1>4
  <1> QED
    BY <1>1, <1>5 DEF Packages!Written

\* A site whose links and what is in them stay, and sites that hold no more than some site did.
SiteKept(s) == \A p \in Pkgs : /\ site'[s][p] = site[s][p]
                               /\ site[s][p] # 0 => folders'[p][site[s][p]] = folders[p][site[s][p]]
NothingNew == \A s \in Packages!Sites : \E o \in Packages!Sites : \A p \in Pkgs :
  site'[s][p] # 0 => site'[s][p] = site[o][p] /\ folders'[p][site[o][p]] = folders[p][site[o][p]]

(* Sites that hold no more than some site did are as sound. *)
LEMMA NothingNewIsSound == ASSUME WholeInv, NamesInv, NothingNew PROVE WholeInv' /\ NamesInv'
  <1>1. Packages!Sites' = Packages!Sites /\ Pkgs' = Pkgs
    BY DEF Packages!Sites, Pkgs, Packages!Packages
  <1>2. WholeInv'
    BY <1>1 DEF WholeInv, NothingNew
  <1>3. NamesInv'
    <2> SUFFICES ASSUME NEW s \in Packages!Sites, NEW p \in Pkgs, NEW q \in Pkgs, p # q, site'[s][p] # 0,
                        site'[s][q] # 0
        PROVE ReleaseInfo[folders'[p][site'[s][p]]].names \cap ReleaseInfo[folders'[q][site'[s][q]]].names = {}
      BY <1>1 DEF NamesInv
    <2>1. PICK o \in Packages!Sites : \A x \in Pkgs :
            site'[s][x] # 0 => site'[s][x] = site[o][x] /\ folders'[x][site[o][x]] = folders[x][site[o][x]]
      BY DEF NothingNew
    <2>2. /\ site[o][p] # 0 /\ site[o][q] # 0 /\ site'[s][p] = site[o][p] /\ site'[s][q] = site[o][q]
          /\ folders'[p][site[o][p]] = folders[p][site[o][p]] /\ folders'[q][site[o][q]] = folders[q][site[o][q]]
      BY <2>1
    <2> QED
      BY <2>2 DEF NamesInv
  <1> QED
    BY <1>2, <1>3

(* The next site gets the links of the one that runs. *)
LEMMA PreparesDisk == ASSUME DiskTypes, Packages!Prepares
  PROVE  /\ link' = link /\ SiteKept(link) /\ \A p \in Pkgs : site'[Packages!next_site][p] = site[link][p]
         /\ DiskTypes' /\ NothingNew
  <1>0. link \in Packages!Sites /\ site[link] \in [Pkgs -> 0..MaxFolders] /\ Packages!next_site \in Packages!Sites
        /\ Packages!next_site # link /\ \A s \in Packages!Sites : s = link \/ s = Packages!next_site
    BY TwoSites DEF DiskTypes
  <1>1. /\ site' = [site EXCEPT ![Packages!next_site] = site[link]] /\ link' = link
        /\ site'[Packages!next_site] = site[link] /\ site'[link] = site[link]
    BY <1>0 DEF Packages!Prepares, DiskTypes
  <1>2. \A s \in Packages!Sites, p \in Pkgs : site'[s][p] = site[link][p]
    BY <1>0, <1>1
  <1>3. PICK stay \in BOOLEAN : folders' = [p \in Pkgs |-> [n \in 1..MaxFolders |->
            IF stay \/ \E s \in Packages!Sites : site'[s][p] = n THEN folders[p][n] ELSE "none"]]
    BY DEF Packages!Prepares, Pkgs
  <1>4. \A p \in Pkgs, n \in Folders :
          /\ folders'[p][n] = IF stay \/ \E s \in Packages!Sites : site'[s][p] = n THEN folders[p][n] ELSE "none"
          /\ folders'[p][n] \in {folders[p][n], "none"}
    BY <1>3 DEF Folders
  <1>5. \A p \in Pkgs : site[link][p] # 0 => folders'[p][site[link][p]] = folders[p][site[link][p]]
    <2> SUFFICES ASSUME NEW p \in Pkgs, site[link][p] # 0 PROVE folders'[p][site[link][p]] = folders[p][site[link][p]]
      OBVIOUS
    <2>1. site[link][p] \in Folders /\ site'[link][p] = site[link][p]
      BY <1>0, <1>1, PackagesConstants
    <2> QED
      BY <1>0, <1>4, <2>1
  <1>6. SiteKept(link) /\ NothingNew
    BY <1>0, <1>1, <1>2, <1>5 DEF SiteKept, NothingNew
  <1>7. DiskTypes'
    <2>1. folders' \in [Pkgs -> [Folders -> Published \cup {"none", "partial"}]]
      <3>1. \A p \in Pkgs : [n \in 1..MaxFolders |->
              IF stay \/ \E s \in Packages!Sites : site'[s][p] = n THEN folders[p][n] ELSE "none"]
              \in [Folders -> Published \cup {"none", "partial"}]
        BY DEF DiskTypes, Folders
      <3> QED
        BY <1>3, <3>1
    <2>2. \A p \in Pkgs, n \in Folders : folders'[p][n] \in Published => ReleaseInfo[folders'[p][n]].pkg = p
      BY <1>4, PackagesConstants DEF DiskTypes
    <2>3. site' \in [Packages!Sites -> [Pkgs -> 0..MaxFolders]]
      BY <1>0, <1>1 DEF DiskTypes
    <2>4. Packages!Sites' = Packages!Sites /\ Pkgs' = Pkgs /\ Folders' = Folders
      BY DEF Packages!Sites, Pkgs, Folders, Packages!Packages
    <2> QED
      BY <1>0, <1>1, <2>1, <2>2, <2>3, <2>4 DEF DiskTypes
  <1> QED
    BY <1>0, <1>1, <1>2, <1>6, <1>7

(* What uv starts to fill is nobody's yet. *)
LEMMA PipStartsDisk == ASSUME DiskTypes, WholeInv, job \in PackageJob, job.todo # {}, Packages!PipStarts
  PROVE  /\ link' = link /\ site' = site /\ SiteKept(link) /\ SiteKept(Packages!next_site) /\ DiskTypes' /\ NothingNew
         /\ \E n \in Folders : folders'[PkgOf(Packages!First(job.todo))][n] = "partial"
  <1> DEFINE p == PkgOf(Packages!First(job.todo))
             n == Packages!NewFolder(p)
  <1>0. p \in Pkgs /\ link \in Packages!Sites /\ Packages!next_site \in Packages!Sites
    <2>1. Packages!First(job.todo) \in Published
      BY FirstIsOf DEF PackageJob
    <2> QED
      BY <2>1, PackagesConstants, TwoSites DEF DiskTypes
  <1>1. n \in Folders /\ folders' = [folders EXCEPT ![p] = [folders[p] EXCEPT ![n] = "partial"]] /\ site' = site
        /\ link' = link
    BY DEF Packages!PipStarts, PkgOf, Folders
  <1>2. folders[p][n] = "none"
    BY <1>0, <1>1, NewFolderIsNew
  <1> HIDE DEF p, n
  <1>3. folders' \in [Pkgs -> [Folders -> Published \cup {"none", "partial"}]]
    BY <1>0, <1>1 DEF DiskTypes
  <1>4. \A q \in Pkgs, m \in Folders : folders'[q][m] = IF q = p /\ m = n THEN "partial" ELSE folders[q][m]
    BY <1>0, <1>1 DEF DiskTypes
  <1>5. \A s \in Packages!Sites, q \in Pkgs : site[s][q] # 0 => folders'[q][site[s][q]] = folders[q][site[s][q]]
    <2> SUFFICES ASSUME NEW s \in Packages!Sites, NEW q \in Pkgs, site[s][q] # 0
        PROVE folders'[q][site[s][q]] = folders[q][site[s][q]]
      OBVIOUS
    <2>1. site[s][q] \in Folders
      BY PackagesConstants DEF DiskTypes
    <2>2. folders[q][site[s][q]] \in Published
      BY DEF WholeInv
    <2> QED
      BY <1>2, <1>4, <2>1, <2>2, PackagesConstants
  <1>6. SiteKept(link) /\ SiteKept(Packages!next_site) /\ NothingNew
    BY <1>0, <1>1, <1>5 DEF SiteKept, NothingNew
  <1>7. DiskTypes'
    <2>1. \A q \in Pkgs, m \in Folders : folders'[q][m] \in Published => ReleaseInfo[folders'[q][m]].pkg = q
      BY <1>4, PackagesConstants DEF DiskTypes
    <2>2. Packages!Sites' = Packages!Sites /\ Pkgs' = Pkgs /\ Folders' = Folders
      BY DEF Packages!Sites, Pkgs, Folders, Packages!Packages
    <2> QED
      BY <1>1, <1>3, <2>1, <2>2 DEF DiskTypes
  <1> QED
    BY <1>0, <1>1, <1>4, <1>6, <1>7 DEF p

\* A release that came into a site, the rest of which stays.
ComesIn(r, s) ==
  /\ site'[s][PkgOf(r)] # 0 /\ folders'[PkgOf(r)][site'[s][PkgOf(r)]] = r
  /\ \A p \in Pkgs : p # PkgOf(r) =>
       site'[s][p] = site[s][p] /\ (site[s][p] # 0 => folders'[p][site[s][p]] = folders[p][site[s][p]])

(* What uv has filled is the release it was to get; unless another module has its name, the next site gets it. *)
LEMMA PipEndsDisk ==
  ASSUME DiskInv, job \in PackageJob, job.todo # {}, Packages!PipEnds,
         \E n \in Folders : folders[PkgOf(Packages!First(job.todo))][n] = "partial"
  PROVE  /\ link' = link /\ SiteKept(link) /\ DiskInv'
         /\ \/ Packages!Goes("revert") /\ SiteKept(Packages!next_site)
            \/ /\ ComesIn(Packages!First(job.todo), Packages!next_site)
               /\ job' = [job EXCEPT !.todo = job.todo \ {Packages!First(job.todo)},
                                     !.pc = IF Packages!Cardinality(job.todo) < 2 THEN "check" ELSE "pip"]
  <1> DEFINE r == Packages!First(job.todo)
             p == PkgOf(r)
             n == Packages!Written(p)
             nx == Packages!next_site
  <1>0. /\ r \in Published /\ p \in Pkgs /\ link \in Packages!Sites /\ nx \in Packages!Sites /\ nx # link
        /\ \A s \in Packages!Sites : s = link \/ s = nx
    <2>1. r \in Published
      BY FirstIsOf DEF PackageJob
    <2> QED
      BY <2>1, PackagesConstants, TwoSites DEF DiskInv, DiskTypes
  <1>1. n \in Folders /\ folders[p][n] = "partial"
    BY <1>0, WrittenIsPartial
  <1>2. /\ link' = link /\ folders' = [folders EXCEPT ![p] = [folders[p] EXCEPT ![n] = r]]
        /\ \/ Packages!Goes("revert") /\ site' = site
           \/ /\ ~Packages!Clash(r) /\ site' = [site EXCEPT ![nx] = [site[nx] EXCEPT ![p] = n]]
              /\ job' = [job EXCEPT !.todo = job.todo \ {r},
                                    !.pc = IF Packages!Cardinality(job.todo) < 2 THEN "check" ELSE "pip"]
    BY DEF Packages!PipEnds, PkgOf
  <1>3. n # 0 /\ n \in 0..MaxFolders
    BY <1>1, PackagesConstants DEF Folders
  <1> HIDE DEF r, p, n, nx
  <1>4. /\ folders' \in [Pkgs -> [Folders -> Published \cup {"none", "partial"}]]
        /\ \A q \in Pkgs, m \in Folders : folders'[q][m] = IF q = p /\ m = n THEN r ELSE folders[q][m]
    BY <1>0, <1>1, <1>2 DEF DiskInv, DiskTypes
  <1>5. \A s \in Packages!Sites, q \in Pkgs :
          site[s][q] # 0 => folders'[q][site[s][q]] = folders[q][site[s][q]] /\ ~(q = p /\ site[s][q] = n)
    <2> SUFFICES ASSUME NEW s \in Packages!Sites, NEW q \in Pkgs, site[s][q] # 0
        PROVE folders'[q][site[s][q]] = folders[q][site[s][q]] /\ ~(q = p /\ site[s][q] = n)
      OBVIOUS
    <2>1. site[s][q] \in Folders
      BY PackagesConstants DEF DiskInv, DiskTypes
    <2>2. folders[q][site[s][q]] \in Published
      BY DEF DiskInv, WholeInv
    <2> QED
      BY <1>1, <1>4, <2>1, <2>2, PackagesConstants
  <1>6. site'[link] = site[link] /\ SiteKept(link)
    <2>1. site'[link] = site[link]
      BY <1>0, <1>2 DEF DiskInv, DiskTypes
    <2> QED
      BY <1>0, <1>5, <2>1 DEF SiteKept
  <1>7. DiskTypes'
    <2>1. p = ReleaseInfo[r].pkg
      BY DEF p, PkgOf
    <2>2. \A q \in Pkgs, m \in Folders : folders'[q][m] \in Published => ReleaseInfo[folders'[q][m]].pkg = q
      BY <1>4, <2>1 DEF DiskInv, DiskTypes
    <2>3. site' \in [Packages!Sites -> [Pkgs -> 0..MaxFolders]]
      <3>1. [site[nx] EXCEPT ![p] = n] \in [Pkgs -> 0..MaxFolders]
        BY <1>0, <1>3 DEF DiskInv, DiskTypes
      <3> QED
        BY <1>0, <1>2, <3>1 DEF DiskInv, DiskTypes
    <2>4. Packages!Sites' = Packages!Sites /\ Pkgs' = Pkgs /\ Folders' = Folders
      BY DEF Packages!Sites, Pkgs, Folders, Packages!Packages
    <2> QED
      BY <1>2, <1>4, <2>2, <2>3, <2>4 DEF DiskInv, DiskTypes
  <1>8. CASE Packages!Goes("revert") /\ site' = site
    <2>1. SiteKept(nx) /\ NothingNew
      BY <1>0, <1>5, <1>8 DEF SiteKept, NothingNew
    <2> QED
      BY <1>2, <1>6, <1>7, <1>8, <2>1, NothingNewIsSound DEF DiskInv, nx
  <1>9. CASE /\ ~Packages!Clash(r) /\ site' = [site EXCEPT ![nx] = [site[nx] EXCEPT ![p] = n]]
             /\ job' = [job EXCEPT !.todo = job.todo \ {r},
                                   !.pc = IF Packages!Cardinality(job.todo) < 2 THEN "check" ELSE "pip"]
    <2>1. /\ site'[nx][p] = n /\ \A q \in Pkgs : q # p => site'[nx][q] = site[nx][q]
      <3>1. site[nx] \in [Pkgs -> 0..MaxFolders] /\ site'[nx] = [site[nx] EXCEPT ![p] = n]
        BY <1>0, <1>9 DEF DiskInv, DiskTypes
      <3> QED
        BY <1>0, <3>1
    <2>2. folders'[p][n] = r
      BY <1>0, <1>1, <1>4
    <2>3. ComesIn(r, nx)
      BY <1>0, <1>3, <1>5, <2>1, <2>2 DEF ComesIn, p
    <2>4. \A q \in Pkgs : q # p /\ site[nx][q] # 0
          => ReleaseInfo[folders[q][site[nx][q]]].names \cap ReleaseInfo[r].names = {}
      BY <1>9, PackagesConstants DEF Packages!Clash, Packages!Installed, PkgOf, p, nx
    <2>5. \A s \in Packages!Sites, q \in Pkgs : site'[s][q] # 0 =>
            \/ s = nx /\ q = p /\ site'[s][q] = n /\ folders'[q][site'[s][q]] = r
            \/ (s # nx \/ q # p) /\ site'[s][q] = site[s][q] /\ folders'[q][site'[s][q]] = folders[q][site[s][q]]
      <3> SUFFICES ASSUME NEW s \in Packages!Sites, NEW q \in Pkgs, site'[s][q] # 0
          PROVE \/ s = nx /\ q = p /\ site'[s][q] = n /\ folders'[q][site'[s][q]] = r
                \/ (s # nx \/ q # p) /\ site'[s][q] = site[s][q] /\ folders'[q][site'[s][q]] = folders[q][site[s][q]]
        OBVIOUS
      <3>1. CASE s = nx /\ q = p
        BY <2>1, <2>2, <3>1
      <3>2. CASE s # nx \/ q # p
        <4>1. site'[s][q] = site[s][q]
          BY <1>0, <1>6, <2>1, <3>2
        <4> QED
          BY <1>5, <3>2, <4>1
      <3> QED
        BY <3>1, <3>2
    <2>6. Packages!Sites' = Packages!Sites /\ Pkgs' = Pkgs
      BY DEF Packages!Sites, Pkgs, Packages!Packages
    <2>7. WholeInv'
      <3>1. \A s \in Packages!Sites, q \in Pkgs : site'[s][q] # 0 => folders'[q][site'[s][q]] \in Published
        BY <1>0, <2>5 DEF DiskInv, WholeInv
      <3> QED
        BY <2>6, <3>1 DEF WholeInv
    <2>8. NamesInv'
      <3> SUFFICES ASSUME NEW s \in Packages!Sites, NEW x \in Pkgs, NEW y \in Pkgs, x # y, site'[s][x] # 0,
                          site'[s][y] # 0
          PROVE ReleaseInfo[folders'[x][site'[s][x]]].names \cap ReleaseInfo[folders'[y][site'[s][y]]].names = {}
        BY <2>6 DEF NamesInv
      <3>1. CASE s = nx /\ x = p
        <4>1. folders'[x][site'[s][x]] = r /\ folders'[y][site'[s][y]] = folders[y][site[s][y]] /\ site[nx][y] # 0
          BY <2>5, <3>1
        <4> QED
          BY <2>4, <3>1, <4>1
      <3>2. CASE s = nx /\ y = p
        <4>1. folders'[y][site'[s][y]] = r /\ folders'[x][site'[s][x]] = folders[x][site[s][x]] /\ site[nx][x] # 0
          BY <2>5, <3>2
        <4> QED
          BY <2>4, <3>2, <4>1
      <3>3. CASE ~(s = nx /\ (x = p \/ y = p))
        <4>1. /\ folders'[y][site'[s][y]] = folders[y][site[s][y]] /\ site[s][y] # 0
              /\ folders'[x][site'[s][x]] = folders[x][site[s][x]] /\ site[s][x] # 0
          BY <2>5, <3>3
        <4> QED
          BY <4>1 DEF DiskInv, NamesInv
      <3> QED
        BY <3>1, <3>2, <3>3
    <2> QED
      BY <1>2, <1>6, <1>7, <1>9, <2>3, <2>7, <2>8 DEF DiskInv, r, nx
  <1> QED
    BY <1>2, <1>8, <1>9

(* What is taken out or thrown away is of the next site only. *)
LEMMA RemovesDisk == ASSUME DiskTypes, job \in PackageJob, Packages!PipUninstalls \/ Packages!Reverts
  PROVE  /\ link' = link /\ folders' = folders /\ SiteKept(link) /\ DiskTypes' /\ NothingNew
         /\ \A p \in Pkgs : site'[Packages!next_site][p] \in {0, site[Packages!next_site][p]}
  <1> DEFINE nx == Packages!next_site
  <1>0. /\ link \in Packages!Sites /\ nx \in Packages!Sites /\ nx # link
        /\ \A s \in Packages!Sites : s = link \/ s = nx
    BY TwoSites DEF DiskTypes
  <1>1. /\ link' = link /\ folders' = folders
        /\ \E l : site' = [site EXCEPT ![nx] = l] /\ l \in [Pkgs -> 0..MaxFolders]
                  /\ \A p \in Pkgs : l[p] \in {0, site[nx][p]}
    <2>1. CASE Packages!PipUninstalls
      <3>1. site[nx] \in [Pkgs -> 0..MaxFolders] /\ 0 \in 0..MaxFolders
        BY <1>0, PackagesConstants DEF DiskTypes
      <3>2. site' = [site EXCEPT ![nx] = [site[nx] EXCEPT ![ReleaseInfo[Packages!First(job.todo)].pkg] = 0]]
        BY <2>1, PackagesConstants DEF Packages!PipUninstalls
      <3> QED
        BY <2>1, <3>1, <3>2 DEF Packages!PipUninstalls
    <2>2. CASE Packages!Reverts
      <3>1. [p \in Pkgs |-> 0] \in [Pkgs -> 0..MaxFolders]
        BY PackagesConstants
      <3>2. site' = [site EXCEPT ![nx] = [p \in Pkgs |-> 0]]
        BY <2>2, PackagesConstants DEF Packages!Reverts
      <3> QED
        BY <2>2, <3>1, <3>2 DEF Packages!Reverts
    <2> QED
      BY <2>1, <2>2
  <1>2. PICK l : /\ site' = [site EXCEPT ![nx] = l] /\ l \in [Pkgs -> 0..MaxFolders]
                 /\ \A p \in Pkgs : l[p] \in {0, site[nx][p]}
    BY <1>1
  <1>3. site'[nx] = l /\ site'[link] = site[link] /\ site' \in [Packages!Sites -> [Pkgs -> 0..MaxFolders]]
    BY <1>0, <1>2 DEF DiskTypes
  <1>4. DiskTypes'
    <2>1. Packages!Sites' = Packages!Sites /\ Pkgs' = Pkgs /\ Folders' = Folders
      BY DEF Packages!Sites, Pkgs, Folders, Packages!Packages
    <2> QED
      BY <1>1, <1>3, <2>1 DEF DiskTypes
  <1> HIDE DEF nx
  <1>5. SiteKept(link) /\ NothingNew /\ \A p \in Pkgs : site'[nx][p] \in {0, site[nx][p]}
    <2>1. SiteKept(link)
      BY <1>1, <1>3 DEF SiteKept
    <2>2. \A s \in Packages!Sites, p \in Pkgs : site'[s][p] # 0 => site'[s][p] = site[s][p]
      BY <1>0, <1>2, <1>3
    <2>3. NothingNew
      BY <1>1, <2>2 DEF NothingNew
    <2> QED
      BY <1>2, <1>3, <2>1, <2>3
  <1> QED
    BY <1>1, <1>4, <1>5 DEF nx

SameDisk == folders' = folders /\ site' = site /\ link' = link
\* The steps of the job that are of the job alone, the requests for one, and what happens beside it.
JobOnly == Packages!Pins \/ Packages!PipFails \/ Packages!Checks
Asking == (\E r \in Published : Packages!Install(r)) \/ (\E todo \in Packages!Updates : Packages!Update(todo))
          \/ \E p \in Pkgs : Packages!Uninstall(p)
Restarting == Packages!RestartDue \/ Packages!Restarts
Beside == \/ Packages!PagePolls
          \/ \E p \in Pkgs : Packages!InstanceStarts(p) \/ Packages!Adds(p) \/ Packages!SetScripts(p)
Removing == Packages!PipUninstalls \/ Packages!Reverts

(* Every step is one of these. *)
LEMMA PackagesSteps == ASSUME [Packages!Next]_PackagesVars
  PROVE  \/ JobOnly \/ Asking \/ Restarting \/ Beside \/ Removing \/ Packages!Prepares \/ Packages!PipStarts
         \/ Packages!PipEnds \/ Packages!Commits \/ Packages!Saves \/ Packages!HostRestarts \/ UNCHANGED PackagesVars
BY DEF Packages!Next, Packages!JobStep, JobOnly, Asking, Restarting, Beside, Removing, Pkgs

(* Most of them leave the disk as it is. *)
LEMMA MostKeepDisk ==
  ASSUME JobOnly \/ Asking \/ Restarting \/ Beside \/ Packages!Saves \/ UNCHANGED PackagesVars
  PROVE  SameDisk
BY DEF JobOnly, Packages!Pins, Packages!PipFails, Packages!Checks, Asking, Packages!Install, Packages!Update,
       Packages!Uninstall, Packages!Asks, Restarting, Packages!RestartDue, Packages!Restarts, Packages!Starts, Beside,
       Packages!PagePolls, Packages!InstanceStarts, Packages!Adds, Packages!SetScripts, Packages!Saves, SameDisk,
       Packages!disk, PackagesVars

(* Whatever happens, both sites are sound. *)
LEMMA DiskStep == ASSUME DiskInv, StepInv, job \in PackageJob, [Packages!Next]_PackagesVars PROVE DiskInv'
  <1>0. Packages!Sites' = Packages!Sites /\ Pkgs' = Pkgs /\ Folders' = Folders
    BY DEF Packages!Sites, Pkgs, Folders, Packages!Packages
  <1>1. ASSUME folders' = folders, site' = site, link' \in Packages!Sites PROVE DiskInv'
    <2>1. NothingNew
      BY <1>1 DEF NothingNew
    <2>2. DiskTypes'
      BY <1>0, <1>1 DEF DiskTypes, DiskInv
    <2> QED
      BY <2>1, <2>2, NothingNewIsSound DEF DiskInv
  <1>2. CASE SameDisk
    BY <1>1, <1>2 DEF SameDisk, DiskInv, DiskTypes
  <1>3. CASE Packages!Prepares
    BY <1>3, PreparesDisk, NothingNewIsSound DEF DiskInv
  <1>4. CASE Packages!PipStarts
    <2>1. job.todo # {}
      BY <1>4 DEF StepInv, Packages!PipStarts, Packages!At
    <2> QED
      BY <1>4, <2>1, PipStartsDisk, NothingNewIsSound DEF DiskInv
  <1>5. CASE Packages!PipEnds
    <2>1. job.todo # {} /\ \E n \in Folders : folders[PkgOf(Packages!First(job.todo))][n] = "partial"
      BY <1>5 DEF StepInv, Packages!PipEnds, Packages!At
    <2> QED
      BY <1>5, <2>1, PipEndsDisk
  <1>6. CASE Removing
    BY <1>6, RemovesDisk, NothingNewIsSound DEF DiskInv, Removing
  <1>7. CASE Packages!Commits \/ Packages!HostRestarts
    <2>1. folders' = folders /\ site' = site
      BY <1>7 DEF Packages!Commits, Packages!HostRestarts
    <2>2. link' \in Packages!Sites
      BY <1>7, TwoSites DEF Packages!Commits, Packages!HostRestarts, DiskInv, DiskTypes
    <2> QED
      BY <1>1, <2>1, <2>2
  <1> QED
    BY <1>2, <1>3, <1>4, <1>5, <1>6, <1>7, PackagesSteps, MostKeepDisk

(* What is started is what the linked site says. *)
LEMMA StartedIs == ASSUME DiskTypes
  PROVE  /\ Packages!Started \in [Pkgs -> 0..MaxFolders]
         /\ \A p \in Pkgs : Packages!Started[p] \in {0, site[link][p]}
  <1>1. site[link] \in [Pkgs -> 0..MaxFolders] /\ 0 \in 0..MaxFolders
    BY PackagesConstants DEF DiskTypes
  <1>2. Packages!Started = [p \in Pkgs |-> IF p \in have THEN site[link][p] ELSE 0]
    BY PackagesConstants DEF Packages!Started
  <1> QED
    BY <1>1, <1>2

(* Of one or two or more releases to do, one is done. *)
LEMMA SmallTodo == ASSUME NEW S, IsFiniteSet(S), NEW x \in S
  PROVE  /\ Packages!Cardinality(S) < 2 => S \ {x} = {}
         /\ ~(Packages!Cardinality(S) < 2) => S \ {x} # {}
  <1>1. Packages!Cardinality(S) = Cardinality(S)
    BY DEF Packages!Cardinality, Cardinality
  <1>2. IsFiniteSet(S \ {x}) /\ Cardinality(S \ {x}) = Cardinality(S) - 1 /\ Cardinality(S) \in Nat
    BY FS_RemoveElement, FS_CardinalityType
  <1>3. Cardinality(S \ {x}) \in Nat /\ (Cardinality(S \ {x}) = 0 <=> S \ {x} = {})
    BY <1>2, FS_CardinalityType, FS_EmptySet
  <1> QED
    BY <1>1, <1>2, <1>3

\* Where the job goes, as what it was.
GoesTo(st, pc) == job'.st = st /\ job'.pc = pc
SameJob == job'.op = job.op /\ job'.want = job.want /\ job'.from = job.from

(* The steps of the job as where it is and goes. *)
LEMMA JobMoves == ASSUME job \in PackageJob, StepInv
  PROVE  /\ Packages!Pins => /\ Packages!At("pin") /\ SameJob /\ job'.todo = job.todo /\ job' \in PackageJob
                             /\ GoesTo("running", "prepare") \/ GoesTo("failed", "none")
         /\ Packages!Prepares => /\ Packages!At("prepare") /\ SameJob /\ job'.todo = job.todo /\ job' \in PackageJob
                                 /\ GoesTo("running", "pip")
         /\ Packages!PipStarts => /\ Packages!At("pip") /\ SameJob /\ job'.todo = job.todo /\ job' \in PackageJob
                                  /\ GoesTo("running", "uv") /\ job.op # "uninstall"
         /\ Packages!PipFails => /\ Packages!At("uv") /\ SameJob /\ job'.todo = job.todo /\ job' \in PackageJob
                                 /\ GoesTo("running", "revert")
         /\ Packages!PipUninstalls => /\ Packages!At("pip") /\ SameJob /\ job'.todo = job.todo /\ job' \in PackageJob
                                      /\ GoesTo("running", "commit") /\ job.op = "uninstall"
         /\ Packages!Checks => /\ Packages!At("check") /\ SameJob /\ job'.todo = job.todo /\ job' \in PackageJob
                               /\ GoesTo("running", "revert") \/ GoesTo("running", "commit")
         /\ Packages!Reverts => /\ Packages!At("revert") /\ SameJob /\ job'.todo = job.todo /\ job' \in PackageJob
                                /\ GoesTo("failed", "none")
         /\ Packages!Commits => /\ Packages!At("commit") /\ SameJob /\ job'.todo = job.todo /\ job' \in PackageJob
                                /\ GoesTo("running", "save")
         /\ Packages!Saves => /\ Packages!At("save") /\ SameJob /\ job'.todo = job.todo /\ job' \in PackageJob
                              /\ GoesTo("restarting", "none")
         /\ Packages!HostRestarts =>
              \/ job' = job /\ (job.st # "running" \/ job.pc \in {"pin", "save"})
              \/ /\ job.st = "running" /\ job.pc \notin {"pin", "save"} /\ GoesTo("failed", "none") /\ SameJob
                 /\ job' \in PackageJob /\ job'.todo = job.todo
  <1>1. ASSUME NEW pc \in {"prepare", "pip", "uv", "check", "revert", "commit", "save"}, Packages!Goes(pc)
        PROVE job' \in PackageJob /\ job'.pc = pc /\ job'.st = job.st /\ SameJob /\ job'.todo = job.todo
    BY <1>1 DEF PackageJob, Packages!Goes, SameJob
  <1>2. ASSUME NEW st \in {"failed", "restarting"}, job' = [job EXCEPT !.st = st, !.pc = "none"]
        PROVE job' \in PackageJob /\ GoesTo(st, "none") /\ SameJob /\ job'.todo = job.todo
    BY <1>2 DEF PackageJob, SameJob, GoesTo
  <1>3. ASSUME Packages!Fails PROVE job' \in PackageJob /\ GoesTo("failed", "none") /\ SameJob /\ job'.todo = job.todo
    BY <1>2, <1>3 DEF Packages!Fails
  <1>4. Packages!Pins => /\ Packages!At("pin") /\ SameJob /\ job'.todo = job.todo /\ job' \in PackageJob
                         /\ GoesTo("running", "prepare") \/ GoesTo("failed", "none")
    BY <1>1, <1>3 DEF Packages!Pins, Packages!At, GoesTo
  <1>5. Packages!Prepares => /\ Packages!At("prepare") /\ SameJob /\ job'.todo = job.todo /\ job' \in PackageJob
                             /\ GoesTo("running", "pip")
    BY <1>1 DEF Packages!Prepares, Packages!At, GoesTo
  <1>6. Packages!PipStarts => /\ Packages!At("pip") /\ SameJob /\ job'.todo = job.todo /\ job' \in PackageJob
                              /\ GoesTo("running", "uv") /\ job.op # "uninstall"
    BY <1>1 DEF Packages!PipStarts, Packages!At, GoesTo
  <1>7. Packages!PipFails => /\ Packages!At("uv") /\ SameJob /\ job'.todo = job.todo /\ job' \in PackageJob
                             /\ GoesTo("running", "revert")
    BY <1>1 DEF Packages!PipFails, Packages!At, GoesTo
  <1>8. Packages!PipUninstalls => /\ Packages!At("pip") /\ SameJob /\ job'.todo = job.todo /\ job' \in PackageJob
                                  /\ GoesTo("running", "commit") /\ job.op = "uninstall"
    BY <1>1 DEF Packages!PipUninstalls, Packages!At, GoesTo
  <1>9. Packages!Checks => /\ Packages!At("check") /\ SameJob /\ job'.todo = job.todo /\ job' \in PackageJob
                           /\ GoesTo("running", "revert") \/ GoesTo("running", "commit")
    <2> SUFFICES ASSUME Packages!Checks
        PROVE /\ Packages!At("check") /\ SameJob /\ job'.todo = job.todo /\ job' \in PackageJob
              /\ GoesTo("running", "revert") \/ GoesTo("running", "commit")
      OBVIOUS
    <2>1. Packages!At("check") /\ (Packages!Goes("revert") \/ Packages!Goes("commit"))
      BY DEF Packages!Checks
    <2> QED
      BY <1>1, <2>1 DEF Packages!At, GoesTo
  <1>10. Packages!Reverts => /\ Packages!At("revert") /\ SameJob /\ job'.todo = job.todo /\ job' \in PackageJob
                             /\ GoesTo("failed", "none")
    BY <1>3 DEF Packages!Reverts, Packages!At, GoesTo
  <1>11. Packages!Commits => /\ Packages!At("commit") /\ SameJob /\ job'.todo = job.todo /\ job' \in PackageJob
                             /\ GoesTo("running", "save")
    BY <1>1 DEF Packages!Commits, Packages!At, GoesTo
  <1>12. Packages!Saves => /\ Packages!At("save") /\ SameJob /\ job'.todo = job.todo /\ job' \in PackageJob
                           /\ GoesTo("restarting", "none")
    BY <1>2 DEF Packages!Saves, Packages!At, GoesTo
  <1>13. Packages!HostRestarts =>
           \/ job' = job /\ (job.st # "running" \/ job.pc \in {"pin", "save"})
           \/ /\ job.st = "running" /\ job.pc \notin {"pin", "save"} /\ GoesTo("failed", "none") /\ SameJob
              /\ job' \in PackageJob /\ job'.todo = job.todo
    BY <1>3 DEF Packages!HostRestarts
  <1> QED
    BY <1>4, <1>5, <1>6, <1>7, <1>8, <1>9, <1>10, <1>11, <1>12, <1>13

(* What uv has filled is done, or the whole change is to be reverted. *)
LEMMA PipEndsMoves == ASSUME DiskInv, job \in PackageJob, StepInv, Packages!PipEnds
  PROVE  /\ Packages!At("uv") /\ SameJob /\ job' \in PackageJob /\ job.todo # {} /\ job'.st = "running"
         /\ \/ job'.pc = "revert" /\ job'.todo = job.todo
            \/ /\ job'.todo = job.todo \ {Packages!First(job.todo)}
               /\ ComesIn(Packages!First(job.todo), Packages!next_site)
               /\ job'.pc = IF job'.todo = {} THEN "check" ELSE "pip"
  <1> DEFINE r == Packages!First(job.todo)
             pc == IF Packages!Cardinality(job.todo) < 2 THEN "check" ELSE "pip"
  <1>1. Packages!At("uv") /\ job.todo # {} /\ \E n \in Folders : folders[PkgOf(r)][n] = "partial"
    BY DEF StepInv, Packages!PipEnds, Packages!At
  <1>2. r \in job.todo /\ r \in Published /\ IsFiniteSet(job.todo) /\ job.todo \ {r} \in SUBSET Published
    <2>1. job.todo \in SUBSET Published
      BY DEF PackageJob
    <2> QED
      BY <1>1, <2>1, FirstIsOf, PackagesConstants, FS_Subset
  <1>3. \/ Packages!Goes("revert")
        \/ ComesIn(r, Packages!next_site) /\ job' = [job EXCEPT !.todo = job.todo \ {r}, !.pc = pc]
    BY <1>1, PipEndsDisk
  <1>4. pc = IF job.todo \ {r} = {} THEN "check" ELSE "pip"
    BY <1>2, SmallTodo
  <1>5. CASE Packages!Goes("revert")
    BY <1>1, <1>5 DEF PackageJob, Packages!Goes, Packages!At, SameJob
  <1>6. CASE ComesIn(r, Packages!next_site) /\ job' = [job EXCEPT !.todo = job.todo \ {r}, !.pc = pc]
    <2> HIDE DEF pc
    <2>1. pc \in {"check", "pip"}
      BY DEF pc
    <2>2. job'.todo = job.todo \ {r} /\ job'.pc = pc /\ job'.st = "running" /\ SameJob /\ job' \in PackageJob
      BY <1>1, <1>2, <1>6, <2>1 DEF PackageJob, Packages!At, SameJob
    <2> QED
      BY <1>1, <1>4, <1>6, <2>2
  <1> QED
    BY <1>3, <1>5, <1>6

(* Who asks for a job gets one that is only to begin, and only when none runs or is about to restart the app. *)
LEMMA AskingMoves == ASSUME DiskInv, RestTypes, Asking
  PROVE  /\ job.st \in {"idle", "failed"} /\ job' \in PackageJob /\ job'.st = "running" /\ job'.pc \in {"pin",
            "prepare"}
         /\ job'.todo = job'.want /\ job'.todo # {} /\ job'.from = site[link]
         /\ \A r, s \in job'.want : PkgOf(r) = PkgOf(s) => r = s
         /\ job'.pc = "pin" => job'.op = "install"
         /\ job'.op = "update" => \A r \in job'.todo : /\ site[link][PkgOf(r)] # 0
                                                       /\ ReleaseInfo[r].from = Origin(link, PkgOf(r))
         /\ running' = running /\ have' = have /\ scripts' = scripts /\ trusted' = trusted /\ torn' = torn
         /\ left' \in JobBounds /\ left'.hurry = 0
         /\ page' \in [st : {"none", "follows", "success", "failed"}, over : BOOLEAN, done : BOOLEAN]
  <1>1. ASSUME NEW op \in {"install", "update", "uninstall"}, NEW todo \in SUBSET Published,
               NEW pc \in {"pin", "prepare"}, Packages!Asks(op, todo, pc)
        PROVE  /\ job.st \in {"idle", "failed"} /\ job' \in PackageJob /\ job'.st = "running" /\ job'.pc = pc
               /\ job'.todo = todo /\ job'.want = todo /\ job'.op = op /\ job'.from = site[link]
               /\ running' = running /\ have' = have /\ scripts' = scripts /\ trusted' = trusted /\ torn' = torn
               /\ left' \in JobBounds /\ left'.hurry = 0
               /\ page' \in [st : {"none", "follows", "success", "failed"}, over : BOOLEAN, done : BOOLEAN]
    <2>1. job.st \in {"idle", "failed"}
      <3>1. ~(left.hurry > 0) /\ job.st \in {"idle", "running", "restarting", "failed"}
        BY DEF RestTypes, PackageJob
      <3> QED
        BY <1>1, <3>1 DEF Packages!Asks, Packages!MayAsk
    <2>2. left' \in JobBounds /\ left'.hurry = 0
      BY <1>1, Happening DEF Packages!Asks
    <2>3. job' \in PackageJob /\ job'.st = "running" /\ job'.pc = pc /\ job'.todo = todo /\ job'.want = todo
          /\ job'.op = op /\ job'.from = site[link]
      <3>1. site[link] \in [Pkgs -> 0..MaxFolders]
        BY DEF DiskInv, DiskTypes
      <3> QED
        BY <1>1, <3>1 DEF Packages!Asks, PackageJob
    <2>4. page' = [st |-> "follows", over |-> FALSE, done |-> FALSE]
      BY <1>1 DEF Packages!Asks
    <2>5. running' = running /\ have' = have /\ scripts' = scripts /\ trusted' = trusted /\ torn' = torn
      BY <1>1 DEF Packages!Asks, Packages!config
    <2> QED
      BY <2>1, <2>2, <2>3, <2>4, <2>5
  <1>2. CASE \E r \in Published : Packages!Install(r)
    <2>1. PICK r \in Published : Packages!Asks("install", {r}, "pin")
      BY <1>2 DEF Packages!Install
    <2> QED
      BY <1>1, <2>1
  <1>3. CASE \E todo \in Packages!Updates : Packages!Update(todo)
    <2>1. PICK todo \in Packages!Updates : Packages!Update(todo)
      BY <1>3
    <2>2. /\ Packages!Asks("update", todo, "prepare") /\ todo \in SUBSET Published /\ todo # {}
          /\ \A r, s \in todo : PkgOf(r) = PkgOf(s) => r = s
      BY <2>1 DEF Packages!Update, Packages!Updates, PkgOf
    <2>3. \A r \in todo : site[link][PkgOf(r)] # 0 /\ ReleaseInfo[r].from = Origin(link, PkgOf(r))
      BY <2>1, PackagesConstants DEF Packages!Update, PkgOf, Origin, Packages!Installed
    <2> QED
      BY <1>1, <2>2, <2>3
  <1>4. CASE \E p \in Pkgs : Packages!Uninstall(p)
    <2>1. PICK p \in Pkgs : site[link][p] # 0 /\ Packages!Asks("uninstall", {folders[p][site[link][p]]}, "prepare")
      BY <1>4, PackagesConstants DEF Packages!Uninstall, Packages!Installed
    <2>2. folders[p][site[link][p]] \in Published
      BY <2>1 DEF DiskInv, DiskTypes, WholeInv
    <2>3. {folders[p][site[link][p]]} \in SUBSET Published
      BY <2>2
    <2> QED
      BY <1>1, <2>1, <2>3
  <1> QED
    BY <1>2, <1>3, <1>4 DEF Asking

(* A restart of the app, or of the module host, starts what is linked then. *)
LEMMA StartedAfter == ASSUME DiskTypes'
  PROVE  /\ Packages!Started' \in [Pkgs -> 0..MaxFolders]
         /\ \A p \in Pkgs : Packages!Started'[p] \in {0, site'[link'][p]}
  <1>1. site'[link'] \in [Pkgs -> 0..MaxFolders] /\ 0 \in 0..MaxFolders
    BY PackagesConstants DEF DiskTypes, Pkgs, Packages!Packages, Packages!Sites
  <1>2. Packages!Started' = [p \in Pkgs |-> IF p \in have' THEN site'[link'][p] ELSE 0]
    BY PackagesConstants DEF Packages!Started, Packages!Packages, Pkgs, Packages!NoFolder
  <1> QED
    BY <1>1, <1>2

(* What runs changes with a restart, of the app or the host or an instance. *)
LEMMA RunningMoves == ASSUME DiskTypes, DiskTypes', running \in [Pkgs -> 0..MaxFolders], [Packages!Next]_PackagesVars
  PROVE  /\ running' \in [Pkgs -> 0..MaxFolders]
         /\ \/ \A p \in Pkgs : running'[p] \in {0, site'[link'][p]}
            \/ job' = job /\ SameDisk /\ \A p \in Pkgs : running'[p] \in {running[p], 0, site[link][p]}
            \/ running' = running /\ ~Packages!HostRestarts /\ ~Restarting
  <1>1. CASE Restarting
    <2>1. running' = Packages!Started /\ SameDisk
      BY <1>1, MostKeepDisk DEF Restarting, Packages!RestartDue, Packages!Restarts, Packages!Starts
    <2> QED
      BY <2>1, StartedIs DEF SameDisk
  <1>2. CASE Packages!HostRestarts
    <2>1. running' = Packages!Started'
      BY <1>2 DEF Packages!HostRestarts
    <2> QED
      BY <2>1, StartedAfter
  <1>3. ASSUME NEW p \in Pkgs, Packages!Adds(p) \/ Packages!SetScripts(p)
        PROVE running' = Packages!Started' \/ (running' = Packages!Started /\ SameDisk)
    <2>1. SameDisk
      BY <1>3, MostKeepDisk DEF Beside
    <2> QED
      BY <1>3, <2>1 DEF Packages!Adds, Packages!SetScripts
  <1>4. ASSUME NEW p \in Pkgs, Packages!InstanceStarts(p)
        PROVE /\ running' \in [Pkgs -> 0..MaxFolders]
              /\ job' = job /\ SameDisk /\ \A q \in Pkgs : running'[q] \in {running[q], 0, site[link][q]}
    <2>1. running' = [running EXCEPT ![p] = Packages!Started[p]] /\ job' = job /\ SameDisk
      BY <1>4, MostKeepDisk DEF Beside, Packages!InstanceStarts
    <2>2. Packages!Started[p] \in 0..MaxFolders /\ Packages!Started[p] \in {0, site[link][p]}
      BY StartedIs
    <2> QED
      BY <2>1, <2>2
  <1>5. CASE Beside
    <2>1. CASE Packages!PagePolls
      BY <1>5, <2>1, MostKeepDisk DEF Packages!PagePolls
    <2>2. CASE \E p \in Pkgs : Packages!Adds(p) \/ Packages!SetScripts(p)
      <3>1. running' = Packages!Started' \/ (running' = Packages!Started /\ SameDisk)
        BY <1>3, <2>2
      <3> QED
        BY <3>1, StartedIs, StartedAfter DEF SameDisk
    <2> QED
      BY <1>4, <1>5, <2>1, <2>2 DEF Beside
  <1>6. CASE running' = running /\ ~Packages!HostRestarts /\ ~Restarting
    BY <1>6
  <1>7. running' = running \/ Restarting \/ Packages!HostRestarts \/ Beside
    BY PackagesSteps
    DEF JobOnly, Packages!Pins, Packages!PipFails, Packages!Checks, Asking, Packages!Install, Packages!Update,
       Packages!Uninstall, Packages!Asks, Packages!Prepares, Packages!PipStarts, Packages!PipEnds, Removing,
       Packages!PipUninstalls, Packages!Reverts, Packages!Commits, Packages!Saves, PackagesVars
  <1> QED
    BY <1>1, <1>2, <1>5, <1>6, <1>7

(* Whatever happens, the rest stays of its types. *)
LEMMA RestStep == ASSUME DiskInv, DiskTypes', RestTypes, StepInv, [Packages!Next]_PackagesVars PROVE RestTypes'
  <1> DEFINE Page == [st : {"none", "follows", "success", "failed"}, over : BOOLEAN, done : BOOLEAN]
  <1>0. PackageJob' = PackageJob /\ Pkgs' = Pkgs
    BY DEF PackageJob, Pkgs, Packages!Packages
  <1>1. running' \in [Pkgs -> 0..MaxFolders]
    BY RunningMoves DEF DiskInv, RestTypes
  <1>2. job' \in PackageJob
    <2>1. Packages!NoJob \in PackageJob
      <3>1. [p \in Pkgs |-> 0] \in [Pkgs -> 0..MaxFolders]
        BY PackagesConstants
      <3> QED
        BY <3>1, PackagesConstants DEF Packages!NoJob, PackageJob
    <2>2. CASE Restarting
      BY <2>1, <2>2 DEF Restarting, Packages!RestartDue, Packages!Restarts, Packages!Starts
    <2>3. CASE Asking
      BY <2>3, AskingMoves
    <2>4. CASE Beside \/ UNCHANGED PackagesVars
      BY <2>4 DEF Beside, Packages!PagePolls, Packages!InstanceStarts, Packages!Adds, Packages!SetScripts,
         PackagesVars,
                  RestTypes
    <2>5. CASE Packages!PipEnds
      BY <2>5, PipEndsMoves DEF RestTypes
    <2>6. CASE Packages!HostRestarts
      BY <2>6, JobMoves DEF RestTypes
    <2> QED
      BY <2>2, <2>3, <2>4, <2>5, <2>6, PackagesSteps, JobMoves DEF JobOnly, Removing, RestTypes
  <1>3. left' \in JobBounds /\ left'.hurry = 0
    <2>1. CASE left' = left
      BY <2>1 DEF RestTypes
    <2>2. CASE \E what \in {"jobs", "fails", "restarts", "hosts", "settings"} : Packages!Happens(what)
      BY <2>2, Happening
    <2>3. left' = left \/ \E what \in {"jobs", "fails", "restarts", "hosts", "settings"} : Packages!Happens(what)
      BY PackagesSteps
      DEF JobOnly, Packages!Pins, Packages!PipFails, Packages!Checks, Asking, Packages!Install, Packages!Update,
         Packages!Uninstall, Packages!Asks, Packages!Prepares, Packages!PipStarts, Packages!PipEnds, Removing,
         Packages!PipUninstalls, Packages!Reverts, Packages!Commits, Packages!Saves, Restarting, Packages!RestartDue,
         Packages!Restarts, Packages!HostRestarts, Beside, Packages!PagePolls, Packages!InstanceStarts, Packages!Adds,
         Packages!SetScripts, PackagesVars
    <2> QED
      BY <2>1, <2>2, <2>3
  <1>4. page' \in Page
    <2>1. CASE page' = page
      BY <2>1 DEF RestTypes
    <2>2. CASE Asking
      BY <2>2, AskingMoves
    <2>3. CASE \E v \in BOOLEAN : page' = [page EXCEPT !.over = v] \/ page' = [page EXCEPT !.done = v]
      BY <2>3 DEF RestTypes
    <2>4. CASE Packages!PagePolls
      <3>1. \E st \in {"success", "failed"} : page' = [page EXCEPT !.st = st]
        BY <2>4 DEF Packages!PagePolls
      <3> QED
        BY <3>1 DEF RestTypes
    <2>5. CASE Packages!HostRestarts
      <3>1. page' = [page EXCEPT !.done = page.done \/ link' # link] /\ page.done \in BOOLEAN
        BY <2>5 DEF Packages!HostRestarts, RestTypes
      <3>2. (page.done \/ link' # link) \in BOOLEAN
        BY <3>1
      <3> QED
        BY <2>3, <3>1, <3>2
    <2>6. CASE Restarting \/ Packages!Commits
      BY <2>3, <2>6 DEF Restarting, Packages!RestartDue, Packages!Restarts, Packages!Starts, Packages!Commits
    <2>7. page' = page \/ Asking \/ Packages!PagePolls \/ Packages!HostRestarts \/ Restarting \/ Packages!Commits
      BY PackagesSteps
      DEF JobOnly, Packages!Pins, Packages!PipFails, Packages!Checks, Packages!Prepares, Packages!PipStarts,
         Packages!PipEnds, Removing, Packages!PipUninstalls, Packages!Reverts, Packages!Saves, Beside,
         Packages!InstanceStarts, Packages!Adds, Packages!SetScripts, PackagesVars
    <2> QED
      BY <2>1, <2>2, <2>4, <2>5, <2>6, <2>7
  <1>5. torn' \in BOOLEAN
    <2>1. torn' = torn \/ Restarting \/ Packages!HostRestarts
      BY PackagesSteps
      DEF JobOnly, Packages!Pins, Packages!PipFails, Packages!Checks, Asking, Packages!Install, Packages!Update,
         Packages!Uninstall, Packages!Asks, Packages!Prepares, Packages!PipStarts, Packages!PipEnds, Removing,
         Packages!PipUninstalls, Packages!Reverts, Packages!Commits, Packages!Saves, Beside, Packages!PagePolls,
         Packages!InstanceStarts, Packages!Adds, Packages!SetScripts, PackagesVars
    <2>2. CASE Restarting
      BY <2>2 DEF Restarting, Packages!RestartDue, Packages!Restarts, Packages!Starts
    <2>3. CASE Packages!HostRestarts
      BY <2>3 DEF Packages!HostRestarts
    <2> QED
      BY <2>1, <2>2, <2>3 DEF RestTypes
  <1>6. have' \subseteq Pkgs /\ scripts' \subseteq Pkgs /\ trusted' \subseteq Published
    <2>1. CASE have' = have /\ scripts' = scripts /\ trusted' = trusted
      BY <2>1 DEF RestTypes
    <2>2. CASE \E p \in Pkgs : Packages!Adds(p)
      BY <2>2 DEF Packages!Adds, RestTypes
    <2>3. CASE \E p \in Pkgs : Packages!SetScripts(p)
      <3>1. PICK p \in Pkgs : Packages!SetScripts(p)
        BY <2>3
      <3>2. folders[p][site[link][p]] \in Published
        BY <3>1, PackagesConstants DEF Packages!SetScripts, DiskInv, DiskTypes, WholeInv
      <3>3. have' = have /\ scripts' \subseteq scripts \cup {p}
            /\ trusted' \subseteq trusted \cup {folders[p][site[link][p]]}
        BY <3>1 DEF Packages!SetScripts, Packages!Installed
      <3> QED
        BY <3>2, <3>3 DEF RestTypes
    <2>4. CASE Packages!Saves
      BY <2>4 DEF Packages!Saves, RestTypes, Pkgs
    <2>5. CASE Asking
      BY <2>1, <2>5, AskingMoves
    <2>6. \/ have' = have /\ scripts' = scripts /\ trusted' = trusted
          \/ \E p \in Pkgs : Packages!Adds(p) \/ Packages!SetScripts(p)
          \/ Packages!Saves \/ Asking
      BY PackagesSteps
      DEF JobOnly, Packages!Pins, Packages!PipFails, Packages!Checks, Packages!Prepares, Packages!PipStarts,
         Packages!PipEnds, Removing, Packages!PipUninstalls, Packages!Reverts, Packages!Commits, Restarting,
         Packages!RestartDue, Packages!Restarts, Packages!Starts, Packages!HostRestarts, Beside, Packages!PagePolls,
         Packages!InstanceStarts, Packages!config, PackagesVars
    <2> QED
      BY <2>1, <2>2, <2>3, <2>4, <2>5, <2>6
  <1> QED
    BY <1>0, <1>1, <1>2, <1>3, <1>4, <1>5, <1>6 DEF RestTypes, JobBounds

\* The steps of the job before it is to switch the site.
Building == JobOnly \/ Packages!Prepares \/ Packages!PipStarts \/ Packages!PipEnds \/ Removing

(* Until the switch the job leaves the linked site, and the settings, alone. *)
LEMMA BuildingKeeps == ASSUME DiskInv, DiskTypes', job \in PackageJob, StepInv, Building
  PROVE  /\ link' = link /\ SiteKept(link) /\ site'[link] = site[link]
         /\ job.st = "running" /\ job.pc \in {"pin", "prepare", "pip", "uv", "check", "revert"}
         /\ SameJob /\ job' \in PackageJob /\ job'.todo \subseteq job.todo
         /\ \/ job'.st = "running" /\ job'.pc \in {"prepare", "pip", "uv", "check", "revert", "commit"}
            \/ job'.st = "failed" /\ job'.pc = "none"
         /\ have' = have /\ scripts' = scripts /\ trusted' = trusted /\ torn' = torn /\ running' = running
  <1>1. /\ have' = have /\ scripts' = scripts /\ trusted' = trusted /\ torn' = torn /\ running' = running
    BY DEF Building, JobOnly, Packages!Pins, Packages!PipFails, Packages!Checks, Packages!Prepares,
       Packages!PipStarts,
           Packages!PipEnds, Removing, Packages!PipUninstalls, Packages!Reverts, Packages!config
  <1>2. link' = link /\ SiteKept(link)
    <2>1. CASE JobOnly
      <3>1. SameDisk
        BY <2>1, MostKeepDisk
      <3> QED
        BY <3>1 DEF SameDisk, SiteKept
    <2>2. CASE Packages!PipStarts
      <3>1. job.todo # {}
        BY <2>2 DEF StepInv, Packages!PipStarts, Packages!At
      <3> QED
        BY <2>2, <3>1, PipStartsDisk DEF DiskInv
    <2>3. CASE Packages!PipEnds
      <3>1. job.todo # {} /\ \E n \in Folders : folders[PkgOf(Packages!First(job.todo))][n] = "partial"
        BY <2>3 DEF StepInv, Packages!PipEnds, Packages!At
      <3> QED
        BY <2>3, <3>1, PipEndsDisk
    <2>4. CASE Packages!Prepares \/ Removing
      BY <2>4, PreparesDisk, RemovesDisk DEF DiskInv, Removing
    <2> QED
      BY <2>1, <2>2, <2>3, <2>4 DEF Building
  <1>3. site'[link] = site[link]
    <2>1. site[link] \in [Pkgs -> 0..MaxFolders] /\ site'[link] \in [Pkgs -> 0..MaxFolders]
      BY <1>2 DEF DiskInv, DiskTypes, Pkgs, Packages!Packages, Packages!Sites
    <2>2. \A p \in Pkgs : site'[link][p] = site[link][p]
      BY <1>2 DEF SiteKept
    <2> QED
      BY <2>1, <2>2
  <1>4. /\ job.st = "running" /\ job.pc \in {"pin", "prepare", "pip", "uv", "check", "revert"}
        /\ SameJob /\ job' \in PackageJob /\ job'.todo \subseteq job.todo
        /\ \/ job'.st = "running" /\ job'.pc \in {"prepare", "pip", "uv", "check", "revert", "commit"}
           \/ job'.st = "failed" /\ job'.pc = "none"
    <2>1. CASE Packages!PipEnds
      BY <2>1, PipEndsMoves DEF Packages!At
    <2>2. CASE ~Packages!PipEnds
      BY <2>2, JobMoves DEF Building, JobOnly, Removing, Packages!At, GoesTo
    <2> QED
      BY <2>1, <2>2
  <1> QED
    BY <1>1, <1>2, <1>3, <1>4

(* Beside the job it stays where it is, and so does the disk. *)
LEMMA BesideKeeps == ASSUME Beside \/ UNCHANGED PackagesVars PROVE job' = job /\ SameDisk /\ torn' = torn
BY DEF Beside, Packages!PagePolls, Packages!InstanceStarts, Packages!Adds, Packages!SetScripts, PackagesVars,
   SameDisk,
       Packages!disk

(* Where it is when the module host restarts, which may have switched the site. *)
LEMMA HostRestartsMoves == ASSUME DiskTypes, job \in PackageJob, StepInv, Packages!HostRestarts
  PROVE  /\ folders' = folders /\ site' = site /\ link' \in Packages!Sites /\ have' = have /\ scripts' = scripts
         /\ trusted' = trusted /\ (torn' <=> torn \/ link' # link)
         /\ \/ job' = job /\ (job.st # "running" \/ job.pc \in {"pin", "save"}) /\ link' = link
            \/ /\ job.st = "running" /\ job.pc \notin {"pin", "save"} /\ GoesTo("failed", "none") /\ SameJob
               /\ job' \in PackageJob /\ job'.todo = job.todo
  <1>1. link' \in IF Packages!At("commit") THEN Packages!Sites ELSE {link}
    BY DEF Packages!HostRestarts
  <1>2. link' \in Packages!Sites /\ (~Packages!At("commit") => link' = link)
    BY <1>1 DEF DiskTypes
  <1>3. /\ folders' = folders /\ site' = site /\ have' = have /\ scripts' = scripts
        /\ trusted' = trusted /\ (torn' <=> torn \/ link' # link)
    BY DEF Packages!HostRestarts, Packages!config
  <1> QED
    BY <1>2, <1>3, JobMoves DEF Packages!At

(* A restart of the app ends it, maybe between the switch and the save. *)
LEMMA RestartingMoves == ASSUME Restarting
  PROVE  /\ job' = Packages!NoJob /\ SameDisk /\ have' = have /\ scripts' = scripts /\ trusted' = trusted
         /\ (torn' <=> torn \/ Packages!At("save"))
BY MostKeepDisk DEF Restarting, Packages!RestartDue, Packages!Restarts, Packages!Starts, Packages!config

(* What runs is what is linked, or what was before the switch. *)
LEMMA RunsStep == ASSUME DiskInv, DiskTypes', RestTypes, StepInv, RunsInv, [Packages!Next]_PackagesVars PROVE RunsInv'
  <1>0. Pkgs' = Pkgs /\ link \in Packages!Sites /\ job \in PackageJob
    BY DEF Pkgs, Packages!Packages, DiskInv, DiskTypes, RestTypes
  <1>1. CASE \A p \in Pkgs : running'[p] \in {0, site'[link'][p]}
    BY <1>0, <1>1 DEF RunsInv
  <1>2. CASE job' = job /\ SameDisk /\ \A p \in Pkgs : running'[p] \in {running[p], 0, site[link][p]}
    <2>1. Packages!next_site' = Packages!next_site
      BY <1>0, <1>2, NextSite DEF SameDisk
    <2>2. \A p \in Pkgs : \/ running'[p] \in {0, site[link][p]}
                          \/ Switched /\ running'[p] = site[Packages!next_site][p]
      BY <1>2 DEF RunsInv
    <2>3. Switched' <=> Switched
      BY <1>2 DEF Switched, Packages!At
    <2> QED
      BY <1>0, <1>2, <2>1, <2>2, <2>3 DEF RunsInv, SameDisk
  <1>3. CASE running' = running /\ ~Packages!HostRestarts /\ ~Restarting
    <2>1. CASE Building
      <3>1. link' = link /\ site'[link] = site[link] /\ ~Switched
        BY <1>0, <2>1, BuildingKeeps DEF Switched, Packages!At
      <3> QED
        BY <1>0, <1>3, <3>1 DEF RunsInv
    <2>2. CASE Asking
      <3>1. ~Switched /\ SameDisk
        BY <2>2, AskingMoves, MostKeepDisk DEF Switched, Packages!At
      <3> QED
        BY <1>0, <1>3, <3>1 DEF RunsInv, SameDisk
    <2>3. CASE Packages!Commits
      <3>1. ~Switched /\ link' = Packages!next_site /\ site' = site /\ Switched'
        BY <1>0, <2>3, JobMoves DEF Packages!Commits, Switched, Packages!At, GoesTo
      <3>2. Packages!next_site' = link
        BY <1>0, <3>1, NextSite
      <3> QED
        BY <1>0, <1>3, <3>1, <3>2 DEF RunsInv
    <2>4. CASE Packages!Saves
      <3>1. Switched /\ Switched' /\ SameDisk
        BY <1>0, <2>4, JobMoves, MostKeepDisk DEF Switched, Packages!At, GoesTo
      <3>2. Packages!next_site' = Packages!next_site
        BY <1>0, <3>1, NextSite DEF SameDisk
      <3> QED
        BY <1>0, <1>3, <3>1, <3>2 DEF RunsInv, SameDisk
    <2>5. CASE Beside \/ UNCHANGED PackagesVars
      BY <1>2, <1>3, <2>5, BesideKeeps
    <2> QED
      BY <1>3, <2>1, <2>2, <2>3, <2>4, <2>5, PackagesSteps DEF Building
  <1> QED
    BY <1>1, <1>2, <1>3, RunningMoves DEF DiskInv, RestTypes

(* Where the job is, its releases, its part of the site and what it is from stay in step. *)
LEMMA StepStep == ASSUME DiskInv, DiskInv', RestTypes, StepInv, [Packages!Next]_PackagesVars PROVE StepInv'
  <1>0. link \in Packages!Sites /\ job \in PackageJob /\ DiskTypes'
    BY DEF DiskInv, DiskTypes, RestTypes
  <1>1. CASE Beside \/ UNCHANGED PackagesVars
    <2>1. job' = job /\ SameDisk /\ torn' = torn
      BY <1>1, BesideKeeps
    <2>2. Packages!next_site' = Packages!next_site
      BY <1>0, <2>1, NextSite DEF SameDisk
    <2> QED
      BY <2>1, <2>2 DEF StepInv, SameDisk, Packages!At
  <1>2. CASE Restarting
    <2>1. job' = Packages!NoJob
      BY <1>2, RestartingMoves
    <2>2. job'.st = "idle" /\ job'.want = {} /\ job'.todo = {}
      BY <2>1 DEF Packages!NoJob
    <2> QED
      BY <2>2 DEF StepInv, Packages!At
  <1>3. CASE Asking
    <2>1. SameDisk
      BY <1>3, MostKeepDisk
    <2> QED
      BY <1>3, <2>1, AskingMoves DEF StepInv, Packages!At, SameDisk
  <1>4. CASE Packages!HostRestarts
    <2>1. /\ folders' = folders /\ site' = site /\ link' \in Packages!Sites /\ (torn' <=> torn \/ link' # link)
          /\ \/ job' = job /\ (job.st # "running" \/ job.pc \in {"pin", "save"}) /\ link' = link
             \/ /\ job.st = "running" /\ job.pc \notin {"pin", "save"} /\ GoesTo("failed", "none") /\ SameJob
                /\ job' \in PackageJob /\ job'.todo = job.todo
      BY <1>0, <1>4, HostRestartsMoves DEF DiskInv
    <2>2. CASE job' = job /\ (job.st # "running" \/ job.pc \in {"pin", "save"}) /\ link' = link
      <3>1. Packages!next_site' = Packages!next_site
        BY <1>0, <2>2, NextSite
      <3> QED
        BY <2>1, <2>2, <3>1 DEF StepInv, Packages!At
    <2>3. CASE /\ job.st = "running" /\ job.pc \notin {"pin", "save"} /\ GoesTo("failed", "none") /\ SameJob
               /\ job' \in PackageJob /\ job'.todo = job.todo
      <3>1. job.from = site[link] /\ job'.from = job.from /\ job'.st = "failed" /\ job'.pc = "none"
            /\ job'.want = job.want
        BY <2>3 DEF StepInv, SameJob, GoesTo
      <3>2. ~torn' => job'.from = site'[link']
        BY <2>1, <3>1
      <3>3. job'.todo \subseteq job'.want /\ \A r, s \in job'.want : PkgOf(r) = PkgOf(s) => r = s
        BY <2>3, <3>1 DEF StepInv
      <3> QED
        BY <3>1, <3>2, <3>3 DEF StepInv, Packages!At
    <2> QED
      BY <2>1, <2>2, <2>3
  <1>5. CASE Packages!Commits
    <2>1. /\ job.st = "running" /\ job.pc = "commit" /\ job'.st = "running" /\ job'.pc = "save" /\ SameJob
          /\ job'.todo = job.todo
      BY <1>0, <1>5, JobMoves DEF Packages!At, GoesTo
    <2>2. site' = site /\ link' = Packages!next_site /\ Packages!next_site' = link
      BY <1>0, <1>5, NextSite DEF Packages!Commits
    <2> QED
      BY <2>1, <2>2 DEF StepInv, Packages!At, SameJob
  <1>6. CASE Packages!Saves
    <2>1. /\ job.st = "running" /\ job.pc = "save" /\ job'.st = "restarting" /\ job'.pc = "none" /\ SameJob
          /\ job'.todo = job.todo
      BY <1>0, <1>6, JobMoves DEF Packages!At, GoesTo
    <2> QED
      BY <2>1 DEF StepInv, Packages!At, SameJob
  <1>7. CASE Building
    <2>1. /\ link' = link /\ site'[link] = site[link] /\ torn' = torn
          /\ job.st = "running" /\ job.pc \in {"pin", "prepare", "pip", "uv", "check", "revert"}
          /\ SameJob /\ job'.todo \subseteq job.todo
          /\ \/ job'.st = "running" /\ job'.pc \in {"prepare", "pip", "uv", "check", "revert", "commit"}
             \/ job'.st = "failed" /\ job'.pc = "none"
      BY <1>0, <1>7, BuildingKeeps
    <2>2. /\ job'.from = site'[link']
          /\ job'.st = "running" => job'.pc # "none" /\ job'.pc # "save" /\ job'.pc # "pin"
          /\ job'.todo \subseteq job'.want /\ \A r, s \in job'.want : PkgOf(r) = PkgOf(s) => r = s
          /\ job'.st # "restarting"
      BY <2>1 DEF StepInv, SameJob
    <2>3. CASE job'.st = "failed"
      BY <2>2, <2>3 DEF StepInv, Packages!At
    <2>4. CASE job'.st = "running" /\ job'.pc \in {"prepare", "revert", "commit"}
      <3>1. job'.pc = "prepare" => job'.todo = job'.want /\ job'.todo # {}
        <4> SUFFICES ASSUME job'.pc = "prepare" PROVE job'.todo = job'.want /\ job'.todo # {}
          OBVIOUS
        <4>1. Packages!Pins
          BY <1>0, <1>7, <2>4, JobMoves, PipEndsMoves DEF Building, JobOnly, Removing, GoesTo
        <4> QED
          BY <1>0, <2>1, <4>1, JobMoves DEF StepInv, Packages!At, SameJob
      <3>2. job'.pc = "commit" /\ job'.op # "uninstall" => job'.todo = {}
        <4> SUFFICES ASSUME job'.pc = "commit", job'.op # "uninstall" PROVE job'.todo = {}
          OBVIOUS
        <4>1. Packages!Checks \/ Packages!PipUninstalls
          BY <1>0, <1>7, <2>4, JobMoves, PipEndsMoves DEF Building, JobOnly, Removing, GoesTo
        <4>2. Packages!Checks
          BY <1>0, <2>1, <4>1, JobMoves DEF SameJob
        <4> QED
          BY <1>0, <4>2, JobMoves DEF StepInv, Packages!At
      <3> QED
        BY <2>2, <2>4, <3>1, <3>2 DEF StepInv, Packages!At
    <2>5. CASE job'.st = "running" /\ job'.pc = "pip"
      <3>1. job'.todo # {}
        <4>1. Packages!Prepares \/ Packages!PipEnds
          BY <1>0, <1>7, <2>5, JobMoves, PipEndsMoves DEF Building, JobOnly, Removing, GoesTo
        <4>2. CASE Packages!Prepares
          BY <1>0, <4>2, JobMoves DEF StepInv, Packages!At
        <4>3. CASE Packages!PipEnds
          BY <1>0, <2>5, <4>3, PipEndsMoves
        <4> QED
          BY <4>1, <4>2, <4>3
      <3> QED
        BY <2>2, <2>5, <3>1 DEF StepInv, Packages!At
    <2>6. CASE job'.st = "running" /\ job'.pc = "uv"
      <3>1. Packages!PipStarts
        BY <1>0, <1>7, <2>6, JobMoves, PipEndsMoves DEF Building, JobOnly, Removing, GoesTo
      <3>2. job.todo # {} /\ job'.todo = job.todo /\ job'.op # "uninstall"
        BY <1>0, <2>1, <3>1, JobMoves DEF StepInv, Packages!At, SameJob
      <3>3. \E n \in Folders : folders'[PkgOf(Packages!First(job'.todo))][n] = "partial"
        BY <1>0, <3>1, <3>2, PipStartsDisk DEF DiskInv
      <3>4. (\E n \in Folders : folders[PkgOf(Packages!First(job.todo))][n] = "partial")'
        BY <3>3 DEF Folders, PkgOf, Packages!First
      <3> QED
        BY <2>2, <2>6, <3>2, <3>4 DEF StepInv, Packages!At
    <2>7. CASE job'.st = "running" /\ job'.pc = "check"
      <3>1. Packages!PipEnds
        BY <1>0, <1>7, <2>7, JobMoves DEF Building, JobOnly, Removing, GoesTo
      <3>2. job'.todo = {} /\ job'.op # "uninstall"
        BY <1>0, <2>1, <2>7, <3>1, PipEndsMoves DEF StepInv, Packages!At, SameJob
      <3> QED
        BY <2>2, <2>7, <3>2 DEF StepInv, Packages!At
    <2> QED
      BY <2>1, <2>3, <2>4, <2>5, <2>6, <2>7
  <1> QED
    BY <1>1, <1>2, <1>3, <1>4, <1>5, <1>6, <1>7, PackagesSteps DEF Building

(* What is done of the job stays done. *)
LEMMA DoneStep == ASSUME DiskInv, DiskInv', RestTypes, StepInv, DoneInv, [Packages!Next]_PackagesVars PROVE DoneInv'
  <1> DEFINE nx == Packages!next_site
  <1>0. link \in Packages!Sites /\ job \in PackageJob /\ DiskTypes' /\ (link' = link => nx' = nx)
    BY NextSite DEF DiskInv, DiskTypes, RestTypes
  <1>1. CASE Beside \/ UNCHANGED PackagesVars
    <2>1. job' = job /\ SameDisk /\ nx' = nx
      BY <1>0, <1>1, BesideKeeps DEF SameDisk
    <2> QED
      BY <2>1 DEF DoneInv, DoneAt, Making, Switched, SameDisk, Packages!At
  <1>2. CASE Restarting \/ Asking
    <2>1. (job'.st = "idle") \/ (job'.st = "running" /\ job'.pc \in {"pin", "prepare"})
      BY <1>2, RestartingMoves, AskingMoves DEF Packages!NoJob
    <2> QED
      BY <2>1 DEF DoneInv, Making, Switched, Packages!At
  <1>3. CASE Packages!HostRestarts
    <2>1. /\ folders' = folders /\ site' = site
          /\ \/ job' = job /\ (job.st # "running" \/ job.pc \in {"pin", "save"}) /\ link' = link
             \/ GoesTo("failed", "none")
      BY <1>0, <1>3, HostRestartsMoves DEF DiskInv
    <2>2. CASE GoesTo("failed", "none")
      BY <2>2 DEF GoesTo, DoneInv, Making, Switched, Packages!At
    <2>3. CASE job' = job /\ (job.st # "running" \/ job.pc \in {"pin", "save"}) /\ link' = link
      BY <2>1, <2>3 DEF DoneInv, DoneAt, Making, Switched, Packages!At
    <2> QED
      BY <2>1, <2>2, <2>3
  <1>4. CASE Packages!Commits
    <2>1. /\ job.st = "running" /\ job.pc = "commit" /\ job'.st = "running" /\ job'.pc = "save" /\ SameJob
          /\ job'.todo = job.todo
      BY <1>0, <1>4, JobMoves DEF Packages!At, GoesTo
    <2>2. site' = site /\ folders' = folders /\ link' = nx
      BY <1>4 DEF Packages!Commits
    <2>3. DoneAt(nx)
      BY <2>1 DEF DoneInv, Making
    <2> QED
      BY <2>1, <2>2, <2>3 DEF DoneInv, DoneAt, Making, Switched, SameJob
  <1>5. CASE Packages!Saves
    <2>1. /\ job.st = "running" /\ job.pc = "save" /\ job'.st = "restarting" /\ job'.pc = "none" /\ SameJob
          /\ job'.todo = job.todo /\ SameDisk
      BY <1>0, <1>5, JobMoves, MostKeepDisk DEF Packages!At, GoesTo
    <2> QED
      BY <2>1 DEF DoneInv, DoneAt, Making, Switched, SameJob, SameDisk, Packages!At
  <1>6. CASE Building
    <2>1. nx' = nx /\ SameJob /\ job'.st \in {"running", "failed"} /\ job'.pc # "save" /\ job.st = "running"
      BY <1>0, <1>6, BuildingKeeps
    <2>2. SUFFICES ASSUME Making', job'.op # "uninstall", NEW r \in job'.want \ job'.todo
          PROVE site'[nx][PkgOf(r)] # 0 /\ folders'[PkgOf(r)][site'[nx][PkgOf(r)]] = r
      <3>1. (\A r \in job'.want \ job'.todo : site'[nx][PkgOf(r)] # 0 /\ folders'[PkgOf(r)][site'[nx][PkgOf(r)]] = r)
              => DoneAt(Packages!next_site)'
        BY <2>1 DEF DoneAt, PkgOf
      <3> QED
        BY <2>1, <2>2, <3>1 DEF DoneInv, Switched, Packages!At, DoneAt
    <2>3. ASSUME job'.todo = job.todo, Making, SiteKept(nx)
          PROVE site'[nx][PkgOf(r)] # 0 /\ folders'[PkgOf(r)][site'[nx][PkgOf(r)]] = r
      <3>1. site[nx][PkgOf(r)] # 0 /\ folders[PkgOf(r)][site[nx][PkgOf(r)]] = r /\ r \in Published
        BY <1>0, <2>1, <2>2, <2>3 DEF DoneInv, DoneAt, SameJob, PackageJob
      <3>2. PkgOf(r) \in Pkgs
        BY <3>1, PackagesConstants
      <3> QED
        BY <2>3, <3>1, <3>2 DEF SiteKept
    <2>4. CASE Packages!Prepares
      BY <1>0, <2>1, <2>2, <2>4, JobMoves DEF StepInv, Packages!At, SameJob
    <2>5. CASE Packages!PipStarts
      <3>1. job.todo # {} /\ job.pc = "pip" /\ job'.todo = job.todo
        BY <1>0, <2>5, JobMoves DEF StepInv, Packages!At
      <3>2. SiteKept(nx)
        BY <1>0, <2>5, <3>1, PipStartsDisk DEF DiskInv
      <3> QED
        BY <2>1, <2>3, <3>1, <3>2 DEF Making
    <2>6. CASE Packages!Checks
      <3>1. SameDisk /\ job.pc = "check" /\ job'.todo = job.todo
        BY <1>0, <2>6, JobMoves, MostKeepDisk DEF Packages!At, JobOnly
      <3> QED
        BY <2>1, <2>3, <3>1 DEF Making, SameDisk, SiteKept
    <2>7. CASE Packages!PipEnds
      <3> DEFINE f == Packages!First(job.todo)
      <3>1. f \in job.todo /\ f \in job.want /\ job.pc = "uv" /\ job'.todo = job.todo \ {f} /\ ComesIn(f, nx)
        BY <1>0, <2>2, <2>7, PipEndsMoves, FirstIsOf DEF StepInv, Making, Packages!At
      <3> HIDE DEF f
      <3>2. CASE r = f
        BY <3>1, <3>2 DEF ComesIn
      <3>3. CASE r # f
        <4>1. r \in job.want \ job.todo /\ r \in Published /\ PkgOf(r) # PkgOf(f)
          BY <1>0, <2>1, <2>2, <3>1, <3>3 DEF StepInv, SameJob, PackageJob
        <4>2. site[nx][PkgOf(r)] # 0 /\ folders[PkgOf(r)][site[nx][PkgOf(r)]] = r
          BY <2>1, <2>2, <3>1, <4>1 DEF DoneInv, DoneAt, Making, SameJob
        <4>3. PkgOf(r) \in Pkgs
          BY <4>1, PackagesConstants
        <4> QED
          BY <3>1, <4>1, <4>2, <4>3 DEF ComesIn
      <3> QED
        BY <3>2, <3>3
    <2>8. CASE Packages!PipUninstalls
      BY <1>0, <2>1, <2>2, <2>8, JobMoves DEF SameJob
    <2>9. Packages!Prepares \/ Packages!PipStarts \/ Packages!Checks \/ Packages!PipEnds \/ Packages!PipUninstalls
      BY <1>0, <1>6, <2>2, JobMoves DEF Building, JobOnly, Removing, Making, GoesTo
    <2> QED
      BY <2>4, <2>5, <2>6, <2>7, <2>8, <2>9
  <1> QED
    BY <1>1, <1>2, <1>3, <1>4, <1>5, <1>6, PackagesSteps DEF Building

(* The made site differs from the other only as the job may. *)
LEMMA ChangeStep == ASSUME DiskInv, DiskInv', RestTypes, StepInv, ChangeInv, [Packages!Next]_PackagesVars
         PROVE ChangeInv'
  <1> DEFINE nx == Packages!next_site
             \* Differs, of the sites as they are then
             DiffersThen(old, new) == \A p \in Pkgs :
               /\ job.op = "install" /\ site'[new][p] = 0 => site'[old][p] = 0
               /\ job.op = "update" =>
                    \/ site'[new][p] = site'[old][p]
                    \/ /\ site'[new][p] # 0 /\ site'[old][p] # 0
                       /\ ReleaseInfo[folders'[p][site'[new][p]]].from = ReleaseInfo[folders'[p][site'[old][p]]].from
               /\ job.op = "uninstall" => site'[new][p] \in {0, site'[old][p]}
             TodoThen == \A r \in job'.todo :
               /\ site'[link'][PkgOf(r)] # 0
               /\ ReleaseInfo[r].from = ReleaseInfo[folders'[PkgOf(r)][site'[link'][PkgOf(r)]]].from
  <1>0. /\ link \in Packages!Sites /\ job \in PackageJob /\ DiskTypes' /\ (link' = link => nx' = nx) /\ Pkgs' = Pkgs
        /\ (link' = nx => nx' = link)
    BY NextSite DEF DiskInv, DiskTypes, RestTypes, Pkgs, Packages!Packages
  <1>1. CASE Beside \/ UNCHANGED PackagesVars
    <2>1. job' = job /\ SameDisk /\ nx' = nx
      BY <1>0, <1>1, BesideKeeps DEF SameDisk
    <2> QED
      BY <1>0, <2>1 DEF ChangeInv, Differs, Origin, Making, SameDisk, Packages!At
  <1>2. CASE Restarting
    <2>1. job'.st = "idle"
      BY <1>2, RestartingMoves DEF Packages!NoJob
    <2> QED
      BY <2>1 DEF ChangeInv, Making, Packages!At
  <1>3. CASE Asking
    <2>1. job'.st = "running" /\ job'.pc \in {"pin", "prepare"} /\ SameDisk
      BY <1>3, AskingMoves, MostKeepDisk
    <2>2. job'.op = "update" => \A r \in job'.todo : site[link][PkgOf(r)] # 0
          /\ ReleaseInfo[r].from = Origin(link, PkgOf(r))
      BY <1>3, AskingMoves
    <2> QED
      BY <2>1, <2>2 DEF ChangeInv, Making, Packages!At, SameDisk, Origin
  <1>4. CASE Packages!HostRestarts
    <2>1. /\ folders' = folders /\ site' = site
          /\ \/ job' = job /\ (job.st # "running" \/ job.pc \in {"pin", "save"}) /\ link' = link
             \/ GoesTo("failed", "none")
      BY <1>0, <1>4, HostRestartsMoves DEF DiskInv
    <2>2. CASE GoesTo("failed", "none")
      BY <2>2 DEF GoesTo, ChangeInv, Making, Packages!At
    <2>3. CASE job' = job /\ (job.st # "running" \/ job.pc \in {"pin", "save"}) /\ link' = link
      BY <1>0, <2>1, <2>3 DEF ChangeInv, Differs, Origin, Making, Packages!At
    <2> QED
      BY <2>1, <2>2, <2>3
  <1>5. CASE Packages!Commits
    <2>1. job.st = "running" /\ job.pc = "commit" /\ job'.st = "running" /\ job'.pc = "save" /\ SameJob
      BY <1>0, <1>5, JobMoves DEF Packages!At, GoesTo
    <2>2. site' = site /\ folders' = folders /\ link' = nx
      BY <1>5 DEF Packages!Commits
    <2>3. Differs(link, nx) /\ nx' = link
      BY <1>0, <2>1, <2>2 DEF ChangeInv, Making
    <2> QED
      BY <1>0, <2>1, <2>2, <2>3 DEF ChangeInv, Differs, Origin, Making, SameJob
  <1>6. CASE Packages!Saves
    <2>1. job'.st = "restarting"
      BY <1>0, <1>6, JobMoves DEF GoesTo
    <2> QED
      BY <2>1 DEF ChangeInv, Making, Packages!At
  <1>7. CASE Building
    <2>1. /\ nx' = nx /\ link' = link /\ SiteKept(link) /\ site'[link] = site[link] /\ SameJob
             /\ job'.todo \subseteq job.todo
          /\ job.st = "running" /\ job.pc \in {"pin", "prepare", "pip", "uv", "check", "revert"}
          /\ job'.st \in {"running", "failed"} /\ job'.pc # "save"
      BY <1>0, <1>7, BuildingKeeps
    <2>2. job'.st = "running" /\ job'.pc \in {"pin", "prepare", "pip", "uv"} /\ job'.op = "update" => TodoThen
      <3> SUFFICES ASSUME job'.st = "running", job'.pc \in {"pin", "prepare", "pip", "uv"}, job'.op = "update",
                          NEW r \in job'.todo
          PROVE /\ site'[link'][PkgOf(r)] # 0
                /\ ReleaseInfo[r].from = ReleaseInfo[folders'[PkgOf(r)][site'[link'][PkgOf(r)]]].from
        OBVIOUS
      <3>1. job.pc \in {"pin", "prepare", "pip", "uv"}
        BY <1>0, <1>7, <2>1, JobMoves, PipEndsMoves DEF Building, JobOnly, Removing, GoesTo, Packages!At
      <3>2. r \in job.todo /\ r \in Published /\ job.op = "update"
        BY <1>0, <2>1 DEF PackageJob, SameJob
      <3>3. site[link][PkgOf(r)] # 0 /\ ReleaseInfo[r].from = Origin(link, PkgOf(r)) /\ PkgOf(r) \in Pkgs
        BY <2>1, <3>1, <3>2, PackagesConstants DEF ChangeInv
      <3> QED
        BY <2>1, <3>3 DEF SiteKept, Origin
    <2>3. Making' => DiffersThen(link, nx)
      <3> SUFFICES ASSUME Making' PROVE DiffersThen(link, nx)
        OBVIOUS
      <3>1. CASE SiteKept(nx) /\ Making
        <4>1. Differs(link, nx)
          BY <3>1 DEF ChangeInv
        <4> QED
          BY <2>1, <3>1, <4>1 DEF Differs, Origin, SiteKept
      <3>2. CASE Packages!Prepares
        <4>1. \A p \in Pkgs : site'[nx][p] = site'[link][p]
          BY <1>0, <2>1, <3>2, PreparesDisk DEF DiskInv
        <4> QED
          BY <4>1
      <3>3. CASE Packages!PipStarts
        <4>1. job.todo # {} /\ job.pc = "pip"
          BY <1>0, <3>3, JobMoves DEF StepInv, Packages!At
        <4>2. SiteKept(nx)
          BY <1>0, <3>3, <4>1, PipStartsDisk DEF DiskInv
        <4> QED
          BY <2>1, <3>1, <4>1, <4>2 DEF Making
      <3>4. CASE Packages!Checks
        <4>1. SameDisk /\ job.pc = "check"
          BY <1>0, <3>4, JobMoves, MostKeepDisk DEF Packages!At, JobOnly
        <4> QED
          BY <2>1, <3>1, <4>1 DEF Making, SameDisk, SiteKept
      <3>5. CASE Packages!PipEnds
        <4> DEFINE f == Packages!First(job.todo)
        <4>1. f \in job.todo /\ job.pc = "uv" /\ ComesIn(f, nx) /\ f \in Published /\ job.op # "uninstall"
          BY <1>0, <3>5, PipEndsMoves, FirstIsOf DEF StepInv, Making, Packages!At, PackageJob
        <4> HIDE DEF f
        <4>2. Differs(link, nx)
          BY <2>1, <4>1 DEF ChangeInv, Making
        <4>3. job.op = "update" => site[link][PkgOf(f)] # 0 /\ ReleaseInfo[f].from = Origin(link, PkgOf(f))
          BY <2>1, <4>1 DEF ChangeInv
        <4>4. ASSUME NEW p \in Pkgs, p # PkgOf(f)
              PROVE  /\ job.op = "install" /\ site'[nx][p] = 0 => site'[link][p] = 0
                     /\ job.op = "update" =>
                          \/ site'[nx][p] = site'[link][p]
                          \/ /\ site'[nx][p] # 0 /\ site'[link][p] # 0
                             /\ ReleaseInfo[folders'[p][site'[nx][p]]].from
                                  = ReleaseInfo[folders'[p][site'[link][p]]].from
          BY <2>1, <4>1, <4>2, <4>4 DEF ComesIn, Differs, Origin, SiteKept
        <4>5. PkgOf(f) \in Pkgs
          BY <4>1, PackagesConstants
        <4>6. /\ site'[nx][PkgOf(f)] # 0
              /\ job.op = "update" =>
                   /\ site'[link][PkgOf(f)] # 0
                   /\ ReleaseInfo[folders'[PkgOf(f)][site'[nx][PkgOf(f)]]].from
                        = ReleaseInfo[folders'[PkgOf(f)][site'[link][PkgOf(f)]]].from
          BY <2>1, <4>1, <4>3, <4>5 DEF ComesIn, Origin, SiteKept
        <4> QED
          BY <4>1, <4>4, <4>5, <4>6
      <3>6. CASE Packages!PipUninstalls
        <4>1. job.op = "uninstall" /\ job.pc = "pip"
          BY <1>0, <3>6, JobMoves DEF Packages!At
        <4>2. \A p \in Pkgs : site'[nx][p] \in {0, site[nx][p]}
          BY <1>0, <3>6, RemovesDisk DEF DiskInv
        <4>3. Differs(link, nx)
          BY <2>1, <4>1 DEF ChangeInv, Making
        <4>4. \A p \in Pkgs : site'[nx][p] \in {0, site'[link][p]}
          BY <2>1, <4>1, <4>2, <4>3 DEF Differs
        <4> QED
          BY <4>1, <4>4
      <3>7. Packages!Prepares \/ Packages!PipStarts \/ Packages!Checks \/ Packages!PipEnds \/ Packages!PipUninstalls
        BY <1>0, <1>7, JobMoves DEF Building, JobOnly, Removing, Making, GoesTo
      <3> QED
        BY <3>2, <3>3, <3>4, <3>5, <3>6, <3>7
    <2>4. Making' => Differs(link, Packages!next_site)'
      BY <1>0, <2>1, <2>3 DEF Differs, Origin, SameJob
    <2>5. /\ job'.st = "running" /\ job'.pc \in {"pin", "prepare", "pip", "uv"} /\ job'.op = "update" =>
               \A r \in job'.todo : site'[link'][PkgOf(r)] # 0 /\ ReleaseInfo[r].from = Origin(link, PkgOf(r))'
      BY <2>2 DEF Origin, PkgOf
    <2> QED
      BY <2>1, <2>4, <2>5 DEF ChangeInv, Packages!At, PkgOf
  <1> QED
    BY <1>1, <1>2, <1>3, <1>4, <1>5, <1>6, <1>7, PackagesSteps DEF Building

(* A yes and an instance are always for what is installed, or was until the save. *)
LEMMA YesStep == ASSUME DiskInv, DiskInv', RestTypes, StepInv, ChangeInv, YesInv,
         [Packages!Next]_PackagesVars PROVE YesInv'
  <1> DEFINE nx == Packages!next_site
             YesThen(s, p) == /\ site'[s][p] # 0
                              /\ LET from == ReleaseInfo[folders'[p][site'[s][p]]].from
                                 IN  from = Owner \/ \E r \in trusted' : PkgOf(r) = p /\ ReleaseInfo[r].from = from
  <1>0. /\ link \in Packages!Sites /\ job \in PackageJob /\ DiskTypes' /\ (link' = link => nx' = nx)
        /\ (link' = nx => nx' = link) /\ have \subseteq Pkgs /\ scripts \subseteq Pkgs
    BY NextSite DEF DiskInv, DiskTypes, RestTypes
  <1>1. ASSUME ~torn', \A p \in scripts' : YesThen(link', p), \A p \in have' : site'[link'][p] # 0 PROVE YesInv'
    BY <1>1 DEF YesInv, YesOf, Origin, PkgOf
  <1>2. ASSUME SameDisk, trusted \subseteq trusted', NEW p, YesOf(link, p) PROVE YesThen(link', p)
    BY <1>2 DEF SameDisk, YesOf, Origin
  <1>3. CASE Beside \/ UNCHANGED PackagesVars
    <2>1. job' = job /\ SameDisk /\ torn' = torn /\ nx' = nx
      BY <1>0, <1>3, BesideKeeps DEF SameDisk
    <2>2. CASE have' = have /\ scripts' = scripts /\ trusted' = trusted
      BY <2>1, <2>2 DEF YesInv, YesOf, Origin, SameDisk, Packages!At
    <2>3. CASE \E p \in Pkgs : Packages!Adds(p)
      <3>1. PICK p \in Pkgs : site[link][p] # 0 /\ have' = have \cup {p} /\ scripts' = scripts /\ trusted' = trusted
        BY <2>3, PackagesConstants DEF Packages!Adds
      <3> QED
        BY <2>1, <3>1 DEF YesInv, YesOf, Origin, SameDisk, Packages!At
    <2>4. CASE \E p \in Pkgs : Packages!SetScripts(p)
      <3>1. PICK p \in Pkgs : /\ site[link][p] # 0 /\ have' = have
                              /\ \/ /\ scripts' = scripts \cup {p}
                                    /\ trusted' = trusted \cup {folders[p][site[link][p]]}
                                 \/ scripts' = scripts \ {p} /\ trusted' = trusted
        BY <2>4, PackagesConstants DEF Packages!SetScripts, Packages!Installed
      <3>2. folders[p][site[link][p]] \in Published /\ PkgOf(folders[p][site[link][p]]) = p
        <4>1. site[link][p] \in Folders
          BY <1>0, <3>1, PackagesConstants DEF DiskInv, DiskTypes
        <4>2. folders[p][site[link][p]] \in Published
          BY <1>0, <3>1 DEF DiskInv, WholeInv
        <4> QED
          BY <4>1, <4>2 DEF DiskInv, DiskTypes, PkgOf
      <3>3. \A s, q : YesOf(s, q) => YesOf(s, q)'
        BY <2>1, <3>1 DEF YesOf, Origin, PkgOf, SameDisk
      <3>4. p \in scripts' => YesOf(link, p)'
        <4> SUFFICES ASSUME p \in scripts' PROVE YesOf(link, p)'
          OBVIOUS
        <4>1. CASE trusted' = trusted \cup {folders[p][site[link][p]]}
          BY <2>1, <3>1, <3>2, <4>1 DEF YesOf, Origin, PkgOf, SameDisk
        <4>2. CASE scripts' = scripts \ {p}
          BY <4>2
        <4> QED
          BY <3>1, <4>1, <4>2
      <3> QED
        BY <2>1, <3>1, <3>3, <3>4 DEF YesInv, SameDisk, Packages!At
    <2> QED
      BY <1>3, <2>2, <2>3, <2>4
      DEF Beside, Packages!PagePolls, Packages!InstanceStarts, Packages!config, PackagesVars
  <1>4. CASE Restarting
    <2> SUFFICES ASSUME ~torn' PROVE YesInv'
      BY DEF YesInv
    <2>1. ~torn /\ ~Packages!At("save") /\ SameDisk /\ have' = have /\ scripts' = scripts /\ trusted' = trusted
      BY <1>4, RestartingMoves
    <2> QED
      BY <1>1, <1>2, <2>1 DEF YesInv, SameDisk
  <1>5. CASE Asking
    <2>1. /\ ~Packages!At("save") /\ SameDisk /\ have' = have /\ scripts' = scripts /\ trusted' = trusted
          /\ torn' = torn
      BY <1>5, AskingMoves, MostKeepDisk DEF Packages!At
    <2> QED
      BY <1>1, <1>2, <2>1 DEF YesInv, SameDisk
  <1>6. CASE Packages!HostRestarts
    <2> SUFFICES ASSUME ~torn' PROVE YesInv'
      BY DEF YesInv
    <2>1. /\ ~torn /\ SameDisk /\ have' = have /\ scripts' = scripts /\ trusted' = trusted
          /\ job' = job \/ ~Packages!At("save")
      BY <1>0, <1>6, HostRestartsMoves DEF DiskInv, SameDisk, Packages!At
    <2>2. CASE ~Packages!At("save")
      BY <1>1, <1>2, <2>1, <2>2 DEF YesInv, SameDisk
    <2>3. CASE job' = job
      <3>1. nx' = nx
        BY <1>0, <2>1 DEF SameDisk
      <3> QED
        BY <2>1, <2>3, <3>1 DEF YesInv, YesOf, Origin, SameDisk, Packages!At
    <2> QED
      BY <2>1, <2>2, <2>3
  <1>7. CASE Packages!Commits
    <2>1. job.st = "running" /\ job.pc = "commit" /\ job'.st = "running" /\ job'.pc = "save"
      BY <1>0, <1>7, JobMoves DEF Packages!At, GoesTo
    <2>2. /\ site' = site /\ folders' = folders /\ link' = nx /\ have' = have /\ scripts' = scripts
          /\ trusted' = trusted /\ torn' = torn
      BY <1>7 DEF Packages!Commits, Packages!config
    <2>3. nx' = link
      BY <1>0, <2>2
    <2> QED
      BY <2>1, <2>2, <2>3 DEF YesInv, YesOf, Origin, Packages!At
  <1>8. CASE Packages!Saves
    <2> DEFINE gone == {p \in Pkgs : job.from[p] # 0 /\ site[link][p] = 0}
               new  == {p \in Pkgs : site[link][p] # job.from[p] /\ site[link][p] # 0}
    <2> SUFFICES ASSUME ~torn' PROVE YesInv'
      BY DEF YesInv
    <2>1. /\ SameDisk /\ trusted' = trusted /\ torn' = torn
          /\ have' = have \ gone
          /\ scripts' = IF job.op # "install" THEN scripts \ gone
                        ELSE (scripts \ new) \cup {p \in new : Origin(link, p) = Owner}
      BY <1>8, MostKeepDisk, PackagesConstants DEF Packages!Saves, Pkgs, Origin, Packages!Installed
    <2>2. /\ Packages!At("save") /\ job.from = site[nx] /\ Differs(nx, link) /\ ~torn
      BY <1>0, <1>8, <2>1, JobMoves DEF StepInv, ChangeInv
    <2>3. /\ \A p \in scripts : p \in Pkgs /\ (YesOf(link, p) \/ YesOf(nx, p))
          /\ \A p \in have : p \in Pkgs /\ (site[link][p] # 0 \/ site[nx][p] # 0)
      BY <1>0, <2>2 DEF YesInv
    <2>4. \A p \in have' : site'[link'][p] # 0
      BY <2>1, <2>2, <2>3 DEF SameDisk
    <2>5. ASSUME NEW p \in Pkgs, site[link][p] = site[nx][p], YesOf(nx, p) PROVE YesOf(link, p)
      BY <2>5 DEF YesOf, Origin
    <2>6. ASSUME NEW p \in scripts' PROVE YesOf(link, p)
      <3>1. CASE job.op = "install"
        <4>1. CASE p \in new /\ Origin(link, p) = Owner
          BY <4>1 DEF YesOf
        <4>2. CASE p \in scripts /\ p \notin new
          <5>1. p \in Pkgs /\ (site[link][p] = site[nx][p] \/ site[link][p] = 0)
            BY <2>2, <2>3, <4>2
          <5>2. site[link][p] = 0 => site[nx][p] = 0
            BY <2>2, <3>1, <5>1 DEF Differs
          <5>3. YesOf(link, p) \/ YesOf(nx, p)
            BY <2>3, <4>2
          <5> QED
            BY <2>5, <5>1, <5>2, <5>3 DEF YesOf
        <4> QED
          BY <2>1, <2>6, <3>1, <4>1, <4>2
      <3>2. CASE job.op # "install"
        <4>1. p \in scripts /\ p \in Pkgs /\ ~(site[nx][p] # 0 /\ site[link][p] = 0)
          BY <2>1, <2>2, <2>3, <2>6, <3>2
        <4>2. YesOf(link, p) \/ YesOf(nx, p)
          BY <2>3, <4>1
        <4>3. CASE YesOf(nx, p)
          <5>1. site[nx][p] # 0 /\ site[link][p] # 0 /\ job.op \in {"update", "uninstall"}
            BY <1>0, <3>2, <4>1, <4>3 DEF YesOf, PackageJob
          <5>2. \/ site[link][p] = site[nx][p]
                \/ Origin(link, p) = Origin(nx, p)
            BY <2>2, <4>1, <5>1 DEF Differs
          <5> QED
            BY <2>5, <4>1, <4>3, <5>1, <5>2 DEF YesOf
        <4> QED
          BY <4>2, <4>3
      <3> QED
        BY <3>1, <3>2
    <2>7. \A p \in scripts' : YesThen(link', p)
      BY <1>2, <2>1, <2>6
    <2> QED
      BY <1>1, <2>4, <2>7
  <1>9. CASE Building
    <2>1. /\ link' = link /\ SiteKept(link) /\ ~Packages!At("save")
          /\ have' = have /\ scripts' = scripts /\ trusted' = trusted /\ torn' = torn
      BY <1>0, <1>9, BuildingKeeps DEF Packages!At
    <2> SUFFICES ASSUME ~torn' PROVE YesInv'
      BY DEF YesInv
    <2>2. /\ \A p \in scripts : p \in Pkgs /\ YesOf(link, p)
          /\ \A p \in have : p \in Pkgs /\ site[link][p] # 0
      BY <1>0, <2>1 DEF YesInv
    <2>3. ASSUME NEW p \in scripts' PROVE YesThen(link', p)
      <3>1. p \in Pkgs /\ YesOf(link, p)
        BY <2>1, <2>2, <2>3
      <3> QED
        BY <2>1, <3>1 DEF SiteKept, YesOf, Origin
    <2>4. \A p \in have' : site'[link'][p] # 0
      BY <2>1, <2>2 DEF SiteKept
    <2> QED
      BY <1>1, <2>3, <2>4
  <1> QED
    BY <1>3, <1>4, <1>5, <1>6, <1>7, <1>8, <1>9, PackagesSteps DEF Building

(* At first there are whole modules of different names, that run from site a. *)
LEMMA PackagesInit == ASSUME NoHurry, Packages!Init PROVE PackagesInv
  <1>0. PICK first \in Firsts :
          /\ folders = [p \in Pkgs |-> [n \in 1..MaxFolders |-> IF n = 1 THEN first[p] ELSE "none"]]
          /\ site = [s \in Packages!Sites |-> IF s = "a" THEN [p \in Pkgs |-> 1] ELSE [p \in Pkgs |-> 0]]
          /\ link = "a" /\ have = Pkgs /\ running = [p \in Pkgs |-> 1]
          /\ scripts = {p \in Pkgs : ReleaseInfo[first[p]].from = Owner}
          /\ job = Packages!NoJob /\ page = [st |-> "none", over |-> FALSE, done |-> FALSE] /\ trusted = {}
          /\ torn = FALSE /\ left \in JobScenes
    BY PackagesConstants DEF Packages!Init, Pkgs
  <1>1. 1 \in Folders /\ 1 \in 0..MaxFolders /\ 0 \in 0..MaxFolders /\ Packages!Sites = {"a", "b"}
    BY PackagesConstants DEF Folders
  <1>2. \A p \in Pkgs : first[p] \in Published /\ folders[p][1] = first[p] /\ ReleaseInfo[first[p]].pkg = p
    <2>1. first \in [Pkgs -> Published] /\ \A p \in Pkgs : ReleaseInfo[first[p]].pkg = p
      BY <1>0, PackagesConstants
    <2>2. \A p \in Pkgs : folders[p] = [n \in 1..MaxFolders |-> IF n = 1 THEN first[p] ELSE "none"]
      BY <1>0
    <2>3. 1 \in 1..MaxFolders
      BY <1>1 DEF Folders
    <2> QED
      BY <2>1, <2>2, <2>3
  <1>3. \A p \in Pkgs : site["a"][p] = 1 /\ site["b"][p] = 0
    BY <1>0, <1>1
  <1>4. Packages!NoJob \in PackageJob /\ job.st = "idle" /\ job.want = {} /\ job.todo = {}
    <2>1. [p \in Pkgs |-> 0] \in [Pkgs -> 0..MaxFolders]
      BY <1>1
    <2> QED
      BY <1>0, <2>1, PackagesConstants DEF Packages!NoJob, PackageJob
  <1>5. DiskTypes
    <2>1. folders \in [Pkgs -> [Folders -> Published \cup {"none", "partial"}]]
      <3>1. \A p \in Pkgs : [n \in 1..MaxFolders |-> IF n = 1 THEN first[p] ELSE "none"]
                              \in [Folders -> Published \cup {"none", "partial"}]
        BY <1>2 DEF Folders
      <3> QED
        BY <1>0, <3>1
    <2>2. \A p \in Pkgs, n \in Folders : folders[p][n] \in Published => ReleaseInfo[folders[p][n]].pkg = p
      <3>1. \A p \in Pkgs, n \in Folders : folders[p][n] = IF n = 1 THEN first[p] ELSE "none"
        BY <1>0 DEF Folders
      <3> QED
        BY <1>2, <3>1, PackagesConstants
    <2>3. site \in [Packages!Sites -> [Pkgs -> 0..MaxFolders]]
      <3>1. [p \in Pkgs |-> 0] \in [Pkgs -> 0..MaxFolders] /\ [p \in Pkgs |-> 1] \in [Pkgs -> 0..MaxFolders]
        BY <1>1
      <3> QED
        BY <1>0, <3>1
    <2> QED
      BY <1>0, <1>1, <2>1, <2>2, <2>3 DEF DiskTypes
  <1>6. WholeInv
    BY <1>1, <1>2, <1>3 DEF WholeInv
  <1>7. NamesInv
    <2> SUFFICES ASSUME NEW s \in Packages!Sites, NEW p \in Pkgs, NEW q \in Pkgs, p # q, site[s][p] # 0,
                        site[s][q] # 0
        PROVE ReleaseInfo[folders[p][site[s][p]]].names \cap ReleaseInfo[folders[q][site[s][q]]].names = {}
      BY DEF NamesInv
    <2>1. folders[p][site[s][p]] = first[p] /\ folders[q][site[s][q]] = first[q]
      BY <1>1, <1>2, <1>3
    <2> QED
      BY <2>1, PackagesConstants
  <1>8. RestTypes
    <2>1. left \in JobBounds /\ left.hurry = 0
      BY <1>0, PackagesConstants DEF NoHurry
    <2>2. running \in [Pkgs -> 0..MaxFolders]
      BY <1>0, <1>1
    <2> QED
      BY <1>0, <1>4, <2>1, <2>2 DEF RestTypes
  <1>9. RunsInv
    BY <1>0, <1>3 DEF RunsInv
  <1>10. StepInv /\ DoneInv /\ ChangeInv
    BY <1>4 DEF StepInv, DoneInv, ChangeInv, Making, Switched, Packages!At
  <1>11. YesInv
    <2>1. \A p \in scripts : YesOf(link, p)
      BY <1>0, <1>2, <1>3 DEF YesOf, Origin
    <2>2. \A p \in have : site[link][p] # 0
      BY <1>0, <1>3
    <2> QED
      BY <2>1, <2>2 DEF YesInv
  <1> QED
    BY <1>5, <1>6, <1>7, <1>8, <1>9, <1>10, <1>11 DEF PackagesInv, DiskInv

(* Each step keeps the invariant. *)
LEMMA PackagesStep == ASSUME PackagesInv, [Packages!Next]_PackagesVars PROVE PackagesInv'
  <1>1. DiskInv'
    BY DiskStep DEF PackagesInv, RestTypes
  <1>2. DiskTypes'
    BY <1>1 DEF DiskInv
  <1>3. RestTypes' /\ RunsInv'
    BY <1>2, RestStep, RunsStep DEF PackagesInv
  <1>4. StepInv' /\ DoneInv' /\ ChangeInv' /\ YesInv'
    BY <1>1, StepStep, DoneStep, ChangeStep, YesStep DEF PackagesInv
  <1> QED
    BY <1>1, <1>3, <1>4 DEF PackagesInv

(* The site that runs has only whole modules, no two with a module of one name, and no change touches the code of
   running instances; a job that failed changed nothing and one that succeeded all it was asked; and scripts run only
   for a package whose origin the owner allowed: for any releases, folders, failures and restarts,
   as long as no job is
   asked for while the app restarts for the last one (packages.py, _change_packages, uninstall_module). *)
THEOREM SiteAlwaysSound == ASSUME NoHurry PROVE Spec => []SiteIsSound
  <1> DEFINE Inv == part = "packages" => PackagesInv
  <1>1. Init => Inv
    BY PackagesInit DEF Init
  <1>2. Inv /\ [Next]_vars => Inv'
    BY PackagesStep, StepOfPart
  <1>3. ASSUME PackagesInv PROVE Packages!SiteIsSound
    <2>1. /\ folders \in [Pkgs -> [Folders -> Published \cup {"none", "partial"}]]
          /\ \A p \in Pkgs, n \in Folders : folders[p][n] \in Published => ReleaseInfo[folders[p][n]].pkg = p
          /\ site \in [Packages!Sites -> [Pkgs -> 0..MaxFolders]] /\ link \in Packages!Sites
      BY <1>3 DEF PackagesInv, DiskInv, DiskTypes
    <2>2. /\ running \in [Pkgs -> 0..MaxFolders] /\ have \subseteq Pkgs /\ scripts \subseteq Pkgs
          /\ job.st \in {"idle", "running", "restarting", "failed"} /\ page.st \in {"none", "follows", "success",
             "failed"}
      BY <1>3 DEF PackagesInv, RestTypes, PackageJob
    <2>3. Packages!TypeOK
      <3>1. \A p \in Pkgs, n \in Folders :
              folders[p][n] \in {"none", "partial"} \cup {r \in Published : ReleaseInfo[r].pkg = p}
        BY <2>1
      <3> QED
        BY <2>1, <2>2, <3>1, PackagesConstants DEF Packages!TypeOK, Folders
    <2>4. \A s \in Packages!Sites, p \in Pkgs : site[s][p] # 0 => folders[p][site[s][p]] \in Published
      BY <1>3 DEF PackagesInv, DiskInv, WholeInv
    <2>5. \A p \in Pkgs : running[p] # 0 => folders[p][running[p]] \in Published
      <3>1. Packages!next_site \in Packages!Sites
        BY <2>1, TwoSites
      <3>2. \A p \in Pkgs : running[p] \in {0, site[link][p], site[Packages!next_site][p]}
        BY <1>3 DEF PackagesInv, RunsInv
      <3> QED
        BY <2>1, <2>4, <3>1, <3>2
    <2>6. \A p, q \in Pkgs : p # q /\ site[link][p] # 0 /\ site[link][q] # 0 =>
            ReleaseInfo[folders[p][site[link][p]]].names \cap ReleaseInfo[folders[q][site[link][q]]].names = {}
      BY <1>3, <2>1 DEF PackagesInv, DiskInv, NamesInv
    <2> QED
      BY <2>1, <2>3, <2>4, <2>5, <2>6, PackagesConstants
      DEF Packages!SiteIsSound, Packages!RunningKept, Packages!Whole, Packages!Installed
  <1>4. ASSUME PackagesInv PROVE Packages!AllOrNothing
    <2>1. StepInv /\ DoneInv
      BY <1>4 DEF PackagesInv
    <2>2. ~torn /\ job.st = "failed" => site[link] = job.from
      BY <2>1 DEF StepInv
    <2>3. job.st = "restarting" /\ job.op # "uninstall"
          => \A r \in job.want : folders[PkgOf(r)][site[link][PkgOf(r)]] = r
      BY <2>1 DEF StepInv, DoneInv, DoneAt, Switched
    <2> QED
      BY <2>2, <2>3 DEF Packages!AllOrNothing, Packages!Installed, PkgOf
  <1>5. ASSUME PackagesInv PROVE Packages!YesIsItsOwn
    <2>1. YesInv
      BY <1>5 DEF PackagesInv
    <2> SUFFICES ASSUME ~torn, ~Packages!At("save")
        PROVE /\ \A p \in scripts : YesOf(link, p)
              /\ \A p \in have : site[link][p] # 0
      BY PackagesConstants DEF Packages!YesIsItsOwn, Packages!Installed, YesOf, Origin, PkgOf
    <2> QED
      BY <2>1 DEF YesInv
  <1>6. Inv => SiteIsSound
    BY <1>3, <1>4, <1>5 DEF SiteIsSound
  <1> QED
    BY <1>1, <1>2, <1>6, PTL DEF Spec
=============================================================================
