------------------------------- MODULE DiProofs -------------------------------
(***************************************************************************)
(* What holds of a scope for every tree of providers.                      *)
(*                                                                         *)
(* PlanInv: the levels planned so far are disjoint, and each needs only    *)
(* earlier ones.  BuildInv: construction has reached a level, everything   *)
(* below it is acquired, and a factory still running is one of that level  *)
(* while it is under construction.  ScopeInv: the scope holds exactly the  *)
(* finalisers of what was acquired, a release before all that relies on    *)
(* what it releases.                                                       *)
(***************************************************************************)
EXTENDS DiBuild, FiniteSetTheorems, SequenceTheorems, TLAPS

LevelIndices == 1..Len(levels)

PlanInv ==
  /\ \A k \in LevelIndices : levels[k] \subseteq Resolved
  /\ \A j, k \in LevelIndices : j # k => levels[j] \cap levels[k] = {}
  /\ \A k \in LevelIndices : \A p \in levels[k] : \A q \in Needs(p) : \E j \in 1..(k - 1) : q \in levels[j]

BuildInv ==
  /\ stage = "planning" => level = 0
  /\ stage # "planning" => plan # "running"
  /\ level \in 0..Len(levels)
  /\ stage = "constructing" => level # 0
  /\ \A p \in Provider : service[p] # "none" => \E k \in 1..level : p \in levels[k]
  /\ \A k \in 1..(level - 1) : levels[k] \subseteq Acquired
  /\ \A p \in Provider : service[p] = "constructing" => stage = "constructing" /\ p \in levels[level]
  /\ \A p \in Provider : service[p] # "none" => Needs(p) \subseteq Acquired

HookInv ==
  /\ hooked \subseteq Placed
  /\ hooked # {} => stage \notin {"planning", "constructing"}
  /\ \A p \in hooked : Needs(p) \cap Starting \subseteq hooked

Registered == (Acquired \cap Releasing) \X {"release"} \cup (Acquired \cap Stopping) \X {"onStop"}

\* f must run before g: it stops what g releases, or was built from it.
MustPrecede(f, g) ==
  /\ g[2] = "release"
  /\ f = <<g[1], "onStop">> \/ g[1] \in Needs(f[1])

ScopeInv ==
  /\ ToSet(finalisers) \cup ended = Registered
  /\ \A i, j \in DOMAIN finalisers : MustPrecede(finalisers[j], finalisers[i]) => i < j
  /\ \A g \in ended, f \in ToSet(finalisers) : ~MustPrecede(f, g)
  /\ ended # {} => stage \in {"closing", "closed"}
  /\ stage = "closed" => finalisers = <<>>

IInv == TypeOK /\ PlanInv /\ BuildInv /\ HookInv /\ ScopeInv

-----------------------------------------------------------------------------
(* The operators a step leaves alone.                                       *)

LEMMA PlanKept ==
  ASSUME UNCHANGED planVars
  PROVE  /\ Resolved' = Resolved /\ Placed' = Placed /\ LevelIndices' = LevelIndices
         /\ \A p : Needs(p)' = Needs(p)
         /\ \A f, g : MustPrecede(f, g)' <=> MustPrecede(f, g)
         /\ PlanInv => PlanInv'
<1>1. wiring' = wiring /\ levels' = levels  BY DEF planVars
<1>2. Resolved' = Resolved  BY <1>1 DEF Resolved, Overrides, IsBaseOf, Bases, PortOf
<1>3. Placed' = Placed /\ LevelIndices' = LevelIndices  BY <1>1 DEF Placed, LevelIndices
<1>4. \A p : Needs(p)' = Needs(p)  BY <1>1, <1>2 DEF Needs, PortOf
<1>5. \A f, g : MustPrecede(f, g)' <=> MustPrecede(f, g)  BY <1>4 DEF MustPrecede
<1>6. PlanInv => PlanInv'  BY <1>1, <1>2, <1>3, <1>4 DEF PlanInv
<1>7. QED  BY <1>2, <1>3, <1>4, <1>5, <1>6

LEMMA WiringKept ==
  ASSUME wiring' = wiring
  PROVE  Resolved' = Resolved /\ \A p : Needs(p)' = Needs(p)
<1>1. Resolved' = Resolved  BY DEF Resolved, Overrides, IsBaseOf, Bases, PortOf
<1>2. \A p : Needs(p)' = Needs(p)  BY <1>1 DEF Needs, PortOf
<1>3. QED  BY <1>1, <1>2

LEMMA AcquiredKept ==
  ASSUME service' = service
  PROVE  Acquired' = Acquired /\ Registered' = Registered
BY DEF Acquired, Registered

\* What a provider needs is in levels before its own, so it does not need itself.
LEMMA NeedsAreEarlier ==
  ASSUME TypeOK, PlanInv, NEW k \in LevelIndices, NEW p \in levels[k], NEW q \in Needs(p)
  PROVE  /\ \E j \in 1..(k - 1) : j \in LevelIndices /\ q \in levels[j]
         /\ q \notin levels[k]
<1>1. PICK j \in 1..(k - 1) : q \in levels[j]  BY DEF PlanInv
<1>2. Len(levels) \in Nat  BY DEF TypeOK
<1>3. j \in LevelIndices /\ j # k  BY <1>1, <1>2 DEF LevelIndices
<1>4. levels[j] \cap levels[k] = {}  BY <1>3 DEF PlanInv
<1>5. QED  BY <1>1, <1>3, <1>4

-----------------------------------------------------------------------------
(* Planning.                                                                *)

\* A round appends a level disjoint from the others whose needs are all placed.
LEMMA LevelKeepsPlan ==
  ASSUME TypeOK, PlanInv, PlanLevel
  PROVE  PlanInv' /\ levels' \in Seq(SUBSET Provider)
<1>1. wiring' = wiring  BY DEF PlanLevel
<1>2. Resolved' = Resolved /\ \A p : Needs(p)' = Needs(p)  BY <1>1, WiringKept
<1>3. CASE levels' = levels
  BY <1>2, <1>3 DEF PlanInv, LevelIndices, TypeOK
<1>4. CASE levels' = Append(levels, Ready)
  <2>1. Ready \subseteq Resolved /\ Ready \cap Placed = {}  BY DEF Ready, Remaining
  <2>2. Resolved \subseteq Provider  BY DEF Resolved
  <2>3. levels \in Seq(SUBSET Provider)  BY DEF TypeOK
  <2>4. /\ Len(levels) \in Nat /\ Len(levels') = Len(levels) + 1
        /\ levels'[Len(levels) + 1] = Ready
        /\ \A k \in 1..Len(levels) : levels'[k] = levels[k]
        /\ levels' \in Seq(SUBSET Provider)
    BY <1>4, <2>1, <2>2, <2>3
  <2>5. \A k \in LevelIndices' : k \in LevelIndices \/ k = Len(levels) + 1
    BY <2>4 DEF LevelIndices
  <2>6. \A k \in LevelIndices : levels[k] \subseteq Placed
    BY <2>3 DEF Placed, LevelIndices
  <2>7. \A k \in LevelIndices' : levels'[k] \subseteq Resolved'
    BY <1>2, <2>1, <2>4, <2>5 DEF PlanInv, LevelIndices
  <2>8. ASSUME NEW j \in LevelIndices', NEW k \in LevelIndices', j # k
        PROVE  levels'[j] \cap levels'[k] = {}
    <3>1. CASE j \in LevelIndices /\ k \in LevelIndices
      BY <2>4, <2>8, <3>1 DEF PlanInv, LevelIndices
    <3>2. CASE j \in LevelIndices /\ k = Len(levels) + 1
      BY <2>1, <2>4, <2>6, <3>2 DEF LevelIndices
    <3>3. CASE k \in LevelIndices /\ j = Len(levels) + 1
      BY <2>1, <2>4, <2>6, <3>3 DEF LevelIndices
    <3>4. QED  BY <2>5, <2>8, <3>1, <3>2, <3>3
  <2>9. ASSUME NEW k \in LevelIndices', NEW p \in levels'[k], NEW q \in Needs(p)'
        PROVE  \E j \in 1..(k - 1) : q \in levels'[j]
    <3>1. q \in Needs(p)  BY <1>2, <2>9
    <3>2. CASE k \in LevelIndices
      <4>1. PICK j \in 1..(k - 1) : q \in levels[j]  BY <2>4, <2>9, <3>1, <3>2 DEF PlanInv, LevelIndices
      <4>2. j \in 1..Len(levels)  BY <2>4, <3>2, <4>1 DEF LevelIndices
      <4>3. QED  BY <2>4, <4>1, <4>2
    <3>3. CASE k = Len(levels) + 1
      <4>1. p \in Ready  BY <2>4, <2>9, <3>3
      <4>2. q \in Placed  BY <3>1, <4>1 DEF Ready, IsSatisfied, Needs
      <4>3. PICK j \in 1..Len(levels) : q \in levels[j]  BY <2>3, <4>2 DEF Placed
      <4>4. j \in 1..(k - 1)  BY <2>4, <3>3, <4>3
      <4>5. QED  BY <2>4, <4>3, <4>4
    <3>4. QED  BY <2>5, <2>9, <3>2, <3>3
  <2>10. QED  BY <2>4, <2>7, <2>8, <2>9 DEF PlanInv
<1>5. QED  BY <1>3, <1>4 DEF PlanLevel

-----------------------------------------------------------------------------
(* Construction.                                                            *)

\* A service that none of the levels so far holds has not been asked for.
LEMMA UnreachedIsNone ==
  ASSUME TypeOK, PlanInv, BuildInv, NEW k \in LevelIndices, k > level, NEW p \in levels[k]
  PROVE  p \in Provider /\ service[p] = "none"
<1>1. Len(levels) \in Nat /\ level \in Nat /\ levels[k] \subseteq Provider
  BY DEF TypeOK, LevelIndices
<1>2. SUFFICES ASSUME service[p] # "none" PROVE FALSE
  BY <1>1
<1>3. PICK j \in 1..level : p \in levels[j]  BY <1>1, <1>2 DEF BuildInv
<1>4. j \in LevelIndices /\ j # k  BY <1>1, <1>3 DEF LevelIndices, BuildInv
<1>5. QED  BY <1>3, <1>4 DEF PlanInv

\* A level starts once the ones before it have been acquired.
LEMMA ConstructKeeps ==
  ASSUME TypeOK, PlanInv, BuildInv, UNCHANGED planVars, plan # "running",
         NEW k \in LevelIndices, level = k - 1, Construct(k), stage' = "constructing",
         \A p \in Provider : service[p] # "constructing",
         \A j \in 1..(k - 1) : levels[j] \subseteq Acquired
  PROVE  /\ BuildInv' /\ Acquired' = Acquired
         /\ level' \in Nat
         /\ service' \in [Provider -> {"none", "constructing"} \cup Answers]
<1>1. Len(levels) \in Nat /\ levels \in Seq(SUBSET Provider)  BY DEF TypeOK
<1>2. k \in 1..Len(levels) /\ level' = k /\ levels' = levels /\ plan' = plan
  BY DEF LevelIndices, Construct, planVars
<1>3. service' = [p \in Provider |-> IF p \in levels[k] THEN "constructing" ELSE service[p]]
  BY DEF Construct
<1>4. k > level  BY <1>1, <1>2
<1>5. \A p \in levels[k] : p \in Provider /\ service[p] = "none"  BY <1>4, UnreachedIsNone
<1>6. service' \in [Provider -> {"none", "constructing"} \cup Answers]  BY <1>3 DEF TypeOK
<1>7. Acquired' = Acquired
  <2>1. ASSUME NEW p \in Provider PROVE service'[p] = "ok" <=> service[p] = "ok"
    BY <1>3, <1>5
  <2>2. QED  BY <2>1 DEF Acquired
<1>8. \A p : Needs(p)' = Needs(p)  BY PlanKept
<1>9. \A p \in Provider : service'[p] # "none" => \E j \in 1..k : p \in levels[j]
  <2> SUFFICES ASSUME NEW p \in Provider, service'[p] # "none" PROVE \E j \in 1..k : p \in levels[j]
    OBVIOUS
  <2>1. CASE p \in levels[k]  BY <1>2, <2>1
  <2>2. CASE p \notin levels[k]
    <3>1. service[p] # "none"  BY <1>3, <2>2
    <3>2. PICK j \in 1..level : p \in levels[j]  BY <3>1 DEF BuildInv
    <3>3. j \in 1..k  BY <1>2, <3>2
    <3>4. QED  BY <3>2, <3>3
  <2>3. QED  BY <2>1, <2>2
<1>10. \A p \in Provider : service'[p] = "constructing" => p \in levels[k]  BY <1>3
<1>11. ASSUME NEW p \in Provider, service'[p] # "none" PROVE Needs(p) \subseteq Acquired
  <2>1. CASE p \in levels[k]
    <3> SUFFICES ASSUME NEW q \in Needs(p) PROVE q \in Acquired
      OBVIOUS
    <3>1. PICK j \in 1..(k - 1) : q \in levels[j]  BY <2>1, NeedsAreEarlier
    <3>2. QED  BY <3>1
  <2>2. CASE p \notin levels[k]
    <3>1. service[p] # "none"  BY <1>3, <1>11, <2>2
    <3>2. QED  BY <3>1 DEF BuildInv
  <2>3. QED  BY <2>1, <2>2
<1>12. BuildInv'
  BY <1>1, <1>2, <1>7, <1>8, <1>9, <1>10, <1>11 DEF BuildInv
<1>13. level' \in Nat  BY <1>2
<1>14. QED  BY <1>6, <1>7, <1>12, <1>13

\* What a factory that answers registers, and in which order.
LEMMA FinalisersShape ==
  ASSUME NEW p \in Provider
  PROVE  /\ FinalisersOf(p) \in Seq(Finalisers)
         /\ ToSet(FinalisersOf(p)) =
              ({p} \cap Releasing) \X {"release"} \cup ({p} \cap Stopping) \X {"onStop"}
         /\ \A i \in DOMAIN FinalisersOf(p) : FinalisersOf(p)[i] \in {<<p, "release">>, <<p, "onStop">>}
         /\ \A i, j \in DOMAIN FinalisersOf(p) :
              FinalisersOf(p)[i][2] = "release" /\ FinalisersOf(p)[j][2] = "onStop" => i < j
<1> DEFINE R == <<p, "release">>
           S == <<p, "onStop">>
<1>1. R \in Finalisers /\ S \in Finalisers  BY DEF Finalisers
<1>2. CASE p \in Releasing /\ p \in Stopping
  <2>1. FinalisersOf(p) = <<R>> \o <<S>>  BY <1>2 DEF FinalisersOf
  <2>2. <<R>> \in Seq(Finalisers) /\ <<S>> \in Seq(Finalisers) /\ Len(<<R>>) = 1 /\ Len(<<S>>) = 1
    BY <1>1
  <2>3. /\ FinalisersOf(p) \in Seq(Finalisers) /\ Len(FinalisersOf(p)) = 2
        /\ FinalisersOf(p)[1] = R /\ FinalisersOf(p)[2] = S
    BY <2>1, <2>2, ConcatProperties
  <2>4. DOMAIN FinalisersOf(p) = {1, 2}  BY <2>3
  <2>5. QED  BY <1>2, <2>3, <2>4 DEF ToSet
<1>3. CASE p \in Releasing /\ p \notin Stopping
  <2>1. FinalisersOf(p) = <<R>>  BY <1>3 DEF FinalisersOf
  <2>2. QED  BY <1>1, <1>3, <2>1 DEF ToSet
<1>4. CASE p \notin Releasing /\ p \in Stopping
  <2>1. FinalisersOf(p) = <<S>>  BY <1>4 DEF FinalisersOf
  <2>2. QED  BY <1>1, <1>4, <2>1 DEF ToSet
<1>5. CASE p \notin Releasing /\ p \notin Stopping
  <2>1. FinalisersOf(p) = <<>>  BY <1>5 DEF FinalisersOf
  <2>2. QED  BY <1>1, <1>5, <2>1 DEF ToSet
<1>6. QED  BY <1>2, <1>3, <1>4, <1>5

LEMMA SettleKeeps ==
  ASSUME IInv, NEW p \in Provider, NEW how \in Answers, Settle(p, how)
  PROVE  IInv'
<1> USE DEF IInv
<1>1. /\ service[p] = "constructing" /\ service' = [service EXCEPT ![p] = how]
      /\ UNCHANGED <<stage, level, hooked, ended, outcome>> /\ UNCHANGED planVars
  BY DEF Settle
<1>2. stage = "constructing" /\ p \in levels[level] /\ level \in LevelIndices
  BY <1>1 DEF BuildInv, TypeOK, LevelIndices
<1>3. hooked = {} /\ ended = {}  BY <1>2 DEF HookInv, ScopeInv
<1>4. /\ Placed' = Placed /\ PlanInv' /\ \A q : Needs(q)' = Needs(q)
      /\ \A f, g : MustPrecede(f, g)' <=> MustPrecede(f, g)
  BY <1>1, PlanKept
<1>5. \A q \in Provider : service'[q] = IF q = p THEN how ELSE service[q]
  BY <1>1 DEF TypeOK
<1>6. Acquired' = IF how = "ok" THEN Acquired \cup {p} ELSE Acquired
  <2>1. p \notin Acquired  BY <1>1 DEF Acquired
  <2>2. CASE how = "ok"  BY <1>5, <2>2 DEF Acquired
  <2>3. CASE how # "ok"  BY <1>5, <2>1, <2>3 DEF Acquired
  <2>4. QED  BY <2>2, <2>3
<1>7. p \notin Acquired /\ Needs(p) \subseteq Acquired
  BY <1>1 DEF Acquired, BuildInv
<1>8. BuildInv'
  <2>1. levels' = levels /\ plan' = plan  BY <1>1 DEF planVars
  <2>2. \A q \in Provider : service'[q] # "none" <=> service[q] # "none"
    BY <1>1, <1>5 DEF Answers
  <2>3. \A q \in Provider : service'[q] = "constructing" => service[q] = "constructing"
    BY <1>1, <1>5
  <2>4. Acquired \subseteq Acquired'  BY <1>6
  <2>5. QED  BY <1>1, <1>4, <2>1, <2>2, <2>3, <2>4 DEF BuildInv
<1>9. HookInv'  BY <1>1, <1>3 DEF HookInv
<1>10. service' \in [Provider -> {"none", "constructing"} \cup Answers]
  BY <1>1 DEF TypeOK
<1>11. finalisers \in Seq(Finalisers)  BY DEF TypeOK
<1>12. CASE how = "ok"
  <2> DEFINE F == FinalisersOf(p)
             n == Len(finalisers)
  <2>1. finalisers' = finalisers \o F  BY <1>12 DEF Settle
  <2>2. F \in Seq(Finalisers)  BY FinalisersShape
  <2>3. /\ finalisers' \in Seq(Finalisers) /\ n \in Nat /\ Len(F) \in Nat
        /\ Len(finalisers') = n + Len(F)
        /\ \A i \in 1..n + Len(F) : finalisers'[i] = IF i <= n THEN finalisers[i] ELSE F[i - n]
    BY <1>11, <2>1, <2>2, ConcatProperties
  <2>4. DOMAIN finalisers' = 1..n + Len(F) /\ DOMAIN finalisers = 1..n /\ DOMAIN F = 1..Len(F)
    BY <1>11, <2>2, <2>3
  <2>5. \A i \in DOMAIN finalisers' :
          \/ i \in DOMAIN finalisers /\ finalisers'[i] = finalisers[i]
          \/ i - n \in DOMAIN F /\ i > n /\ finalisers'[i] = F[i - n]
    BY <2>3, <2>4
  <2>6. ToSet(finalisers') = ToSet(finalisers) \cup ToSet(F)
    <3>1. ToSet(finalisers') \subseteq ToSet(finalisers) \cup ToSet(F)  BY <2>5 DEF ToSet
    <3>2. ASSUME NEW i \in DOMAIN finalisers PROVE finalisers[i] \in ToSet(finalisers')
      <4>1. i \in DOMAIN finalisers' /\ finalisers'[i] = finalisers[i]  BY <2>3, <2>4, <3>2
      <4>2. QED  BY <4>1 DEF ToSet
    <3>3. ASSUME NEW i \in DOMAIN F PROVE F[i] \in ToSet(finalisers')
      <4>1. n + i \in DOMAIN finalisers' /\ n + i > n /\ (n + i) - n = i  BY <2>3, <2>4, <3>3
      <4>2. finalisers'[n + i] = F[i]  BY <2>3, <2>4, <4>1
      <4>3. QED  BY <4>1, <4>2 DEF ToSet
    <3>4. QED  BY <3>1, <3>2, <3>3 DEF ToSet
  <2>7. ToSet(finalisers') \cup ended' = Registered'
    <3>1. Acquired' = Acquired \cup {p}  BY <1>6, <1>12
    <3>2. ToSet(finalisers) = Registered  BY <1>3 DEF ScopeInv
    <3>3. ToSet(F) = ({p} \cap Releasing) \X {"release"} \cup ({p} \cap Stopping) \X {"onStop"}
      BY FinalisersShape
    <3>4. ToSet(finalisers') = Registered'  BY <2>6, <3>1, <3>2, <3>3 DEF Registered
    <3>5. QED  BY <1>1, <1>3, <3>4
  <2>8. \A i \in DOMAIN finalisers : finalisers[i][1] \in Acquired
    <3>1. \A i \in DOMAIN finalisers : finalisers[i] \in Registered  BY DEF ScopeInv, ToSet
    <3>2. QED  BY <3>1 DEF Registered
  <2>9. \A i \in DOMAIN F : F[i][1] = p /\ F[i] \in {<<p, "release">>, <<p, "onStop">>}
    BY FinalisersShape
  <2>10. p \notin Needs(p)  BY <1>2, NeedsAreEarlier
  <2>11. \A q \in Acquired : p \notin Needs(q)
    <3>1. \A q \in Acquired : Needs(q) \subseteq Acquired  BY DEF BuildInv, Acquired
    <3>2. QED  BY <1>7, <3>1
  <2>12. ASSUME NEW i \in DOMAIN finalisers', NEW j \in DOMAIN finalisers',
                MustPrecede(finalisers'[j], finalisers'[i])
         PROVE  i < j
    <3>1. CASE i \in DOMAIN finalisers /\ finalisers'[i] = finalisers[i]
               /\ j \in DOMAIN finalisers /\ finalisers'[j] = finalisers[j]
      BY <2>12, <3>1 DEF ScopeInv
    <3>2. CASE i \in DOMAIN finalisers /\ j > n
      BY <2>3, <2>4, <3>2
    <3>3. CASE i > n /\ i - n \in DOMAIN F /\ finalisers'[i] = F[i - n]
               /\ j \in DOMAIN finalisers /\ finalisers'[j] = finalisers[j]
      <4>1. finalisers'[i][1] = p /\ finalisers'[j][1] \in Acquired  BY <2>8, <2>9, <3>3
      <4>2. finalisers'[j] # <<p, "onStop">>  BY <1>7, <4>1
      <4>3. p \notin Needs(finalisers'[j][1])  BY <2>11, <4>1
      <4>4. QED  BY <2>12, <4>1, <4>2, <4>3 DEF MustPrecede
    <3>4. CASE i > n /\ i - n \in DOMAIN F /\ finalisers'[i] = F[i - n]
               /\ j > n /\ j - n \in DOMAIN F /\ finalisers'[j] = F[j - n]
      <4>1. finalisers'[i][1] = p /\ finalisers'[j][1] = p  BY <2>9, <3>4
      <4>2. F[i - n][2] = "release" /\ F[j - n][2] = "onStop"
        BY <2>10, <2>12, <3>4, <4>1 DEF MustPrecede
      <4>3. i - n < j - n  BY <3>4, <4>2, FinalisersShape
      <4>4. i \in Nat /\ j \in Nat  BY <2>3, <2>4, <2>12
      <4>5. QED  BY <2>3, <4>3, <4>4
    <3>5. QED  BY <2>5, <2>12, <3>1, <3>2, <3>3, <3>4
  <2>13. ScopeInv'
    <3>1. ASSUME NEW i \in DOMAIN finalisers', NEW j \in DOMAIN finalisers',
                 MustPrecede(finalisers[j], finalisers[i])'
          PROVE  i < j
      <4>1. MustPrecede(finalisers'[j], finalisers'[i])
        BY <1>1, <1>4, <3>1 DEF MustPrecede, Needs, PortOf, planVars
      <4>2. QED  BY <2>12, <4>1
    <3>2. stage' # "closed" /\ ended' = {}  BY <1>1, <1>2, <1>3
    <3>3. QED  BY <2>7, <3>1, <3>2 DEF ScopeInv
  <2>14. TypeOK'  BY <1>1, <1>10, <2>3 DEF TypeOK, planVars
  <2>15. QED  BY <1>4, <1>8, <1>9, <2>13, <2>14
<1>13. CASE how # "ok"
  <2>1. finalisers' = finalisers  BY <1>13 DEF Settle
  <2>2. Registered' = Registered  BY <1>6, <1>13 DEF Registered
  <2>3. ScopeInv'  BY <1>1, <1>4, <2>1, <2>2 DEF ScopeInv
  <2>4. TypeOK'  BY <1>1, <1>10, <2>1 DEF TypeOK, planVars
  <2>5. QED  BY <1>4, <1>8, <1>9, <2>3, <2>4
<1>14. QED  BY <1>12, <1>13

-----------------------------------------------------------------------------
(* The steps of the plan, and from stage to stage.                          *)

\* Before construction nothing has been asked for, acquired or registered.
LEMMA NothingYet ==
  ASSUME IInv, stage = "planning"
  PROVE  /\ \A p \in Provider : service[p] = "none"
         /\ Acquired = {} /\ hooked = {} /\ ended = {} /\ finalisers = <<>>
<1> USE DEF IInv
<1>1. \A p \in Provider : service[p] = "none"  BY DEF BuildInv
<1>2. Acquired = {} /\ Registered = {}  BY <1>1 DEF Acquired, Registered
<1>3. hooked = {} /\ ended = {}  BY DEF HookInv, ScopeInv
<1>4. ToSet(finalisers) = {}  BY <1>2 DEF ScopeInv
<1>5. finalisers = <<>>
  <2>1. finalisers \in Seq(Finalisers)  BY DEF TypeOK
  <2>2. SUFFICES ASSUME finalisers # <<>> PROVE FALSE
    OBVIOUS
  <2>3. 1 \in DOMAIN finalisers  BY <2>1, <2>2
  <2>4. QED  BY <1>4, <2>3 DEF ToSet
<1>6. QED  BY <1>1, <1>2, <1>3, <1>5

\* The scope is indifferent to a step that neither acquires nor closes anything.
LEMMA ScopeKept ==
  ASSUME ScopeInv, wiring' = wiring, Acquired' = Acquired, UNCHANGED <<finalisers, ended>>,
         ended # {} => stage' \in {"closing", "closed"},
         stage' = "closed" => finalisers = <<>>
  PROVE  ScopeInv'
<1>1. Registered' = Registered  BY DEF Registered
<1>2. \A f, g : MustPrecede(f, g)' <=> MustPrecede(f, g)
  <2>1. \A p : Needs(p)' = Needs(p)  BY WiringKept
  <2>2. QED  BY <2>1 DEF MustPrecede
<1>3. ASSUME NEW i \in DOMAIN finalisers, NEW j \in DOMAIN finalisers,
             MustPrecede(finalisers[j], finalisers[i])'
      PROVE  i < j
  <2>1. MustPrecede(finalisers[j], finalisers[i])  BY <1>2, <1>3, WiringKept DEF MustPrecede, Needs, PortOf
  <2>2. QED  BY <2>1 DEF ScopeInv
<1>4. QED  BY <1>1, <1>2, <1>3 DEF ScopeInv

LEMMA PlanningKeeps ==
  ASSUME IInv, Planning
  PROVE  IInv'
<1> USE DEF IInv
<1>1. stage = "planning" /\ UNCHANGED buildVars /\ wiring' = wiring
  BY DEF Planning, PlanRefuses, PlanLevel, PlanEnds
<1>2. UNCHANGED <<stage, level, service, hooked, finalisers, ended, outcome>>  BY <1>1 DEF buildVars
<1>3. level = 0 /\ (\A p \in Provider : service[p] = "none") /\ hooked = {} /\ ended = {}
  BY <1>1, NothingYet DEF BuildInv
<1>4. PlanInv' /\ levels' \in Seq(SUBSET Provider) /\ plan' \in {"running", "done", "refused"}
  <2>1. CASE PlanLevel
    <3>1. PlanInv' /\ levels' \in Seq(SUBSET Provider)  BY <2>1, LevelKeepsPlan
    <3>2. plan' \in {"running", "done", "refused"}  BY <2>1 DEF PlanLevel, TypeOK
    <3>3. QED  BY <3>1, <3>2
  <2>2. CASE PlanRefuses \/ PlanEnds
    <3>1. levels' = levels /\ plan' \in {"done", "refused"}  BY <2>2 DEF PlanRefuses, PlanEnds
    <3>2. Resolved' = Resolved /\ \A p : Needs(p)' = Needs(p)  BY <1>1, WiringKept
    <3>3. PlanInv'  BY <3>1, <3>2 DEF PlanInv, LevelIndices
    <3>4. QED  BY <3>1, <3>3 DEF TypeOK
  <2>3. QED  BY <2>1, <2>2 DEF Planning
<1>5. TypeOK'  BY <1>1, <1>2, <1>4 DEF TypeOK
<1>6. BuildInv'
  <2>1. Len(levels') \in Nat  BY <1>4
  <2>2. QED  BY <1>1, <1>2, <1>3, <2>1 DEF BuildInv
<1>7. HookInv'  BY <1>1, <1>2, <1>3 DEF HookInv
<1>8. ScopeInv'
  <2>1. Acquired' = Acquired  BY <1>2 DEF Acquired
  <2>2. QED  BY <1>1, <1>2, <1>3, <2>1, ScopeKept
<1>9. QED  BY <1>4, <1>5, <1>6, <1>7, <1>8

LEMMA PlannedKeeps ==
  ASSUME IInv, Planned
  PROVE  IInv'
<1> USE DEF IInv
<1>1. /\ stage = "planning" /\ plan # "running" /\ UNCHANGED planVars
      /\ UNCHANGED <<hooked, finalisers, ended>>
  BY DEF Planned
<1>2. PlanInv' /\ (\A p : Needs(p)' = Needs(p)) /\ wiring' = wiring /\ levels' = levels /\ plan' = plan
  BY <1>1, PlanKept DEF planVars
<1>3. /\ level = 0 /\ hooked = {} /\ ended = {} /\ finalisers = <<>> /\ Acquired = {}
      /\ \A p \in Provider : service[p] = "none"
  BY <1>1, NothingYet DEF BuildInv
<1>4. ASSUME UNCHANGED <<level, service>>, stage' \in {"closing", "hooks"},
             outcome' \in {"none"} \cup Answers
      PROVE  IInv'
  <2>1. TypeOK'  BY <1>1, <1>4 DEF TypeOK, planVars
  <2>2. Acquired' = Acquired  BY <1>4 DEF Acquired
  <2>3. BuildInv'  BY <1>1, <1>2, <1>3, <1>4, <2>2 DEF BuildInv
  <2>4. HookInv'  BY <1>1, <1>3 DEF HookInv
  <2>5. ScopeInv'  BY <1>1, <1>2, <1>3, <1>4, <2>2, ScopeKept
  <2>6. QED  BY <1>2, <2>1, <2>3, <2>4, <2>5
<1>5. CASE plan = "refused"
  BY <1>4, <1>5 DEF Planned, Answers
<1>6. CASE plan = "done" /\ levels = <<>>
  BY <1>4, <1>6 DEF Planned, TypeOK
<1>7. CASE plan = "done" /\ levels # <<>>
  <2>1. stage' = "constructing" /\ Construct(1) /\ outcome' = outcome  BY <1>7 DEF Planned
  <2>2. 1 \in LevelIndices  BY <1>7 DEF TypeOK, LevelIndices
  <2>3. /\ BuildInv' /\ Acquired' = Acquired /\ level' \in Nat
        /\ service' \in [Provider -> {"none", "constructing"} \cup Answers]
    <3>1. level = 1 - 1 /\ \A j \in 1..(1 - 1) : levels[j] \subseteq Acquired  BY <1>3
    <3>2. \A p \in Provider : service[p] # "constructing"  BY <1>3
    <3>3. QED  BY <1>1, <2>1, <2>2, <3>1, <3>2, ConstructKeeps
  <2>4. TypeOK'  BY <1>1, <2>1, <2>3 DEF TypeOK, planVars
  <2>5. HookInv'  BY <1>1, <1>3 DEF HookInv
  <2>6. ScopeInv'
    <3>1. ended = {} /\ stage' # "closed"  BY <1>3, <2>1
    <3>2. QED  BY <1>1, <1>2, <2>3, <3>1, ScopeKept
  <2>7. QED  BY <1>2, <2>3, <2>4, <2>5, <2>6
<1>8. plan \in {"done", "refused"}  BY <1>1 DEF TypeOK
<1>9. QED  BY <1>5, <1>6, <1>7, <1>8

\* A step from one stage to a later one, once construction is behind it.
LEMMA StageKeeps ==
  ASSUME IInv, UNCHANGED <<planVars, level, service, finalisers, ended>>,
         stage # "planning", stage' \in {"hooks", "using", "closing", "closed"},
         \A p \in Provider : service[p] # "constructing",
         ended # {} => stage' \in {"closing", "closed"},
         stage' = "closed" => finalisers = <<>>,
         outcome' \in {"none"} \cup Answers
  PROVE  /\ PlanInv' /\ BuildInv' /\ ScopeInv'
         /\ hooked' \subseteq Provider => TypeOK'
<1> USE DEF IInv
<1>1. wiring' = wiring /\ levels' = levels /\ plan' = plan  BY DEF planVars
<1>2. PlanInv' /\ \A p : Needs(p)' = Needs(p)  BY PlanKept
<1>3. Acquired' = Acquired  BY AcquiredKept
<1>4. BuildInv'  BY <1>1, <1>2, <1>3 DEF BuildInv
<1>5. ScopeInv'  BY <1>1, <1>3, ScopeKept
<1>6. hooked' \subseteq Provider => TypeOK'  BY <1>1 DEF TypeOK
<1>7. QED  BY <1>2, <1>4, <1>5, <1>6

LEMMA LevelEndsKeeps ==
  ASSUME IInv, LevelEnds
  PROVE  IInv'
<1> USE DEF IInv
<1>1. /\ stage = "constructing" /\ LevelSettled /\ UNCHANGED planVars
      /\ UNCHANGED <<hooked, finalisers, ended>>
  BY DEF LevelEnds
<1>2. PlanInv' /\ wiring' = wiring /\ Placed' = Placed  BY <1>1, PlanKept DEF planVars
<1>3. plan # "running" /\ level \in LevelIndices /\ hooked = {} /\ ended = {} /\ Len(levels) \in Nat
  BY <1>1 DEF BuildInv, HookInv, ScopeInv, TypeOK, LevelIndices
<1>4. \A p \in Provider : service[p] # "constructing"
  BY <1>1 DEF LevelSettled, BuildInv
<1>5. HookInv'  BY <1>1, <1>2, <1>3 DEF HookInv
<1>6. CASE stage' \in {"hooks", "closing"} /\ UNCHANGED <<level, service>>
  <2>1. outcome' \in {"none"} \cup Answers  BY <1>6 DEF LevelEnds, TypeOK, Answers
  <2>2. hooked' \subseteq Provider  BY <1>1, <1>3
  <2>3. TypeOK' /\ BuildInv' /\ ScopeInv'  BY <1>1, <1>3, <1>4, <1>6, <2>1, <2>2, StageKeeps
  <2>4. QED  BY <1>2, <1>5, <2>3
<1>7. CASE levels[level] \subseteq Acquired /\ level # Len(levels)
  <2>1. stage' = "constructing" /\ Construct(level + 1) /\ outcome' = outcome
    BY <1>1, <1>7 DEF LevelEnds
  <2>2. level + 1 \in LevelIndices /\ level = (level + 1) - 1 /\ level \in Nat
    BY <1>3, <1>7 DEF LevelIndices
  <2>3. \A j \in 1..((level + 1) - 1) : levels[j] \subseteq Acquired
    <3>1. \A j \in 1..((level + 1) - 1) : j = level \/ j \in 1..(level - 1)  BY <2>2
    <3>2. QED  BY <1>7, <3>1 DEF BuildInv
  <2>4. /\ BuildInv' /\ Acquired' = Acquired /\ level' \in Nat
        /\ service' \in [Provider -> {"none", "constructing"} \cup Answers]
    BY <1>1, <1>3, <1>4, <2>1, <2>2, <2>3, ConstructKeeps
  <2>5. TypeOK'  BY <1>1, <2>1, <2>4 DEF TypeOK, planVars
  <2>6. ScopeInv'
    <3>1. ended = {} /\ stage' # "closed"  BY <1>3, <2>1
    <3>2. QED  BY <1>1, <1>2, <2>4, <3>1, ScopeKept
  <2>7. QED  BY <1>2, <1>5, <2>4, <2>5, <2>6
<1>8. QED  BY <1>6, <1>7 DEF LevelEnds

\* Hooks run level by level, so what a service was built from has started by then.
LEMMA HookKeeps ==
  ASSUME IInv, NEW p \in Provider, NEW how \in {"ok", "defect"}, Hook(p, how)
  PROVE  IInv'
<1> USE DEF IInv
<1>1. /\ stage = "hooks" /\ p \in (Starting \cap Placed) \ hooked
      /\ hooked' = hooked \cup {p} /\ stage' \in {"hooks", "closing"}
      /\ outcome' \in {"none"} \cup Answers
      /\ UNCHANGED <<planVars, level, service, finalisers, ended>>
  BY DEF Hook, TypeOK, Answers
<1>2. Placed' = Placed /\ PlanInv' /\ \A q : Needs(q)' = Needs(q)  BY <1>1, PlanKept
<1>3. Needs(p) \cap Starting \subseteq hooked
  <2> SUFFICES ASSUME NEW q \in Needs(p), q \in Starting, q \notin hooked PROVE FALSE
    OBVIOUS
  <2>1. PICK k \in LevelIndices : p \in levels[k]  BY <1>1 DEF Placed, TypeOK, LevelIndices
  <2>2. PICK j \in 1..(k - 1) : j \in LevelIndices /\ q \in levels[j]  BY <2>1, NeedsAreEarlier
  <2>3. q # p  BY <2>1, NeedsAreEarlier
  <2>4. q \in Placed  BY <2>2 DEF Placed, TypeOK, LevelIndices
  <2>5. HookComesBefore(p, q)  BY <2>3, <2>4 DEF Hook
  <2>6. PICK a, b \in LevelIndices : p \in levels[a] /\ q \in levels[b] /\ a <= b
    BY <2>5 DEF HookComesBefore, TypeOK, LevelIndices
  <2>7. a = k /\ b = j  BY <2>1, <2>2, <2>6 DEF PlanInv
  <2>8. QED  BY <2>2, <2>6, <2>7 DEF LevelIndices
<1>4. HookInv'
  BY <1>1, <1>2, <1>3 DEF HookInv
<1>5. \A q \in Provider : service[q] # "constructing"  BY <1>1 DEF BuildInv
<1>6. ended = {}  BY <1>1 DEF ScopeInv
<1>7. hooked' \subseteq Provider  BY <1>1 DEF TypeOK
<1>8. TypeOK' /\ BuildInv' /\ ScopeInv'  BY <1>1, <1>5, <1>6, <1>7, StageKeeps
<1>9. QED  BY <1>2, <1>4, <1>8

LEMMA MovingOnKeeps ==
  ASSUME IInv, HooksEnd \/ (\E how \in Answers : Used(how)) \/ Closed
  PROVE  IInv'
<1> USE DEF IInv
<1>1. /\ stage \in {"hooks", "using", "closing"} /\ stage' \in {"using", "closing", "closed"}
      /\ stage = "closing" => stage' = "closed" /\ finalisers = <<>>
      /\ stage' = "closed" => finalisers = <<>>
      /\ outcome' \in {"none"} \cup Answers
      /\ UNCHANGED <<planVars, level, service, hooked, finalisers, ended>>
  BY DEF HooksEnd, Used, Closed, TypeOK
<1>2. Placed' = Placed /\ PlanInv' /\ \A q : Needs(q)' = Needs(q)  BY <1>1, PlanKept
<1>3. \A q \in Provider : service[q] # "constructing"  BY <1>1 DEF BuildInv
<1>4. ended # {} => stage' \in {"closing", "closed"}  BY <1>1 DEF ScopeInv
<1>5. HookInv'  BY <1>1, <1>2 DEF HookInv
<1>6. hooked' \subseteq Provider  BY <1>1 DEF TypeOK
<1>7. TypeOK' /\ BuildInv' /\ ScopeInv'  BY <1>1, <1>3, <1>4, <1>6, StageKeeps
<1>8. QED  BY <1>2, <1>5, <1>7

\* What is last in the scope precedes, or is unrelated to, all that stays in it.
LEMMA FinaliseKeeps ==
  ASSUME IInv, Finalise
  PROVE  IInv'
<1> USE DEF IInv
<1> DEFINE n == Len(finalisers)
<1>1. /\ stage = "closing" /\ finalisers # <<>>
      /\ ended' = ended \cup {Last(finalisers)} /\ finalisers' = Front(finalisers)
      /\ UNCHANGED <<stage, level, service, hooked, outcome>> /\ UNCHANGED planVars
  BY DEF Finalise
<1>2. /\ Placed' = Placed /\ PlanInv' /\ Resolved' = Resolved /\ \A q : Needs(q)' = Needs(q)
  BY <1>1, PlanKept
<1>3. finalisers \in Seq(Finalisers) /\ n \in Nat /\ n >= 1 /\ DOMAIN finalisers = 1..n
  BY <1>1 DEF TypeOK
<1>4. /\ finalisers' \in Seq(Finalisers) /\ DOMAIN finalisers' = 1..(n - 1)
      /\ \A i \in 1..(n - 1) : finalisers'[i] = finalisers[i]
  BY <1>1, <1>3 DEF Front
<1>5. Last(finalisers) = finalisers[n] /\ n \in DOMAIN finalisers  BY <1>3 DEF Last
<1>6. ToSet(finalisers) = ToSet(finalisers') \cup {Last(finalisers)}
  <2>1. \A i \in DOMAIN finalisers : i = n \/ i \in 1..(n - 1)  BY <1>3
  <2>2. 1..(n - 1) \subseteq DOMAIN finalisers  BY <1>3
  <2>3. QED  BY <1>4, <1>5, <2>1, <2>2 DEF ToSet
<1>7. Acquired' = Acquired /\ Registered' = Registered  BY <1>1, AcquiredKept
<1>8. ToSet(finalisers') \cup ended' = Registered'  BY <1>1, <1>6, <1>7 DEF ScopeInv
<1>9. ASSUME NEW i \in DOMAIN finalisers', NEW j \in DOMAIN finalisers',
             MustPrecede(finalisers[j], finalisers[i])'
      PROVE  i < j
  <2>1. i \in DOMAIN finalisers /\ j \in DOMAIN finalisers
        /\ finalisers'[i] = finalisers[i] /\ finalisers'[j] = finalisers[j]
    BY <1>3, <1>4, <1>9
  <2>2. MustPrecede(finalisers[j], finalisers[i])
    BY <1>1, <1>2, <1>9, <2>1 DEF MustPrecede, Needs, PortOf, planVars
  <2>3. QED  BY <2>1, <2>2 DEF ScopeInv
<1>10. ASSUME NEW g \in ended', NEW f \in ToSet(finalisers') PROVE ~MustPrecede(f, g)
  <2>1. CASE g \in ended  BY <1>6, <2>1 DEF ScopeInv
  <2>2. CASE g = Last(finalisers)
    <3>1. PICK j \in 1..(n - 1) : f = finalisers[j]  BY <1>4 DEF ToSet
    <3>2. j \in DOMAIN finalisers /\ ~(n < j)  BY <1>3, <3>1
    <3>3. QED  BY <1>5, <2>2, <3>1, <3>2 DEF ScopeInv
  <2>3. QED  BY <1>1, <1>10, <2>1, <2>2
<1>11. \A g \in ended', f \in ToSet(finalisers') : ~MustPrecede(f, g)'
  BY <1>1, <1>2, <1>10 DEF MustPrecede, Needs, PortOf, planVars
<1>12. ScopeInv'  BY <1>1, <1>8, <1>9, <1>11 DEF ScopeInv
<1>13. BuildInv'  BY <1>1, <1>2, <1>7 DEF BuildInv, planVars
<1>14. HookInv'  BY <1>1, <1>2 DEF HookInv
<1>15. TypeOK'
  <2>1. ended' \subseteq Finalisers  BY <1>1, <1>3, <1>5 DEF TypeOK
  <2>2. QED  BY <1>1, <1>4, <2>1 DEF TypeOK, planVars
<1>16. QED  BY <1>2, <1>12, <1>13, <1>14, <1>15

-----------------------------------------------------------------------------

LEMMA Inductive == Spec => []IInv
<1>1. Init => IInv
  <2> SUFFICES ASSUME Init PROVE IInv
    OBVIOUS
  <2>1. levels = <<>> /\ wiring \in Wirings /\ plan = "running"  BY DEF Init, PlanInit
  <2>2. TypeOK  BY <2>1 DEF Init, TypeOK, Answers
  <2>3. PlanInv  BY <2>1 DEF PlanInv, LevelIndices
  <2>4. Acquired = {}  BY DEF Init, Acquired
  <2>5. BuildInv  BY <2>1 DEF Init, BuildInv
  <2>6. HookInv  BY DEF Init, HookInv
  <2>7. ScopeInv  BY <2>4 DEF Init, ScopeInv, Registered, ToSet
  <2>8. QED  BY <2>2, <2>3, <2>5, <2>6, <2>7 DEF IInv
<1>2. IInv /\ [Next]_vars => IInv'
  <2> SUFFICES ASSUME IInv, [Next]_vars PROVE IInv'
    OBVIOUS
  <2>1. CASE UNCHANGED vars
    <3>1. UNCHANGED planVars /\ UNCHANGED buildVars  BY <2>1 DEF vars
    <3>2. UNCHANGED <<stage, level, service, hooked, finalisers, ended, outcome>>  BY <3>1 DEF buildVars
    <3>3. PlanInv' /\ Placed' = Placed /\ \A q : Needs(q)' = Needs(q)  BY <3>1, PlanKept DEF IInv
    <3>4. Acquired' = Acquired /\ wiring' = wiring /\ levels' = levels /\ plan' = plan
      BY <3>1, <3>2, AcquiredKept DEF planVars
    <3>5. ScopeInv'  BY <3>2, <3>4, ScopeKept DEF IInv, ScopeInv
    <3>6. BuildInv' /\ HookInv'  BY <3>2, <3>3, <3>4 DEF IInv, BuildInv, HookInv
    <3>7. TypeOK'  BY <3>2, <3>4 DEF IInv, TypeOK
    <3>8. QED  BY <3>3, <3>5, <3>6, <3>7 DEF IInv
  <2>2. CASE Planning  BY <2>2, PlanningKeeps
  <2>3. CASE Planned  BY <2>3, PlannedKeeps
  <2>4. ASSUME NEW p \in Provider, NEW how \in Answers, Settle(p, how) PROVE IInv'
    BY <2>4, SettleKeeps
  <2>5. CASE LevelEnds  BY <2>5, LevelEndsKeeps
  <2>6. ASSUME NEW p \in Provider, NEW how \in {"ok", "defect"}, Hook(p, how) PROVE IInv'
    BY <2>6, HookKeeps
  <2>7. CASE HooksEnd \/ (\E how \in Answers : Used(how)) \/ Closed  BY <2>7, MovingOnKeeps
  <2>8. CASE Finalise  BY <2>8, FinaliseKeeps
  <2>9. QED  BY <2>1, <2>2, <2>3, <2>4, <2>5, <2>6, <2>7, <2>8 DEF Next
<1>3. QED  BY <1>1, <1>2, PTL DEF Spec

\* Types of the scope and its plan.
THEOREM TypeCorrect == Spec => []TypeOK
BY Inductive, PTL DEF IInv

\* A closed scope has released and stopped all it acquired, and nothing of it still constructs
\* (lifecycle.ts 46-75, scope.ts 18-49, build.ts 258-285).
THEOREM ScopesDoNotLeak == Spec => []NothingLeaks
<1>1. ASSUME IInv PROVE NothingLeaks
  <2> SUFFICES ASSUME stage = "closed"
               PROVE  (\A p \in Provider : service[p] # "constructing") /\ ended = Registered
    BY DEF NothingLeaks, Registered
  <2>1. \A p \in Provider : service[p] # "constructing"  BY <1>1 DEF IInv, BuildInv
  <2>2. ToSet(finalisers) = {}  BY <1>1 DEF IInv, ScopeInv, ToSet
  <2>3. QED  BY <1>1, <2>1, <2>2 DEF IInv, ScopeInv
<1>2. QED  BY <1>1, Inductive, PTL

\* A resource is released after everything built from it, and after its own onStop
\* (scope.ts 31-46, over the levels of build.ts 86-191).
THEOREM TeardownIsOrdered == Spec => []TornDownInOrder
<1>1. ASSUME IInv PROVE TornDownInOrder
  <2> SUFFICES ASSUME NEW g \in ended, g[2] = "release",
                      NEW f \in {<<g[1], "onStop">>} \cup
                        UNION {{<<p, "release">>, <<p, "onStop">>} : p \in {q \in Acquired : g[1] \in Needs(q)}},
                      f \in ToSet(finalisers)
               PROVE  FALSE
    BY DEF TornDownInOrder
  <2>1. f = <<g[1], "onStop">> \/ g[1] \in Needs(f[1])  OBVIOUS
  <2>2. QED  BY <1>1, <2>1 DEF IInv, ScopeInv, MustPrecede
<1>2. QED  BY <1>1, Inductive, PTL

\* Factories and onStart hooks follow what a service is built from (build.ts 210-233,
\* lifecycle.ts 46-98).
THEOREM ConstructionIsOrdered == Spec => []BuiltInOrder
<1>1. IInv => BuiltInOrder  BY DEF IInv, BuildInv, HookInv, BuiltInOrder
<1>2. QED  BY <1>1, Inductive, PTL

\* A scope is built in the order of its dependencies and taken down in the reverse one, with
\* nothing left acquired (build.ts 210-233, scope.ts).
THEOREM ScopesAreOrdered == Spec => []ScopesComeAndGoInOrder
<1>1. NothingLeaks /\ BuiltInOrder /\ TornDownInOrder => ScopesComeAndGoInOrder
  BY DEF ScopesComeAndGoInOrder
<1>2. QED  BY <1>1, ScopesDoNotLeak, ConstructionIsOrdered, TeardownIsOrdered, PTL

-----------------------------------------------------------------------------
(* The plan is exact.  No knotted set is ever entered, as its members wait  *)
(* for each other; and when nothing is ready, what remains is a knot.       *)

\* p needs something that the first n levels do not hold.
Awaits(p, n) == \E q \in Needs(p) : \A j \in 1..n : q \notin levels[j]

ExactInv ==
  /\ Refused => levels = <<>>
  /\ plan = "done" => ~Refused /\ Placed = Resolved
  /\ plan = "refused" => Refused \/ \E S \in SUBSET Resolved : Knotted(S)
  /\ \A S \in SUBSET Resolved : Knotted(S) => S \cap Placed = {}
  /\ levels # <<>> => \A p \in Remaining : Awaits(p, Len(levels) - 1)
  /\ \A k \in LevelIndices : k > 1 => \A p \in levels[k] : Needs(p) \cap levels[k - 1] # {}

\* What is not ready needs something that has not been placed.
LEMMA UnreadyAwaits ==
  ASSUME NEW p \in Remaining, p \notin Ready
  PROVE  \E q \in Needs(p) : q \in Remaining
<1>1. PICK port \in wiring.deps[p] : ~IsSatisfied(port)  BY DEF Ready
<1>2. PICK q \in Resolved : PortOf(q) = port /\ q \notin Placed  BY <1>1 DEF IsSatisfied
<1>3. QED  BY <1>1, <1>2 DEF Needs, Remaining

LEMMA ReadyNeedsPlaced ==
  ASSUME NEW p \in Ready
  PROVE  Needs(p) \subseteq Placed
BY DEF Ready, IsSatisfied, Needs

\* A round with nothing ready has found a knot: all that remains.
LEMMA StuckIsKnotted ==
  ASSUME Ready = {}, Remaining # {}
  PROVE  Remaining \in SUBSET Resolved /\ Knotted(Remaining)
<1>1. ASSUME NEW p \in Remaining PROVE Needs(p) \cap Remaining # {}
  BY UnreadyAwaits
<1>2. QED  BY <1>1 DEF Knotted, Remaining

LEMMA WiringKeepsBugs ==
  ASSUME wiring' = wiring
  PROVE  (Refused' <=> Refused) /\ \A S : Knotted(S)' <=> Knotted(S)
<1>1. Resolved' = Resolved /\ \A p : Needs(p)' = Needs(p)  BY WiringKept
<1>2. \A S : Knotted(S)' <=> Knotted(S)  BY <1>1 DEF Knotted
<1>3. Provided' = Provided  BY <1>1 DEF Provided, PortOf
<1>4. OverrideBug' <=> OverrideBug  BY DEF OverrideBug, Bases, PortOf, Overrides
<1>5. ProviderBug' <=> ProviderBug  BY <1>1, <1>3 DEF ProviderBug, PortOf
<1>6. NothingProvides' <=> NothingProvides  BY <1>1, <1>3 DEF NothingProvides
<1>7. QED  BY <1>2, <1>4, <1>5, <1>6 DEF Refused

LEMMA PlacedAreResolved ==
  ASSUME TypeOK, PlanInv
  PROVE  Placed \subseteq Resolved
BY DEF Placed, PlanInv, LevelIndices, TypeOK

\* Steps that add no level.
LEMMA SameLevelsExact ==
  ASSUME TypeOK, PlanInv, ExactInv, wiring' = wiring, levels' = levels,
         plan' = "done" => plan = "done" \/ (~Refused /\ Remaining = {}),
         plan' = "refused" => plan = "refused" \/ Refused
                                \/ \E S \in SUBSET Resolved : Knotted(S)
  PROVE  ExactInv'
<1>1. /\ Refused' <=> Refused
      /\ \A S : Knotted(S)' <=> Knotted(S)
      /\ Resolved' = Resolved
      /\ \A p : Needs(p)' = Needs(p)
  BY WiringKept, WiringKeepsBugs
<1>2. Placed' = Placed /\ LevelIndices' = LevelIndices  BY DEF Placed, LevelIndices
<1>3. Remaining' = Remaining  BY <1>1, <1>2 DEF Remaining
<1>4. \A p, n : Awaits(p, n)' <=> Awaits(p, n)  BY <1>1 DEF Awaits
<1>5. plan' = "done" => ~Refused' /\ Placed' = Resolved'
  <2>1. Remaining = {} => Placed = Resolved  BY PlacedAreResolved DEF Remaining
  <2>2. QED  BY <1>1, <1>2, <2>1 DEF ExactInv
<1>6. QED  BY <1>1, <1>2, <1>3, <1>4, <1>5 DEF ExactInv

LEMMA LevelExact ==
  ASSUME TypeOK, PlanInv, ExactInv, PlanLevel
  PROVE  ExactInv'
<1>0. wiring' = wiring /\ ~Refused /\ Remaining # {} /\ plan = "running"  BY DEF PlanLevel
<1>1. CASE Ready = {}
  <2>1. \E S \in SUBSET Resolved : Knotted(S)  BY <1>0, <1>1, StuckIsKnotted
  <2>2. QED  BY <1>0, <1>1, <2>1, SameLevelsExact DEF PlanLevel
<1>2. CASE Ready # {}
  <2> DEFINE n == Len(levels)
  <2>1. plan' = "running" /\ levels' = Append(levels, Ready)  BY <1>0, <1>2 DEF PlanLevel
  <2>2. /\ Refused' <=> Refused
        /\ \A S : Knotted(S)' <=> Knotted(S)
        /\ Resolved' = Resolved
        /\ \A p : Needs(p)' = Needs(p)
    BY <1>0, WiringKept, WiringKeepsBugs
  <2>3. levels \in Seq(SUBSET Provider) /\ Ready \subseteq Provider
    BY DEF TypeOK, Ready, Remaining, Resolved
  <2>4. /\ n \in Nat /\ Len(levels') = n + 1 /\ levels'[n + 1] = Ready
        /\ \A k \in 1..n : levels'[k] = levels[k]
        /\ DOMAIN levels = 1..n /\ DOMAIN levels' = 1..(n + 1) /\ levels' # <<>>
    BY <2>1, <2>3
  <2>5. Placed' = Placed \cup Ready
    <3>1. 1..(n + 1) = 1..n \cup {n + 1}  BY <2>4
    <3>2. Placed = UNION {levels'[k] : k \in 1..n}  BY <2>4 DEF Placed
    <3>3. Placed' = UNION {levels'[k] : k \in 1..(n + 1)}  BY <2>4 DEF Placed
    <3>4. QED  BY <2>4, <3>1, <3>2, <3>3
  <2>6. Remaining' = Remaining \ Ready  BY <2>2, <2>5 DEF Remaining
  <2> HIDE DEF n
  <2>7. ASSUME NEW S \in SUBSET Resolved, Knotted(S), NEW p \in S \cap Placed'
        PROVE  FALSE
    <3>1. S \cap Placed = {}  BY <2>7 DEF ExactInv
    <3>2. p \in Ready  BY <2>5, <2>7, <3>1
    <3>3. PICK q \in Needs(p) : q \in S  BY <2>7 DEF Knotted
    <3>4. q \in Placed  BY <3>2, ReadyNeedsPlaced
    <3>5. QED  BY <3>1, <3>3, <3>4
  <2>8. ASSUME NEW p \in Remaining'
        PROVE  Awaits(p, Len(levels) - 1)'
    <3>1. p \in Remaining /\ p \notin Ready  BY <2>6
    <3>2. PICK q \in Needs(p) : q \in Remaining  BY <3>1, UnreadyAwaits
    <3>3. \A j \in 1..n : q \notin levels[j]  BY <2>4, <3>2 DEF Remaining, Placed
    <3>4. Len(levels') - 1 = n  BY <2>4
    <3>5. \A j \in 1..(Len(levels') - 1) : q \notin levels'[j]  BY <2>4, <3>3, <3>4
    <3>6. QED  BY <2>2, <3>5 DEF Awaits
  <2>9. ASSUME NEW k \in LevelIndices', k > 1, NEW p \in levels'[k]
        PROVE  Needs(p)' \cap levels'[k - 1] # {}
    <3>1. CASE k \in 1..n
      <4>1. k - 1 \in 1..n  BY <2>4, <2>9, <3>1
      <4>2. Needs(p) \cap levels[k - 1] # {}
        BY <2>4, <2>9, <3>1 DEF ExactInv, LevelIndices, n
      <4>3. QED  BY <2>2, <2>4, <4>1, <4>2
    <3>2. CASE k = n + 1
      <4>1. p \in Ready /\ p \in Remaining /\ n >= 1
        BY <2>4, <2>9, <3>2 DEF Ready
      <4>2. levels # <<>> /\ n = Len(levels)  BY <2>4, <4>1 DEF n
      <4>3. PICK q \in Needs(p) : \A j \in 1..(n - 1) : q \notin levels[j]
        BY <4>1, <4>2 DEF ExactInv, Awaits
      <4>4. q \in Placed  BY <4>1, ReadyNeedsPlaced
      <4>5. PICK j \in 1..n : q \in levels[j]  BY <2>4, <4>4 DEF Placed
      <4>6. j = n  BY <2>4, <4>3, <4>5
      <4>7. q \in levels'[k - 1]
        <5>1. k - 1 = n /\ n \in 1..n  BY <2>4, <3>2, <4>1
        <5>2. QED  BY <2>4, <4>5, <4>6, <5>1
      <4>8. QED  BY <2>2, <4>3, <4>7
    <3>3. k \in 1..n \/ k = n + 1  BY <2>4, <2>9 DEF LevelIndices
    <3>4. QED  BY <3>1, <3>2, <3>3
  <2>10. QED
    <3>1. ~Refused'  BY <1>0, <2>2
    <3>2. \A S \in SUBSET Resolved' : Knotted(S)' => S \cap Placed' = {}
      BY <2>2, <2>7
    <3>3. QED  BY <2>1, <2>8, <2>9, <3>1, <3>2 DEF ExactInv
<1>3. QED  BY <1>1, <1>2

\* Everything a plan does; the rest of a scope's life leaves it alone.
LEMMA ExactKept ==
  ASSUME IInv, ExactInv, [Next]_vars
  PROVE  ExactInv'
<1>1. CASE UNCHANGED planVars
  BY <1>1, SameLevelsExact DEF planVars, IInv
<1>2. CASE PlanRefuses  BY <1>2, SameLevelsExact DEF PlanRefuses, IInv
<1>3. CASE PlanLevel  BY <1>3, LevelExact DEF IInv
<1>4. CASE PlanEnds  BY <1>4, SameLevelsExact DEF PlanEnds, IInv
<1>5. UNCHANGED planVars \/ PlanRefuses \/ PlanLevel \/ PlanEnds
  BY DEF Next, vars, Planning, Planned, Settle, LevelEnds, Hook, HooksEnd, Used, Finalise, Closed
<1>6. QED  BY <1>1, <1>2, <1>3, <1>4, <1>5

LEMMA ExactInvariant == Spec => [](IInv /\ ExactInv)
<1>1. Init => ExactInv
  <2> SUFFICES ASSUME Init PROVE ExactInv
    OBVIOUS
  <2>1. levels = <<>> /\ plan = "running"  BY DEF Init, PlanInit
  <2>2. Placed = {} /\ LevelIndices = {}  BY <2>1 DEF Placed, LevelIndices
  <2>3. QED  BY <2>1, <2>2 DEF ExactInv
<1>2. QED  BY <1>1, ExactKept, Inductive, PTL DEF Spec

\* A plan is refused exactly when a wiring bug or a knot of needs leaves no order to build in;
\* otherwise every provider is in the first level that has all it needs below it (build.ts
\* 57-191).
THEOREM PlansAreExact == Spec => []PlanIsExact
<1>1. ASSUME IInv, ExactInv
      PROVE  PlanIsExact
  <2>1. plan \in {"running", "done", "refused"} /\ DOMAIN levels = LevelIndices
    BY <1>1 DEF IInv, TypeOK, LevelIndices
  <2>2. plan = "refused" => Refused \/ \E S \in SUBSET Resolved : Knotted(S)
    BY <1>1 DEF ExactInv
  <2>3. ASSUME plan = "done"
        PROVE  ~Refused /\ ~\E S \in SUBSET Resolved : Knotted(S)
    <3>1. ~Refused /\ Placed = Resolved  BY <1>1, <2>3 DEF ExactInv
    <3>2. \A S \in SUBSET Resolved : Knotted(S) => S \cap Placed = {}
      BY <1>1 DEF ExactInv
    <3>3. QED  BY <3>1, <3>2 DEF Knotted
  <2>4. \A j, k \in LevelIndices : j # k => levels[j] \cap levels[k] = {}
    BY <1>1 DEF IInv, PlanInv
  <2>5. \A k \in LevelIndices : \A p \in levels[k] : \A q \in Needs(p) :
          \E j \in 1..(k - 1) : q \in levels[j]
    BY <1>1 DEF IInv, PlanInv
  <2>6. \A k \in LevelIndices : k > 1 => \A p \in levels[k] : Needs(p) \cap levels[k - 1] # {}
    BY <1>1 DEF ExactInv
  <2>7. plan = "done" => Placed = Resolved  BY <1>1 DEF ExactInv
  <2>8. plan = "refused" <=> plan # "running" /\ (Refused \/ \E S \in SUBSET Resolved : Knotted(S))
    BY <2>1, <2>2, <2>3
  <2>9. \A k \in DOMAIN levels : \A p \in levels[k] :
          /\ \A j \in DOMAIN levels : p \in levels[j] => j = k
          /\ \A q \in Needs(p) : \E j \in 1..(k - 1) : q \in levels[j]
          /\ k > 1 => Needs(p) \cap levels[k - 1] # {}
    BY <2>1, <2>4, <2>5, <2>6
  <2>10. QED  BY <2>7, <2>8, <2>9 DEF PlanIsExact
<1>2. QED  BY <1>1, ExactInvariant, PTL
=============================================================================
