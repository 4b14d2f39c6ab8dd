--------------------------- MODULE FirewallProofs ---------------------------
(* Firewall.set_blocked implements BlockList, whatever sets it is given and *)
(* wherever it stops; and what the parts of a cycle keep when they run one  *)
(* after the other.                                                         *)
EXTENDS Firewall, TLAPS, FiniteSetTheorems, WellFoundedInduction

----------------------------------------------------------------------------
(* The block sets alone *)

\* While a family is being filled its staging set holds what has been added
\* of its part of the decision and nothing older; families already done are
\* active.
StagingInv ==
    /\ pc = "add" =>
         /\ todo \subseteq Grouped(decision, family)
         /\ staging[family] = Grouped(decision, family) \ todo
    /\ pc = "clean" => active[family] = Grouped(decision, family)
    /\ pc # "idle" =>
         \A f \in Families \ left : active[f] = Grouped(decision, f)

\* A family's part of a list is a set of addresses.
LEMMA GroupedType ==
    ASSUME NEW D \in SUBSET Addrs, NEW f PROVE Grouped(D, f) \in SUBSET Addrs
BY DEF Grouped

\* set_blocked keeps its locals in order, and puts only addresses of
\* Tailscale's ranges into a set.
THEOREM TypeCorrect == Spec => []TypeOK
<1> USE BlockSetsAssumption DEF BlockSetsAssumption
<1>1. Init => TypeOK
  BY DEF Init, TypeOK
<1>2. TypeOK /\ [Next]_vars => TypeOK'
  <2> SUFFICES ASSUME TypeOK, [Next]_vars PROVE TypeOK'
    OBVIOUS
  <2>1. CASE UNCHANGED vars
    BY <2>1 DEF TypeOK, vars
  <2>2. ASSUME NEW D \in SUBSET Addrs, SetBlocked(D) PROVE TypeOK'
    BY <2>2 DEF TypeOK, SetBlocked
  <2>3. ASSUME NEW f \in Families, FlushStaging(f) PROVE TypeOK'
    BY <2>3, GroupedType DEF TypeOK, FlushStaging
  <2>4. ASSUME NEW a \in Addrs, AddEntry(a) PROVE TypeOK'
    BY <2>4 DEF TypeOK, AddEntry
  <2>5. CASE Swap
    BY <2>5 DEF TypeOK, Swap
  <2>6. CASE FlushSwapped
    BY <2>6 DEF TypeOK, FlushSwapped
  <2>7. CASE Fail
    BY <2>7 DEF TypeOK, Fail
  <2>8. CASE Reboot
    BY <2>8 DEF TypeOK, Reboot
  <2> QED BY <2>1, <2>2, <2>3, <2>4, <2>5, <2>6, <2>7, <2>8 DEF Next
<1> QED BY <1>1, <1>2, PTL DEF Spec

\* Every command preserves what is known of the staging set.
LEMMA StagingStep == TypeOK /\ StagingInv /\ [Next]_vars => StagingInv'
<1> SUFFICES ASSUME TypeOK, StagingInv, [Next]_vars PROVE StagingInv'
  OBVIOUS
<1> USE DEF TypeOK, StagingInv
<1>1. CASE UNCHANGED vars
  BY <1>1 DEF vars, Grouped
<1>2. ASSUME NEW D \in SUBSET Addrs, SetBlocked(D) PROVE StagingInv'
  BY <1>2 DEF SetBlocked
<1>3. ASSUME NEW f \in Families, FlushStaging(f) PROVE StagingInv'
  BY <1>3 DEF FlushStaging, Grouped
<1>4. ASSUME NEW a \in Addrs, AddEntry(a) PROVE StagingInv'
  BY <1>4 DEF AddEntry, Grouped
<1>5. CASE Swap
  BY <1>5 DEF Swap, Grouped
<1>6. CASE FlushSwapped
  BY <1>6 DEF FlushSwapped, Grouped
<1>7. CASE Fail \/ Reboot
  BY <1>7 DEF Fail, Reboot
<1> QED BY <1>1, <1>2, <1>3, <1>4, <1>5, <1>6, <1>7 DEF Next

\* What is known of the staging set holds in every reachable state.
LEMMA StagingInvariant == Spec => []StagingInv
<1>1. Init => StagingInv
  BY DEF Init, StagingInv
<1> QED BY <1>1, StagingStep, TypeCorrect, PTL DEF Spec

\* Every command is an allowed step of the block list or leaves it alone.
THEOREM SetBlockedIsAtomic == Spec => ImplementsBlockList
<1>1. Init => Atomic!Init
  BY DEF Init, Atomic!Init, Atomic!Nothing
<1>2. TypeOK /\ StagingInv /\ [Next]_vars
        => [Atomic!Next]_<<decision, active>>
  <2> SUFFICES ASSUME TypeOK, StagingInv, [Next]_vars
               PROVE  Atomic!Next \/ UNCHANGED <<decision, active>>
    OBVIOUS
  <2>1. ASSUME NEW D \in SUBSET Addrs, SetBlocked(D) PROVE Atomic!Next
    BY <2>1, BlockSetsAssumption
       DEF SetBlocked, Atomic!Next, Atomic!Decide, BlockSetsAssumption
  <2>2. CASE Swap
    <3>1. family \in Families
      BY <2>2 DEF Swap, TypeOK
    <3>2. staging[family] = Grouped(decision, family)
      BY <2>2 DEF Swap, StagingInv
    <3>3. Atomic!Install(family)
      BY <2>2, <3>2 DEF Swap, Atomic!Install, Atomic!Part, Grouped
    <3> QED BY <3>1, <3>3 DEF Atomic!Next
  <2>3. CASE Reboot
    BY <2>3 DEF Reboot, Atomic!Next, Atomic!Clear, Atomic!Nothing
  <2>4. CASE UNCHANGED <<decision, active>>
    BY <2>4
  <2> QED BY <2>1, <2>2, <2>3, <2>4
          DEF Next, FlushStaging, AddEntry, FlushSwapped, Fail, vars
<1> QED BY <1>1, <1>2, TypeCorrect, StagingInvariant, PTL
        DEF Spec, ImplementsBlockList, Atomic!Spec

\* A call that runs to its end has installed its decision for both families.
THEOREM InstalledAtEnd == Spec => InstalledWhenDone
<1>1. TypeOK /\ StagingInv /\ [Next]_vars
        => [FlushSwapped /\ left = {family}
              => \A f \in Families : active'[f] = Grouped(decision, f)]_vars
  BY DEF TypeOK, StagingInv, FlushSwapped
<1> QED BY <1>1, TypeCorrect, StagingInvariant, PTL DEF Spec, InstalledWhenDone

----------------------------------------------------------------------------
(* The block sets in a cycle *)

\* Whatever the cycle does, the block sets see a step of set_blocked, a
\* failure of it, a reboot, or nothing.
LEMMA BlockSetsStep == [FirewallNext]_firewallVars => [Next]_vars
<1> SUFFICES ASSUME [FirewallNext]_firewallVars PROVE Next \/ UNCHANGED vars
  OBVIOUS
<1>1. CASE Apply
  BY <1>1 DEF Apply, Next
<1>2. CASE CutShort
  BY <1>2 DEF CutShort, Next
<1>3. CASE HostReboots
  BY <1>3 DEF HostReboots, Next
<1>4. CASE UNCHANGED vars
  BY <1>4
<1> QED BY <1>1, <1>2, <1>3, <1>4
        DEF FirewallNext, Cycle, Begin, EnsureRule, EnsureRuleMisreads,
            JumpsAhead, RewriteJumps, OthersRewrite, firewallVars

LEMMA SetsRunAsAlone == FirewallSpec => Spec
<1>1. FirewallInit => Init
  BY DEF FirewallInit
<1> QED BY <1>1, BlockSetsStep, PTL DEF FirewallSpec, Spec

\* In a cycle, as alone, set_blocked implements the atomic block list.
THEOREM CycleInstallsAtomically == FirewallSpec => ImplementsBlockList
BY SetsRunAsAlone, SetBlockedIsAtomic, PTL

\* In a cycle, as alone, a call that ends has installed its decision.
THEOREM CycleInstalls == FirewallSpec => InstalledWhenDone
BY SetsRunAsAlone, InstalledAtEnd, PTL

----------------------------------------------------------------------------
(* The counting chain *)

ChainRules == {"block", "discover", "count"}

ChainInv ==
    /\ step \in {"rest", "block", "discover", "count", "jumps", "apply"}
    /\ chain \in Seq(ChainRules)
    /\ DropsBeforeCounting

\* A rule at the top or at the end of a chain, and where the others are then.
LEMMA RuleAtTop ==
    ASSUME NEW c \in Seq(ChainRules), NEW r \in ChainRules
    PROVE  /\ <<r>> \o c \in Seq(ChainRules)
           /\ Len(<<r>> \o c) = Len(c) + 1
           /\ (<<r>> \o c)[1] = r
OBVIOUS

LEMMA RuleAtEnd ==
    ASSUME NEW c \in Seq(ChainRules), NEW r \in ChainRules
    PROVE  /\ Append(c, r) \in Seq(ChainRules)
           /\ Len(Append(c, r)) = Len(c) + 1
           /\ \A i \in 1 .. Len(c) : Append(c, r)[i] = c[i]
           /\ Append(c, r)[Len(c) + 1] = r
OBVIOUS

\* Adding a rule keeps dropping before counting, also one that is there
\* already and was not found.
LEMMA AddRuleStep ==
    ASSUME ChainInv, step \in ChainRules, AddRule
    PROVE  chain' \in Seq(ChainRules) /\ DropsBeforeCounting'
<1>1. CASE step = "block"
  <2>1. chain' = <<"block">> \o chain
    BY <1>1 DEF AddRule
  <2>2. chain'[1] = "block" /\ chain' \in Seq(ChainRules)
    BY <2>1, RuleAtTop DEF ChainInv, ChainRules
  <2> QED BY <2>2 DEF DropsBeforeCounting
<1>2. CASE step # "block"
  <2>1. chain' = Append(chain, step)
    BY <1>2 DEF AddRule
  <2>2. /\ chain' \in Seq(ChainRules)
        /\ Len(chain') = Len(chain) + 1
        /\ \A i \in 1 .. Len(chain) : chain'[i] = chain[i]
        /\ chain'[Len(chain) + 1] = step
    BY <2>1, RuleAtEnd DEF ChainInv
  <2>3. chain \in Seq(ChainRules) /\ Len(chain) \in Nat
    BY DEF ChainInv
  <2>4. SUFFICES ASSUME Contains(chain, "block")',
                        NEW i \in 1 .. Len(chain) + 1, chain'[i] = "count"
                 PROVE  \E k \in 1 .. i : chain'[k] = "block"
    BY <2>2 DEF DropsBeforeCounting
  <2>5. PICK b \in 1 .. Len(chain) : chain[b] = "block"
    BY <1>2, <2>2, <2>3, <2>4 DEF Contains
  <2>6. CASE i = Len(chain) + 1
    BY <2>2, <2>3, <2>5, <2>6
  <2>7. CASE i \in 1 .. Len(chain)
    <3>1. chain[i] = "count" /\ i \in DOMAIN chain
      BY <2>2, <2>3, <2>4, <2>7
    <3>2. Contains(chain, "block")
      BY <2>5 DEF Contains
    <3>3. PICK k \in 1 .. i : chain[k] = "block"
      BY <3>1, <3>2 DEF ChainInv, DropsBeforeCounting
    <3>4. k \in 1 .. Len(chain)
      BY <2>3, <2>7
    <3> QED BY <2>2, <3>3, <3>4
  <2> QED BY <2>3, <2>6, <2>7
<1> QED BY <1>1, <1>2

\* What holds of the chain between any two commands.
LEMMA ChainInvariant == FirewallSpec => []ChainInv
<1>1. FirewallInit => ChainInv
  <2> SUFFICES ASSUME FirewallInit PROVE ChainInv
    OBVIOUS
  <2>1. CASE chain = <<>>
    <3>1. chain \in Seq(ChainRules) /\ Len(chain) = 0
      BY <2>1
    <3>2. ~Contains(chain, "block")
      BY <3>1 DEF Contains
    <3> QED BY <3>1, <3>2 DEF FirewallInit, ChainInv, DropsBeforeCounting
  <2>2. CASE chain = <<"discover", "count">>
    <3>1. /\ chain \in Seq(ChainRules) /\ Len(chain) = 2
          /\ chain[1] = "discover" /\ chain[2] = "count"
      BY <2>2 DEF ChainRules
    <3>2. ~Contains(chain, "block")
      BY <3>1 DEF Contains
    <3> QED BY <3>1, <3>2 DEF FirewallInit, ChainInv, DropsBeforeCounting
  <2> QED BY <2>1, <2>2 DEF FirewallInit
<1>2. ChainInv /\ [FirewallNext]_firewallVars => ChainInv'
  <2> SUFFICES ASSUME ChainInv, [FirewallNext]_firewallVars PROVE ChainInv'
    OBVIOUS
  <2>1. ASSUME UNCHANGED chain PROVE chain' \in Seq(ChainRules) /\ DropsBeforeCounting'
    BY <2>1 DEF ChainInv, DropsBeforeCounting, Contains
  <2>2. CASE EnsureRule
    <3>1. step \in ChainRules /\ step' \in {"discover", "count", "jumps"}
      BY <2>2 DEF EnsureRule, AfterRule, ChainRules
    <3> QED BY <2>1, <2>2, <3>1, AddRuleStep DEF EnsureRule, ChainInv
  <2>3. CASE EnsureRuleMisreads
    <3>1. step \in ChainRules /\ step' \in {"discover", "count", "jumps"}
      BY <2>3 DEF EnsureRuleMisreads, AfterRule, ChainRules
    <3> QED BY <2>3, <3>1, AddRuleStep DEF EnsureRuleMisreads, ChainInv
  <2>4. CASE HostReboots
    BY <2>4 DEF HostReboots, ChainInv, DropsBeforeCounting, Contains
  <2>5. CASE Begin \/ JumpsAhead \/ RewriteJumps \/ Apply \/ CutShort
             \/ OthersRewrite \/ UNCHANGED firewallVars
    BY <2>1, <2>5
       DEF Begin, JumpsAhead, RewriteJumps, Apply, CutShort, OthersRewrite,
           firewallVars, chainVars, ChainInv
  <2> QED BY <2>2, <2>3, <2>4, <2>5 DEF FirewallNext, Cycle
<1> QED BY <1>1, <1>2, PTL DEF FirewallSpec

\* Once a chain has a rule that drops it stands before every one that
\* counts, whatever chain the collector finds and wherever it is cut short.
THEOREM DropsFirst == FirewallSpec => []DropsBeforeCounting
<1>1. ChainInv => DropsBeforeCounting
  BY DEF ChainInv
<1> QED BY <1>1, ChainInvariant, PTL

----------------------------------------------------------------------------
(* The jumps *)

\* Any chain of rules in some order is a sequence of rules.
LEMMA PermutationsAreChains ==
    ASSUME NEW S, IsFiniteSet(S), NEW s \in J!SetToAllKPermutations(S)
    PROVE  s \in Seq(S)
<1>1. PICK T \in SUBSET S : s \in [1 .. Cardinality(T) -> T]
  <2>1. \A T : J!Cardinality(T) = Cardinality(T)
    BY DEF J!Cardinality, Cardinality
  <2> QED BY <2>1 DEF J!SetToAllKPermutations, J!SetToSeqs
<1>2. Cardinality(T) \in Nat
  BY FS_Subset, FS_CardinalityType
<1> QED BY <1>1, <1>2

\* iptables -D takes out a copy of the rule, if there is one.
LEMMA RemoveFirstPlace ==
    ASSUME NEW S, NEW s \in Seq(S), NEW r, \E i \in 1 .. Len(s) : s[i] = r
    PROVE  \E k \in 1 .. Len(s) :
             s[k] = r /\ J!RemoveFirst(s, r) = J!RemoveAt(s, k)
<1> DEFINE I == {i \in 1 .. Len(s) : s[i] = r}
<1>1. PICK n : n \in I
  OBVIOUS
<1>2. I \in SUBSET Nat /\ Len(s) \in Nat
  OBVIOUS
<1>3. \E m \in I : \A k \in I : m =< k
  <2> HIDE DEF I
  <2>1. PICK m \in I : \A k \in I : <<k, m>> \notin OpToRel(<, Nat)
    BY <1>1, <1>2, WFMin, NatLessThanWellFounded, Zenon
  <2>2. \A k \in I : ~(k < m)
    BY <1>2, <2>1, Zenon DEF OpToRel
  <2>3. m \in Nat /\ \A k \in I : k \in Nat
    BY <1>2
  <2> QED BY <2>2, <2>3
<1>4. J!SelectInSeq(s, LAMBDA v : v = r) \in I
  BY <1>1, <1>3 DEF J!SelectInSeq, J!Min
<1> QED BY <1>4 DEF J!RemoveFirst

\* A chain without one of its rules, or with one more at the top.
LEMMA RuleTakenOut ==
    ASSUME NEW S, NEW s \in Seq(S), NEW k \in 1 .. Len(s)
    PROVE  LET t == J!RemoveAt(s, k)
           IN  /\ t \in Seq(S)
               /\ Len(t) = Len(s) - 1
               /\ \A i \in 1 .. k - 1 : t[i] = s[i]
               /\ \A i \in k .. Len(s) - 1 : t[i] = s[i + 1]
<1> DEFINE u == SubSeq(s, 1, k - 1)
           v == SubSeq(s, k + 1, Len(s))
<1>1. /\ u \in Seq(S) /\ v \in Seq(S)
      /\ Len(u) = k - 1 /\ Len(v) = Len(s) - k
      /\ \A i \in 1 .. k - 1 : u[i] = s[i]
      /\ \A i \in 1 .. Len(s) - k : v[i] = s[i + k]
  OBVIOUS
<1>2. J!RemoveAt(s, k) = u \o v
  BY DEF J!RemoveAt
<1> HIDE DEF u, v
<1>3. /\ u \o v \in Seq(S) /\ Len(u \o v) = Len(s) - 1
      /\ \A i \in 1 .. k - 1 : (u \o v)[i] = u[i]
      /\ \A i \in k .. Len(s) - 1 : (u \o v)[i] = v[i - (k - 1)]
  <2>1. \A x, y \in Seq(S) :
          /\ x \o y \in Seq(S) /\ Len(x \o y) = Len(x) + Len(y)
          /\ \A i \in 1 .. Len(x) : (x \o y)[i] = x[i]
          /\ \A i \in Len(x) + 1 .. Len(x) + Len(y) :
               (x \o y)[i] = y[i - Len(x)]
    OBVIOUS
  <2>2. /\ u \o v \in Seq(S) /\ Len(u \o v) = (k - 1) + (Len(s) - k)
        /\ \A i \in 1 .. k - 1 : (u \o v)[i] = u[i]
        /\ \A i \in (k - 1) + 1 .. (k - 1) + (Len(s) - k) :
             (u \o v)[i] = v[i - (k - 1)]
    <3>1. /\ u \o v \in Seq(S) /\ Len(u \o v) = Len(u) + Len(v)
          /\ \A i \in 1 .. Len(u) : (u \o v)[i] = u[i]
          /\ \A i \in Len(u) + 1 .. Len(u) + Len(v) :
               (u \o v)[i] = v[i - Len(u)]
      BY <1>1, <2>1
    <3>2. Len(u) = k - 1 /\ Len(v) = Len(s) - k
      BY <1>1
    <3> QED BY <3>1, <3>2, Zenon
  <2>3. (k - 1) + 1 = k /\ (k - 1) + (Len(s) - k) = Len(s) - 1
    OBVIOUS
  <2> QED BY <2>2, <2>3
<1>4. \A i \in k .. Len(s) - 1 :
         i - (k - 1) \in 1 .. Len(s) - k /\ (i - (k - 1)) + k = i + 1
  OBVIOUS
<1> QED BY <1>1, <1>2, <1>3, <1>4

LEMMA RuleInFront ==
    ASSUME NEW S, NEW s \in Seq(S), NEW r \in S
    PROVE  LET t == <<r>> \o s
           IN  /\ t \in Seq(S)
               /\ Len(t) = Len(s) + 1
               /\ t[1] = r
               /\ \A i \in 1 .. Len(s) : t[i + 1] = s[i]
OBVIOUS

\* iptables -D adds no rule.
LEMMA RemoveFirstType ==
    ASSUME NEW S, NEW s \in Seq(S), NEW r
    PROVE  J!RemoveFirst(s, r) \in Seq(S)
<1>1. CASE ~\E i \in 1 .. Len(s) : s[i] = r
  BY <1>1 DEF J!RemoveFirst
<1>2. CASE \E i \in 1 .. Len(s) : s[i] = r
  <2>1. PICK k \in 1 .. Len(s) : J!RemoveFirst(s, r) = J!RemoveAt(s, k)
    BY <1>2, RemoveFirstPlace
  <2>2. J!RemoveAt(s, k) \in Seq(S)
    BY RuleTakenOut
  <2> QED BY <2>1, <2>2, Zenon
<1> QED BY <1>1, <1>2

\* The places of some rules, all but one, are those of a chain without that
\* one, in the same order.
LEMMA PlacesWithout ==
    ASSUME NEW S, NEW s \in Seq(S), NEW k \in 1 .. Len(s), NEW R
    PROVE  LET t == J!RemoveAt(s, k)
               P == J!Places(s, R) \ {k}
               f == [i \in P |-> IF i < k THEN i ELSE i - 1]
           IN  /\ f \in J!Bijection(P, J!Places(t, R))
               /\ \A i \in P : t[f[i]] = s[i]
               /\ \A i, m \in P : i < m => f[i] < f[m]
<1> DEFINE t == J!RemoveAt(s, k)
           P == J!Places(s, R) \ {k}
           Q == J!Places(t, R)
           f == [i \in P |-> IF i < k THEN i ELSE i - 1]
           g(j) == IF j < k THEN j ELSE j + 1
<1> HIDE DEF t
<1>1. /\ Len(t) = Len(s) - 1
      /\ \A i \in 1 .. k - 1 : t[i] = s[i]
      /\ \A i \in k .. Len(s) - 1 : t[i] = s[i + 1]
  BY RuleTakenOut DEF t
<1>2. k \in Nat /\ Len(s) \in Nat /\ k <= Len(s) /\ k >= 1
  OBVIOUS
<1>3. ASSUME NEW i \in P
      PROVE  /\ i \in 1 .. Len(s) /\ i # k /\ s[i] \in R
             /\ f[i] = IF i < k THEN i ELSE i - 1
             /\ f[i] \in 1 .. Len(s) - 1
             /\ t[f[i]] = s[i]
  <2>1. i \in 1 .. Len(s) /\ i # k /\ s[i] \in R
    BY DEF J!Places
  <2>2. f[i] = IF i < k THEN i ELSE i - 1
    OBVIOUS
  <2> HIDE DEF f
  <2>3. CASE i < k
    BY <1>1, <1>2, <2>1, <2>2, <2>3
  <2>4. CASE i > k
    <3>1. f[i] = i - 1 /\ i - 1 \in k .. Len(s) - 1 /\ (i - 1) + 1 = i
      BY <1>2, <2>1, <2>2, <2>4
    <3> QED BY <1>1, <1>2, <2>1, <2>2, <3>1
  <2> QED BY <1>2, <2>1, <2>3, <2>4
<1>4. ASSUME NEW j \in Q
      PROVE  g(j) \in P /\ f[g(j)] = j
  <2>1. j \in 1 .. Len(s) - 1 /\ t[j] \in R
    BY <1>1, <1>2 DEF J!Places
  <2>2. CASE j < k
    <3>1. j \in 1 .. k - 1 /\ j \in 1 .. Len(s) /\ s[j] \in R
      BY <1>1, <1>2, <2>1, <2>2
    <3> QED BY <1>2, <2>1, <2>2, <3>1 DEF J!Places
  <2>3. CASE j >= k
    <3>1. /\ j \in k .. Len(s) - 1 /\ j + 1 \in 1 .. Len(s)
          /\ s[j + 1] \in R /\ j + 1 # k /\ ~(j + 1 < k) /\ (j + 1) - 1 = j
          /\ ~(j < k)
      BY <1>1, <1>2, <2>1, <2>3
    <3> QED BY <3>1 DEF J!Places
  <2> QED BY <1>2, <2>1, <2>2, <2>3
<1>5. \A i \in P : f[i] \in Q
  BY <1>1, <1>2, <1>3 DEF J!Places
<1>6. \A i, m \in P : i < m => f[i] < f[m]
  BY <1>2, <1>3
<1>7. \A i, m \in P : f[i] = f[m] => i = m
  BY <1>2, <1>3
<1>8. f \in J!Bijection(P, Q)
  <2>1. f \in [P -> Q]
    BY <1>5
  <2> HIDE DEF f, P, Q
  <2>2. DOMAIN f = P
    BY <2>1
  <2> QED BY <1>4, <1>7, <2>1, <2>2
          DEF J!Bijection, J!Injection, J!Surjection, J!IsInjective
<1> QED BY <1>3, <1>6, <1>8 DEF t

\* A chain that stays as it is.
LEMMA OrderKept == \A s, R : J!SameInOrder(s, s, R)
<1> SUFFICES ASSUME NEW s, NEW R PROVE J!SameInOrder(s, s, R)
  OBVIOUS
<1> DEFINE P == J!Places(s, R)
           f == [i \in P |-> i]
<1>1. f \in [P -> P] /\ \A i \in P : f[i] = i
  OBVIOUS
<1>2. f \in J!Bijection(P, P)
  <2> HIDE DEF f, P
  <2> QED BY <1>1 DEF J!Bijection, J!Injection, J!Surjection, J!IsInjective
<1>3. \A i \in P : s[f[i]] = s[i] /\ \A k \in P : i < k => f[i] < f[k]
  OBVIOUS
<1> HIDE DEF f
<1> QED BY <1>2, <1>3 DEF J!SameInOrder

\* Taking out a rule leaves those of another kind as they are.
LEMMA OrderWithout ==
    ASSUME NEW S, NEW s \in Seq(S), NEW r, NEW R, r \notin R
    PROVE  J!SameInOrder(s, J!RemoveFirst(s, r), R)
<1>1. CASE ~\E i \in 1 .. Len(s) : s[i] = r
  BY <1>1, OrderKept DEF J!RemoveFirst
<1>2. CASE \E i \in 1 .. Len(s) : s[i] = r
  <2>1. PICK k \in 1 .. Len(s) :
               s[k] = r /\ J!RemoveFirst(s, r) = J!RemoveAt(s, k)
    BY <1>2, RemoveFirstPlace
  <2>2. J!Places(s, R) \ {k} = J!Places(s, R)
    BY <2>1 DEF J!Places
  <2> DEFINE f == [i \in J!Places(s, R) |-> IF i < k THEN i ELSE i - 1]
  <2>3. /\ f \in J!Bijection(J!Places(s, R), J!Places(J!RemoveAt(s, k), R))
        /\ \A i \in J!Places(s, R) : J!RemoveAt(s, k)[f[i]] = s[i]
        /\ \A i, m \in J!Places(s, R) : i < m => f[i] < f[m]
    <3> DEFINE h == [i \in J!Places(s, R) \ {k} |->
                       IF i < k THEN i ELSE i - 1]
               p == J!Places(s, R) \ {k}
    <3>1. /\ h \in J!Bijection(p, J!Places(J!RemoveAt(s, k), R))
          /\ \A i \in p : J!RemoveAt(s, k)[h[i]] = s[i]
          /\ \A i, m \in p : i < m => h[i] < h[m]
      BY PlacesWithout
    <3>2. h = f /\ p = J!Places(s, R)
      BY <2>2, Zenon
    <3> HIDE DEF h, p, f
    <3> QED BY <3>1, <3>2
  <2> HIDE DEF f
  <2> QED BY <2>1, <2>3 DEF J!SameInOrder
<1> QED BY <1>1, <1>2

\* And so does putting one in front of them.
LEMMA OrderBehind ==
    ASSUME NEW S, NEW s \in Seq(S), NEW r \in S, NEW R, r \notin R
    PROVE  J!SameInOrder(s, <<r>> \o s, R)
<1> DEFINE t == <<r>> \o s
           P == J!Places(s, R)
           Q == J!Places(t, R)
           f == [i \in P |-> i + 1]
<1>1. /\ Len(t) = Len(s) + 1 /\ t[1] = r /\ Len(s) \in Nat
      /\ \A i \in 1 .. Len(s) : t[i + 1] = s[i]
  BY RuleInFront
<1> HIDE DEF t
<1>2. \A i \in P : /\ f[i] = i + 1 /\ i \in 1 .. Len(s)
                   /\ i + 1 \in 1 .. Len(t) /\ t[i + 1] = s[i] /\ s[i] \in R
  BY <1>1 DEF J!Places
<1>3. \A j \in Q : j - 1 \in P /\ f[j - 1] = j
  <2> TAKE j \in Q
  <2>1. j \in 1 .. Len(s) + 1 /\ t[j] \in R /\ j # 1
    BY <1>1 DEF J!Places
  <2>2. j - 1 \in 1 .. Len(s) /\ (j - 1) + 1 = j
    BY <1>1, <2>1
  <2>3. s[j - 1] \in R
    BY <1>1, <2>1, <2>2
  <2> QED BY <2>2, <2>3 DEF J!Places
<1>4. f \in [P -> Q]
  BY <1>2 DEF J!Places
<1>5. \A i, m \in P : (f[i] = f[m] => i = m) /\ (i < m => f[i] < f[m])
  BY <1>1, <1>2
<1>6. f \in J!Bijection(P, Q)
  <2> HIDE DEF f, P, Q
  <2> QED BY <1>3, <1>4, <1>5
          DEF J!Bijection, J!Injection, J!Surjection, J!IsInjective
<1>7. \A i \in P : t[f[i]] = s[i] /\ \A k \in P : i < k => f[i] < f[k]
  BY <1>2, <1>5
<1> HIDE DEF f
<1> QED BY <1>6, <1>7 DEF J!SameInOrder, t

\* The list of jumps still to be deleted, or inserted.
LEMMA JumpLists ==
    /\ J!Desired = <<"download", "upload">>
    /\ Tail(J!Desired) = <<"upload">>
    /\ J!Reverse(J!Desired) = <<"upload", "download">>
    /\ Tail(J!Reverse(J!Desired)) = <<"download">>
<1>1. J!Desired = <<"download", "upload">>
  BY DEF J!Desired
<1>2. J!Reverse(<<"download", "upload">>) = <<"upload", "download">>
  BY DEF J!Reverse
<1>3. Tail(<<"download", "upload">>) = <<"upload">>
  OBVIOUS
<1>4. Tail(<<"upload", "download">>) = <<"download">>
  OBVIOUS
<1> QED BY <1>1, <1>2, <1>3, <1>4

\* Another program's rule, new or again, or taken out.
LEMMA OthersKeepType ==
    ASSUME J!TypeOK, NEW r \in Foreign, J!PutFirst(r) \/ J!Withdraw(r)
    PROVE  J!TypeOK'
<1>1. J!RemoveFirst(forward, r) \in Seq(J!Rules) /\ r \in J!Rules
  BY RemoveFirstType DEF J!TypeOK, J!Rules
<1>2. <<r>> \o J!RemoveFirst(forward, r) \in Seq(J!Rules)
  BY <1>1
<1>3. forward' \in Seq(J!Rules) /\ UNCHANGED <<jpc, jtodo, missed>>
  BY <1>1, <1>2 DEF J!PutFirst, J!Withdraw
<1> QED BY <1>3 DEF J!TypeOK

\* The next jump to delete, or the first to insert.
LEMMA AfterDeleteType ==
    ASSUME J!TypeOK, jpc = "delete", J!AfterDelete
    PROVE  \/ jpc' = "delete" /\ jtodo' = Tail(J!Desired)
           \/ jpc' = "insert" /\ jtodo' = J!Reverse(J!Desired)
<1>1. jtodo = <<"download", "upload">> \/ jtodo = <<"upload">>
  BY JumpLists DEF J!TypeOK
<1> QED BY <1>1, JumpLists DEF J!AfterDelete

\* A command of _ensure_forward_jumps.
LEMMA EnsureKeepsType ==
    ASSUME J!TypeOK, J!Ensure
    PROVE  J!TypeOK'
<1>1. CASE J!Inspect
  BY <1>1 DEF J!TypeOK, J!Inspect
<1>2. CASE J!Delete
  <2>1. J!RemoveFirst(forward, Head(jtodo)) \in Seq(J!Rules)
    BY RemoveFirstType DEF J!TypeOK
  <2> QED BY <1>2, <2>1, AfterDeleteType DEF J!Delete, J!TypeOK
<1>3. CASE J!DeleteMisses
  <2>1. missed' \in 0 .. MaxMissed
    BY <1>3, FirewallAssumption DEF J!DeleteMisses, J!TypeOK
  <2> QED BY <1>3, <2>1, AfterDeleteType DEF J!DeleteMisses, J!TypeOK
<1>4. CASE J!Insert
  <2>1. jtodo = <<"upload", "download">> \/ jtodo = <<"download">>
    BY <1>4, JumpLists DEF J!TypeOK, J!Insert
  <2>2. /\ Head(jtodo) \in J!Rules /\ UNCHANGED missed
        /\ \/ jtodo' = <<"download">> /\ jpc' = "insert"
           \/ jtodo' = <<>> /\ jpc' = "idle"
    <3>1. CASE jtodo = <<"upload", "download">>
      <4>1. Head(jtodo) = "upload" /\ Tail(jtodo) = <<"download">> /\ Len(jtodo) = 2
        BY <3>1
      <4> QED BY <1>4, <4>1 DEF J!Insert, J!Rules
    <3>2. CASE jtodo = <<"download">>
      <4>1. Head(jtodo) = "download" /\ Tail(jtodo) = <<>> /\ Len(jtodo) = 1
        BY <3>2
      <4> QED BY <1>4, <4>1 DEF J!Insert, J!Rules
    <3> QED BY <2>1, <3>1, <3>2
  <2>3. forward' \in Seq(J!Rules)
    BY <1>4, <2>2 DEF J!Insert, J!TypeOK
  <2> QED BY <1>4, <2>2, <2>3, JumpLists DEF J!Insert, J!TypeOK
<1> QED BY <1>1, <1>2, <1>3, <1>4 DEF J!Ensure

\* The chains and sets keep their types, and each part is at work in its
\* step of the cycle only.
THEOREM FirewallTypeCorrect == FirewallSpec => []FirewallTypeOK
<1>1. FirewallInit /\ TypeOK => FirewallTypeOK
  <2> SUFFICES ASSUME FirewallInit, TypeOK PROVE FirewallTypeOK
    OBVIOUS
  <2>2. J!TypeOK
    <3>1. IsFiniteSet({"download", "upload"})
      <4>1. {"download", "upload"} = ({} \cup {"download"}) \cup {"upload"}
        OBVIOUS
      <4>2. IsFiniteSet({} \cup {"download"})
        BY FS_EmptySet, FS_AddElement, Zenon
      <4>3. IsFiniteSet(({} \cup {"download"}) \cup {"upload"})
        BY <4>2, FS_AddElement, Zenon
      <4> QED BY <4>1, <4>3, Zenon
    <3>2. IsFiniteSet(J!Rules)
      BY <3>1, FS_Union, FirewallAssumption DEF J!Rules
    <3>3. forward \in Seq(J!Rules)
      <4>1. forward \in J!SetToAllKPermutations(J!Rules)
        BY DEF FirewallInit, J!Init
      <4> QED BY <3>2, <4>1, PermutationsAreChains
    <3> QED BY <3>3, FirewallAssumption DEF FirewallInit, J!Init, J!TypeOK
  <2>3. chain \in Seq(ChainRules)
    <3>1. <<>> \in Seq(ChainRules) /\ <<"discover", "count">> \in Seq(ChainRules)
      BY DEF ChainRules
    <3> QED BY <3>1 DEF FirewallInit
  <2> QED BY <2>2, <2>3, FirewallAssumption
          DEF FirewallInit, Init, J!Init, FirewallTypeOK, ChainRules
<1>2. FirewallTypeOK /\ ChainInv /\ [FirewallNext]_firewallVars /\ TypeOK'
        => FirewallTypeOK'
  <2> SUFFICES ASSUME FirewallTypeOK, ChainInv, [FirewallNext]_firewallVars,
                      TypeOK'
               PROVE  FirewallTypeOK'
    OBVIOUS
  <2>2. ASSUME UNCHANGED jumpVars PROVE J!TypeOK'
    BY <2>2 DEF FirewallTypeOK, J!TypeOK, jumpVars
  <2>3. CASE Begin
    BY <2>2, <2>3 DEF Begin, FirewallTypeOK, vars, chainVars, jumpVars
  <2>4. CASE EnsureRule
    <3>1. step' \in {"discover", "count", "jumps"} /\ chain' \in Seq(ChainRules)
      BY <2>4, AddRuleStep
         DEF EnsureRule, AfterRule, FirewallTypeOK, ChainInv, ChainRules
    <3> QED BY <2>2, <2>4, <3>1
            DEF EnsureRule, FirewallTypeOK, ChainRules, vars, jumpVars
  <2>5. CASE EnsureRuleMisreads
    <3>1. /\ step' \in {"discover", "count", "jumps"} /\ chain' \in Seq(ChainRules)
          /\ misread' \in 0 .. MaxMisread
      BY <2>5, AddRuleStep, FirewallAssumption
         DEF EnsureRuleMisreads, AfterRule, FirewallTypeOK, ChainInv, ChainRules
    <3> QED BY <2>2, <2>5, <3>1
            DEF EnsureRuleMisreads, FirewallTypeOK, ChainRules, vars, jumpVars
  <2>6. CASE JumpsAhead
    BY <2>2, <2>6 DEF JumpsAhead, FirewallTypeOK, vars, chainVars, jumpVars
  <2>7. CASE RewriteJumps
    <3>1. J!TypeOK'
      BY <2>7, EnsureKeepsType DEF RewriteJumps, FirewallTypeOK
    <3> QED BY <2>7, <3>1
            DEF RewriteJumps, FirewallTypeOK, vars, chainVars
  <2>8. CASE Apply
    BY <2>2, <2>8 DEF Apply, FirewallTypeOK, chainVars, jumpVars
  <2>9. CASE CutShort
    <3>1. J!TypeOK' /\ jpc' = "idle"
      BY <2>2, <2>9 DEF CutShort, J!Fail, FirewallTypeOK, J!TypeOK, jumpVars
    <3>2. pc' = "idle"
      BY <2>9 DEF CutShort, Fail, vars
    <3> QED BY <2>9, <3>1, <3>2 DEF CutShort, FirewallTypeOK, chainVars
  <2>10. CASE HostReboots
    <3>1. J!TypeOK' /\ jpc' = "idle" /\ pc' = "idle"
      BY <2>10 DEF HostReboots, J!Reboot, Reboot, FirewallTypeOK, J!TypeOK
    <3> QED BY <2>10, <3>1 DEF HostReboots, FirewallTypeOK
  <2>11. CASE OthersRewrite
    <3>1. J!TypeOK' /\ UNCHANGED jpc
      BY <2>11, OthersKeepType
         DEF OthersRewrite, J!PutFirst, J!Withdraw, FirewallTypeOK
    <3> QED BY <2>11, <3>1
            DEF OthersRewrite, FirewallTypeOK, vars, chainVars
  <2>12. CASE UNCHANGED firewallVars
    BY <2>2, <2>12
       DEF firewallVars, FirewallTypeOK, vars, chainVars, jumpVars
  <2> QED BY <2>3, <2>4, <2>5, <2>6, <2>7, <2>8, <2>9, <2>10, <2>11, <2>12
          DEF FirewallNext, Cycle
<1>3. FirewallSpec => []TypeOK
  BY SetsRunAsAlone, TypeCorrect, PTL
<1> QED BY <1>1, <1>2, <1>3, ChainInvariant, PTL DEF FirewallSpec

----------------------------------------------------------------------------
(* What the commands do to the rules of other programs, and to the number   *)
(* of jumps                                                                 *)

Jumps == {"download", "upload"}

\* The jumps are rules, and nobody else's.
LEMMA JumpsAreRules ==
    /\ \A j \in Jumps : j \in J!Rules /\ j \notin Foreign
    /\ \A r \in Foreign : r \in J!Rules /\ r \notin Jumps
BY FirewallAssumption DEF Jumps, J!Rules

\* The jump a command deletes or inserts.
LEMMA JumpAtWork ==
    ASSUME J!TypeOK, jpc # "idle"
    PROVE  Head(jtodo) \in Jumps
<1>1. jtodo \in {<<"download", "upload">>, <<"upload">>,
                 <<"upload", "download">>, <<"download">>}
  BY JumpLists DEF J!TypeOK
<1>2. \A x, y : Head(<<x, y>>) = x /\ Head(<<x>>) = x
  OBVIOUS
<1> QED BY <1>1, <1>2, Zenon DEF Jumps

\* No command of a cycle removes, adds or moves a rule of another program,
\* whatever place the jumps are found at.
THEOREM CycleLeavesOthersAlone == FirewallSpec => OthersLeftAlone
<1>1. J!TypeOK /\ [FirewallNext]_firewallVars
        => [Cycle => J!SameInOrder(forward, forward', Foreign)]_firewallVars
  <2> SUFFICES ASSUME J!TypeOK, Cycle
               PROVE  J!SameInOrder(forward, forward', Foreign)
    OBVIOUS
  <2>1. CASE UNCHANGED forward
    BY <2>1, OrderKept
  <2>2. CASE J!Delete
    <3>1. Head(jtodo) \notin Foreign /\ forward \in Seq(J!Rules)
      BY <2>2, JumpAtWork, JumpsAreRules DEF J!Delete, J!TypeOK
    <3> QED BY <2>2, <3>1, OrderWithout DEF J!Delete
  <2>3. CASE J!Insert
    <3>1. /\ Head(jtodo) \notin Foreign /\ Head(jtodo) \in J!Rules
          /\ forward \in Seq(J!Rules)
      BY <2>3, JumpAtWork, JumpsAreRules DEF J!Insert, J!TypeOK
    <3> QED BY <2>3, <3>1, OrderBehind DEF J!Insert
  <2> QED BY <2>1, <2>2, <2>3
          DEF Cycle, Begin, EnsureRule, EnsureRuleMisreads, JumpsAhead,
              RewriteJumps, Apply, jumpVars, J!Ensure, J!Inspect,
              J!DeleteMisses
<1>2. FirewallTypeOK => J!TypeOK
  BY DEF FirewallTypeOK
<1> QED BY <1>1, <1>2, FirewallTypeCorrect, PTL
        DEF FirewallSpec, OthersLeftAlone

\* The copies of a rule are finitely many.
LEMMA CopiesFinite ==
    ASSUME NEW S, NEW s \in Seq(S), NEW R
    PROVE  /\ IsFiniteSet(J!Places(s, R))
           /\ Cardinality(J!Places(s, R)) \in Nat
<1>1. IsFiniteSet(1 .. Len(s))
  <2>1. 1 \in Int /\ Len(s) \in Int
    OBVIOUS
  <2> QED BY <2>1, FS_Interval
<1>2. J!Places(s, R) \subseteq 1 .. Len(s)
  BY DEF J!Places
<1> QED BY <1>1, <1>2, FS_Subset, FS_CardinalityType

\* A bijection of this module is one of the library.
LEMMA SameNumber ==
    ASSUME NEW A, NEW B, IsFiniteSet(A), NEW f \in J!Bijection(A, B)
    PROVE  Cardinality(B) = Cardinality(A)
<1>1. ExistsBijection(A, B)
  BY DEF J!Bijection, J!Injection, J!Surjection, J!IsInjective,
         ExistsBijection, Bijection, Injection, Surjection, IsInjective
<1> QED BY <1>1, FS_Bijection

\* Rules left in their order are left in their number.
LEMMA NumberKept ==
    ASSUME NEW S, NEW s \in Seq(S), NEW t, NEW R, J!SameInOrder(s, t, R)
    PROVE  Cardinality(J!Places(t, R)) = Cardinality(J!Places(s, R))
BY CopiesFinite, SameNumber DEF J!SameInOrder

\* A chain without one of some rules has one less of them.
LEMMA NumberWithout ==
    ASSUME NEW S, NEW s \in Seq(S), NEW R, NEW k \in J!Places(s, R)
    PROVE  Cardinality(J!Places(J!RemoveAt(s, k), R))
             = Cardinality(J!Places(s, R)) - 1
<1> DEFINE P == J!Places(s, R) \ {k}
           Q == J!Places(J!RemoveAt(s, k), R)
           f == [i \in P |-> IF i < k THEN i ELSE i - 1]
<1>1. k \in 1 .. Len(s)
  BY DEF J!Places
<1>2. f \in J!Bijection(P, Q)
  BY <1>1, PlacesWithout
<1>3. IsFiniteSet(P) /\ Cardinality(P) = Cardinality(J!Places(s, R)) - 1
  BY CopiesFinite, FS_RemoveElement
<1> HIDE DEF f, P, Q
<1>4. Cardinality(Q) = Cardinality(P)
  BY <1>2, <1>3, SameNumber
<1> QED BY <1>3, <1>4 DEF Q

\* iptables -D takes one copy of a jump out, if there is one.
LEMMA NumberDeleted ==
    ASSUME NEW S, NEW s \in Seq(S), NEW r
    PROVE  LET n == Cardinality(J!Places(s, {r}))
           IN  Cardinality(J!Places(J!RemoveFirst(s, r), {r}))
                 = IF n = 0 THEN 0 ELSE n - 1
<1> DEFINE P == J!Places(s, {r})
           t == J!RemoveFirst(s, r)
<1>1. IsFiniteSet(P) /\ Cardinality(P) \in Nat
  BY CopiesFinite
<1>2. CASE ~\E i \in 1 .. Len(s) : s[i] = r
  <2>1. t = s
    BY <1>2 DEF J!RemoveFirst
  <2>2. P = {}
    BY <1>2 DEF J!Places
  <2>3. Cardinality(P) = 0
    BY <2>2, FS_EmptySet
  <2> QED BY <2>1, <2>3
<1>3. CASE \E i \in 1 .. Len(s) : s[i] = r
  <2>1. PICK k \in 1 .. Len(s) : s[k] = r /\ t = J!RemoveAt(s, k)
    BY <1>3, RemoveFirstPlace
  <2>2. k \in P
    BY <2>1 DEF J!Places
  <2>3. Cardinality(J!Places(t, {r})) = Cardinality(P) - 1
    BY <2>1, <2>2, NumberWithout
  <2>4. Cardinality(P) # 0
    BY <1>1, <2>2, FS_EmptySet
  <2> QED BY <2>3, <2>4
<1> QED BY <1>2, <1>3

\* iptables -I puts one in.
LEMMA NumberInserted ==
    ASSUME NEW S, NEW s \in Seq(S), NEW r \in S
    PROVE  Cardinality(J!Places(<<r>> \o s, {r}))
             = Cardinality(J!Places(s, {r})) + 1
<1> DEFINE t == <<r>> \o s
           P == J!Places(t, {r})
           u == J!RemoveAt(t, 1)
<1>1. /\ t \in Seq(S) /\ Len(t) = Len(s) + 1 /\ t[1] = r /\ Len(s) \in Nat
      /\ \A i \in 1 .. Len(s) : t[i + 1] = s[i]
  BY RuleInFront
<1> HIDE DEF t
<1>2. 1 \in 1 .. Len(t) /\ 1 \in P
  BY <1>1 DEF J!Places
<1>3. u = s
  <2>1. /\ u \in Seq(S) /\ Len(u) = Len(t) - 1
        /\ \A i \in 1 .. Len(t) - 1 : u[i] = t[i + 1]
    BY <1>1, <1>2, RuleTakenOut
  <2>2. Len(t) - 1 = Len(s)
    BY <1>1
  <2> HIDE DEF u
  <2> QED BY <1>1, <2>1, <2>2
<1>4. IsFiniteSet(P) /\ Cardinality(P) \in Nat
  BY <1>1, CopiesFinite
<1>5. Cardinality(J!Places(s, {r})) = Cardinality(P) - 1
  BY <1>1, <1>2, <1>3, NumberWithout
<1> QED BY <1>4, <1>5 DEF t

\* A jump the call at work has deleted and not inserted yet.
Gone(j) == \/ jpc = "delete" /\ ~J!Contains(jtodo, j)
           \/ jpc = "insert" /\ J!Contains(jtodo, j)

\* What makes CountedOnce inductive: an insertion is preceded by a deletion
\* of the same call, so a jump yet to be inserted has a copy less.
CopiesInv ==
    \A j \in Jumps : /\ J!Copies(j) <= 1 + missed
                     /\ Gone(j) => J!Copies(j) <= missed

LEMMA ShortLists ==
    /\ \A x, y, j : J!Contains(<<x, y>>, j) <=> j = x \/ j = y
    /\ \A x, j : J!Contains(<<x>>, j) <=> j = x
    /\ \A j : ~J!Contains(<<>>, j)
<1>1. ASSUME NEW x, NEW y, NEW j
      PROVE  J!Contains(<<x, y>>, j) <=> j = x \/ j = y
  <2>1. Len(<<x, y>>) = 2 /\ <<x, y>>[1] = x /\ <<x, y>>[2] = y
    OBVIOUS
  <2> QED BY <2>1 DEF J!Contains
<1>2. ASSUME NEW x, NEW j PROVE J!Contains(<<x>>, j) <=> j = x
  <2>1. Len(<<x>>) = 1 /\ <<x>>[1] = x
    OBVIOUS
  <2> QED BY <2>1 DEF J!Contains
<1>3. ASSUME NEW j PROVE ~J!Contains(<<>>, j)
  BY DEF J!Contains
<1> QED BY <1>1, <1>2, <1>3, Zenon

\* A deletion, also one that misses, goes on to the next jump.
LEMMA GoneByDelete ==
    ASSUME J!TypeOK, jpc = "delete", J!AfterDelete
    PROVE  \A j \in Jumps : Gone(j)' <=> Gone(j) \/ j = Head(jtodo)
<1>1. CASE jtodo = <<"download", "upload">>
  <2>1. Head(jtodo) = "download" /\ Tail(jtodo) = <<"upload">> /\ Len(jtodo) = 2
    BY <1>1
  <2>2. jpc' = "delete" /\ jtodo' = <<"upload">>
    <3>1. Len(jtodo) > 1
      BY <2>1
    <3> QED BY <2>1, <3>1 DEF J!AfterDelete
  <2>3. \A j : /\ J!Contains(jtodo, j) <=> j = "download" \/ j = "upload"
               /\ J!Contains(jtodo', j) <=> j = "upload"
    BY <1>1, <2>2, ShortLists
  <2> QED BY <2>1, <2>2, <2>3 DEF Gone, Jumps
<1>2. CASE jtodo = <<"upload">>
  <2>1. Head(jtodo) = "upload" /\ Len(jtodo) = 1
    BY <1>2
  <2>2. jpc' = "insert" /\ jtodo' = <<"upload", "download">>
    BY <2>1, JumpLists DEF J!AfterDelete
  <2>3. \A j : /\ J!Contains(jtodo, j) <=> j = "upload"
               /\ J!Contains(jtodo', j) <=> j = "upload" \/ j = "download"
    BY <1>2, <2>2, ShortLists
  <2> QED BY <2>1, <2>2, <2>3 DEF Gone, Jumps
<1> QED BY <1>1, <1>2, JumpLists DEF J!TypeOK

\* An insertion is that of a jump deleted before.
LEMMA GoneByInsert ==
    ASSUME J!TypeOK, J!Insert
    PROVE  /\ Gone(Head(jtodo))
           /\ \A j \in Jumps : Gone(j)' => Gone(j) /\ j # Head(jtodo)
<1>1. CASE jtodo = <<"upload", "download">>
  <2>1. Head(jtodo) = "upload" /\ Tail(jtodo) = <<"download">> /\ Len(jtodo) = 2
    BY <1>1
  <2>2. jpc = "insert" /\ jpc' = "insert" /\ jtodo' = <<"download">>
    BY <2>1 DEF J!Insert
  <2>3. \A j : /\ J!Contains(jtodo, j) <=> j = "upload" \/ j = "download"
               /\ J!Contains(jtodo', j) <=> j = "download"
    BY <1>1, <2>2, ShortLists
  <2> QED BY <2>1, <2>2, <2>3 DEF Gone
<1>2. CASE jtodo = <<"download">>
  <2>1. Head(jtodo) = "download" /\ Len(jtodo) = 1
    BY <1>2
  <2>2. jpc = "insert" /\ jpc' = "idle"
    BY <2>1 DEF J!Insert
  <2>3. \A j : J!Contains(jtodo, j) <=> j = "download"
    BY <1>2, ShortLists
  <2> QED BY <2>1, <2>2, <2>3 DEF Gone
<1> QED BY <1>1, <1>2, JumpLists DEF J!TypeOK, J!Insert

\* The number of copies is one of the library's.
LEMMA CopiesType ==
    ASSUME J!TypeOK, NEW j
    PROVE  /\ J!Copies(j) = Cardinality(J!Places(forward, {j}))
           /\ J!Copies(j) \in Nat
<1>1. \A T : J!Cardinality(T) = Cardinality(T)
  BY DEF J!Cardinality, Cardinality
<1> QED BY <1>1, CopiesFinite DEF J!Copies, J!TypeOK

\* Another program moves its rules only.
LEMMA OthersKeepCopies ==
    ASSUME J!TypeOK, CopiesInv, NEW r \in Foreign, J!PutFirst(r) \/ J!Withdraw(r)
    PROVE  CopiesInv'
<1> DEFINE u == J!RemoveFirst(forward, r)
<1>1. /\ UNCHANGED <<jpc, jtodo, missed>>
      /\ forward' = u \/ forward' = <<r>> \o u
  BY DEF J!PutFirst, J!Withdraw
<1>2. ASSUME NEW j \in Jumps PROVE J!Copies(j)' = J!Copies(j)
  <2>1. /\ forward \in Seq(J!Rules) /\ u \in Seq(J!Rules)
        /\ r \in J!Rules /\ r \notin {j}
    BY RemoveFirstType, JumpsAreRules DEF J!TypeOK
  <2>2. Cardinality(J!Places(u, {j})) = Cardinality(J!Places(forward, {j}))
    BY <2>1, OrderWithout, NumberKept
  <2> HIDE DEF u
  <2>3. Cardinality(J!Places(<<r>> \o u, {j})) = Cardinality(J!Places(u, {j}))
    BY <2>1, OrderBehind, NumberKept
  <2>4. Cardinality(J!Places(forward', {j})) = Cardinality(J!Places(forward, {j}))
    BY <1>1, <2>2, <2>3
  <2>5. \A T : J!Cardinality(T) = Cardinality(T)
    BY DEF J!Cardinality, Cardinality
  <2> QED BY <2>4, <2>5 DEF J!Copies
<1>3. \A j : Gone(j)' <=> Gone(j)
  BY <1>1 DEF Gone
<1> QED BY <1>1, <1>2, <1>3 DEF CopiesInv

\* A command of _ensure_forward_jumps.
LEMMA EnsureKeepsCopies ==
    ASSUME J!TypeOK, CopiesInv, J!Ensure
    PROVE  CopiesInv'
<1>0. /\ \A T : J!Cardinality(T) = Cardinality(T)
      /\ forward \in Seq(J!Rules) /\ missed \in Nat
      /\ \A j : /\ J!Copies(j) = Cardinality(J!Places(forward, {j}))
                /\ J!Copies(j) \in Nat
  <2>1. \A T : J!Cardinality(T) = Cardinality(T)
    BY DEF J!Cardinality, Cardinality
  <2>2. missed \in Nat
    BY FirewallAssumption DEF J!TypeOK
  <2> QED BY <2>1, <2>2, CopiesType DEF J!TypeOK
<1>1. CASE J!Inspect
  <2>1. /\ UNCHANGED <<forward, missed>>
        /\ jpc' = "delete" /\ jtodo' = <<"download", "upload">>
    BY <1>1, JumpLists DEF J!Inspect
  <2>2. \A j \in Jumps : ~Gone(j)'
    BY <2>1, ShortLists DEF Gone, Jumps
  <2> QED BY <2>1, <2>2 DEF CopiesInv, J!Copies
<1>2. CASE J!Delete
  <2>0. PICK h : h = Head(jtodo)
    OBVIOUS
  <2>1. /\ forward' = J!RemoveFirst(forward, h) /\ missed' = missed
        /\ \A j \in Jumps : Gone(j)' <=> Gone(j) \/ j = h
    BY <1>2, <2>0, GoneByDelete DEF J!Delete
  <2>2. h \in Jumps
    BY <1>2, <2>0, JumpAtWork DEF J!Delete
  <2>3. J!Copies(h)' = IF J!Copies(h) = 0 THEN 0 ELSE J!Copies(h) - 1
    <3>1. Cardinality(J!Places(forward', {h})) =
            IF J!Copies(h) = 0 THEN 0 ELSE J!Copies(h) - 1
      BY <1>0, <2>1, NumberDeleted
    <3>2. J!Copies(h)' = Cardinality(J!Places(forward', {h}))
      BY <1>0 DEF J!Copies
    <3> QED BY <3>1, <3>2
  <2>4. ASSUME NEW j \in Jumps, j # h PROVE J!Copies(j)' = J!Copies(j)
    <3>1. Cardinality(J!Places(forward', {j})) = J!Copies(j)
      BY <1>0, <2>1, <2>4, OrderWithout, NumberKept
    <3> QED BY <1>0, <3>1 DEF J!Copies
  <2> QED BY <1>0, <2>1, <2>2, <2>3, <2>4 DEF CopiesInv
<1>3. CASE J!DeleteMisses
  <2>1. /\ UNCHANGED forward /\ missed' = missed + 1
        /\ \A j \in Jumps : Gone(j)' <=> Gone(j) \/ j = Head(jtodo)
    BY <1>3, GoneByDelete DEF J!DeleteMisses
  <2>2. \A j \in Jumps : J!Copies(j)' = J!Copies(j)
    BY <2>1 DEF J!Copies
  <2> QED BY <1>0, <2>1, <2>2 DEF CopiesInv
<1>4. CASE J!Insert
  <2>0. PICK h : h = Head(jtodo)
    OBVIOUS
  <2>1. /\ forward' = <<h>> \o forward /\ missed' = missed
        /\ Gone(h) /\ \A j \in Jumps : Gone(j)' => Gone(j) /\ j # h
    BY <1>4, <2>0, GoneByInsert DEF J!Insert
  <2>2. h \in Jumps /\ h \in J!Rules
    BY <1>4, <2>0, JumpAtWork, JumpsAreRules DEF J!Insert
  <2>3. J!Copies(h)' = J!Copies(h) + 1
    <3>1. Cardinality(J!Places(forward', {h})) = J!Copies(h) + 1
      BY <1>0, <2>1, <2>2, NumberInserted
    <3>2. J!Copies(h)' = Cardinality(J!Places(forward', {h}))
      BY <1>0 DEF J!Copies
    <3> QED BY <3>1, <3>2
  <2>4. ASSUME NEW j \in Jumps, j # h PROVE J!Copies(j)' = J!Copies(j)
    <3>1. Cardinality(J!Places(forward', {j})) = J!Copies(j)
      BY <1>0, <2>1, <2>2, <2>4, OrderBehind, NumberKept
    <3> QED BY <1>0, <3>1 DEF J!Copies
  <2> QED BY <1>0, <2>1, <2>2, <2>3, <2>4 DEF CopiesInv
<1> QED BY <1>1, <1>2, <1>3, <1>4 DEF J!Ensure

\* The chain the collector finds has each rule once at most.
LEMMA FoundOnce ==
    ASSUME J!Init, J!TypeOK
    PROVE  CopiesInv
<1>1. \A i, k \in 1 .. Len(forward) : forward[i] = forward[k] => i = k
  <2>1. PICK T \in SUBSET J!Rules :
          /\ forward \in [1 .. J!Cardinality(T) -> T]
          /\ \A i, k \in 1 .. J!Cardinality(T) :
               i # k => forward[i] # forward[k]
    BY DEF J!Init, J!SetToAllKPermutations, J!SetToSeqs
  <2>2. 1 .. Len(forward) = DOMAIN forward
    BY DEF J!TypeOK
  <2>3. DOMAIN forward = 1 .. J!Cardinality(T)
    BY <2>1
  <2> QED BY <2>1, <2>2, <2>3
<1>2. ASSUME NEW j \in Jumps PROVE J!Copies(j) <= 1
  <2> DEFINE P == J!Places(forward, {j})
  <2>1. J!Copies(j) = Cardinality(P)
    BY CopiesType
  <2>2. CASE P = {}
    BY <2>1, <2>2, FS_EmptySet
  <2>3. CASE P # {}
    <3>1. PICK i : i \in P
      BY <2>3
    <3>2. P = {i}
      BY <1>1, <3>1 DEF J!Places
    <3>3. Cardinality({i}) = 1
      BY FS_Singleton, Zenon
    <3>4. J!Copies(j) = 1
      BY <2>1, <3>2, <3>3, Zenon
    <3> QED BY <3>4
  <2> QED BY <2>2, <2>3
<1> QED BY <1>2 DEF J!Init, CopiesInv, Gone

\* A packet is counted once: a jump is never in the chain twice, except by
\* a deletion that did not delete, whatever is cut short and whoever else
\* rewrites the chain between two commands.
THEOREM NothingCountedTwice == FirewallSpec => []CountedOnce
<1>1. FirewallInit /\ FirewallTypeOK => CopiesInv
  BY FoundOnce DEF FirewallInit, FirewallTypeOK
<1>2. CopiesInv /\ FirewallTypeOK /\ [FirewallNext]_firewallVars => CopiesInv'
  <2> SUFFICES ASSUME CopiesInv, J!TypeOK, [FirewallNext]_firewallVars
               PROVE  CopiesInv'
    BY DEF FirewallTypeOK
  <2>1. CASE UNCHANGED jumpVars
    BY <2>1 DEF jumpVars, CopiesInv, Gone, J!Copies
  <2>2. CASE RewriteJumps
    BY <2>2, EnsureKeepsCopies DEF RewriteJumps
  <2>3. CASE CutShort
    <3>1. CASE J!Fail
      <4>1. \A j : ~Gone(j)' /\ J!Copies(j)' = J!Copies(j)
        BY <3>1 DEF J!Fail, Gone, J!Copies
      <4> QED BY <3>1, <4>1 DEF CopiesInv, J!Fail
    <3> QED BY <2>1, <2>3, <3>1 DEF CutShort
  <2>4. CASE HostReboots
    <3>1. forward' = <<>> /\ jpc' = "idle" /\ missed' = missed
      BY <2>4 DEF HostReboots, J!Reboot
    <3>2. \A j : J!Copies(j)' = 0
      <4>1. \A j : J!Places(forward', {j}) = {}
        BY <3>1 DEF J!Places
      <4>2. \A T : J!Cardinality(T) = Cardinality(T)
        BY DEF J!Cardinality, Cardinality
      <4>3. \A j : J!Copies(j)' = J!Cardinality(J!Places(forward', {j}))
        BY DEF J!Copies
      <4> QED BY <4>1, <4>2, <4>3, FS_EmptySet
    <3>3. missed \in Nat
      BY FirewallAssumption DEF J!TypeOK
    <3> QED BY <3>1, <3>2, <3>3 DEF CopiesInv, Gone
  <2>5. CASE OthersRewrite
    BY <2>5, OthersKeepCopies DEF OthersRewrite
  <2> QED BY <2>1, <2>2, <2>3, <2>4, <2>5
          DEF FirewallNext, Cycle, Begin, EnsureRule, EnsureRuleMisreads,
              JumpsAhead, Apply, firewallVars
<1>3. CopiesInv => CountedOnce
  BY DEF CopiesInv, CountedOnce, J!CountedOnce, Jumps
<1> QED BY <1>1, <1>2, <1>3, FirewallTypeCorrect, PTL DEF FirewallSpec
============================================================================
