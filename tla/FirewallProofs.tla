--------------------------- MODULE FirewallProofs ---------------------------
(***************************************************************************)
(* Theorems about Firewall, for any tables, threads, requests and faults:  *)
(* how a chain decides, and what chain the rebuilds leave behind.          *)
(***************************************************************************)
EXTENDS Firewall, FiniteSetTheorems, SequenceTheorems, TLAPS

-----------------------------------------------------------------------------
\* Sequences.

\* A set of naturals has a least member: some rule is the first that matches.
LEMMA Least ==
  ASSUME NEW S \in SUBSET Nat, S # {}
  PROVE  Min(S) \in S
<1>1. IsWellFoundedOn({p \in Nat \X Nat : p[1] < p[2]}, Nat)
  BY NatLessThanWellFounded DEF OpToRel
<1>2. PICK x \in S : \A y \in S : ~ (<<y, x>> \in {p \in Nat \X Nat : p[1] < p[2]})
  BY <1>1, WFMin
<1>3. ASSUME NEW y \in S PROVE x =< y
  <2>1. <<y, x>> \in Nat \X Nat /\ <<y, x>>[1] = y /\ <<y, x>>[2] = x
    OBVIOUS
  <2>2. ~ (<<y, x>>[1] < <<y, x>>[2])
    BY <1>2, <2>1
  <2> QED BY <2>1, <2>2
<1> QED BY <1>3 DEF Min

\* SetToSeq lists the whole set.
LEMMA SeqOfSet ==
  ASSUME NEW S, IsFiniteSet(S)
  PROVE  SetToSeq(S) \in Seq(S) /\ ToSet(SetToSeq(S)) = S
<1> DEFINE n == Cardinality(S)
<1>1. n \in Nat /\ ExistsBijection(1..n, S)
  BY FS_CardinalityType
<1>2. PICK f \in [1..n -> S] : IsInjective(f)
  BY <1>1 DEF ExistsBijection, Bijection, Injection
<1>3. SetToSeq(S) \in [1..n -> S] /\ IsInjective(SetToSeq(S))
  BY <1>2 DEF SetToSeq
<1>4. SetToSeq(S) \in Injection(1..n, S) /\ Cardinality(1..n) = n
  BY <1>1, <1>3, FS_Interval DEF Injection
<1>5. SetToSeq(S) \in Surjection(1..n, S)
  BY <1>4, FS_Injection
<1>6. \A x \in S : \E j \in 1..n : SetToSeq(S)[j] = x
  BY <1>5 DEF Surjection
<1> HIDE DEF n
<1>7. SetToSeq(S) \in Seq(S) /\ DOMAIN SetToSeq(S) = 1..n
  BY <1>1, <1>3
<1> QED BY <1>3, <1>6, <1>7 DEF ToSet

\* What concatenation, Append and Tail do to the members.
LEMMA MembersConcat ==
  ASSUME NEW S, NEW s \in Seq(S), NEW r \in Seq(S)
  PROVE  ToSet(s \o r) = ToSet(s) \cup ToSet(r)
<1>1. /\ Len(s) \in Nat /\ Len(r) \in Nat /\ s \o r \in Seq(S)
      /\ DOMAIN s = 1..Len(s) /\ DOMAIN r = 1..Len(r)
      /\ DOMAIN (s \o r) = 1 .. Len(s) + Len(r)
  OBVIOUS
<1>2. \A j \in 1..Len(s) : (s \o r)[j] = s[j]
  BY <1>1
<1>3. \A j \in 1..Len(r) : (s \o r)[Len(s) + j] = r[j]
  BY <1>1
<1>4. ASSUME NEW j \in DOMAIN (s \o r) PROVE (s \o r)[j] \in ToSet(s) \cup ToSet(r)
  <2>1. CASE j \in 1..Len(s)
    BY <1>1, <1>2, <2>1 DEF ToSet
  <2>2. CASE j \notin 1..Len(s)
    <3>1. j - Len(s) \in 1..Len(r) /\ (s \o r)[j] = r[j - Len(s)]
      BY <1>1, <1>3, <2>2
    <3> QED BY <1>1, <3>1 DEF ToSet
  <2> QED BY <2>1, <2>2
<1>5. ASSUME NEW j \in DOMAIN s PROVE s[j] \in ToSet(s \o r)
  <2>1. j \in DOMAIN (s \o r)
    BY <1>1
  <2> QED BY <1>1, <1>2, <2>1 DEF ToSet
<1>6. ASSUME NEW j \in DOMAIN r PROVE r[j] \in ToSet(s \o r)
  <2>1. Len(s) + j \in DOMAIN (s \o r)
    BY <1>1
  <2> QED BY <1>1, <1>3, <2>1 DEF ToSet
<1> QED BY <1>4, <1>5, <1>6 DEF ToSet

LEMMA MembersAppend ==
  ASSUME NEW S, NEW s \in Seq(S), NEW x \in S
  PROVE  Append(s, x) \in Seq(S) /\ ToSet(Append(s, x)) = ToSet(s) \cup {x}
<1> DEFINE a == Append(s, x)
<1>1. /\ a \in Seq(S) /\ Len(a) = Len(s) + 1 /\ a[Len(s) + 1] = x
      /\ \A j \in 1..Len(s) : a[j] = s[j]
  BY AppendProperties
<1>2. /\ Len(s) \in Nat /\ DOMAIN s = 1..Len(s) /\ DOMAIN a = 1 .. Len(s) + 1
  BY <1>1, LenProperties
<1> HIDE DEF a
<1>3. ASSUME NEW j \in DOMAIN a PROVE a[j] \in ToSet(s) \cup {x}
  BY <1>1, <1>2 DEF ToSet
<1>4. ASSUME NEW j \in DOMAIN s PROVE s[j] \in ToSet(a)
  <2>1. j \in DOMAIN a /\ a[j] = s[j]
    BY <1>1, <1>2
  <2> QED BY <2>1 DEF ToSet
<1>5. x \in ToSet(a)
  BY <1>1, <1>2 DEF ToSet
<1>6. ToSet(a) = ToSet(s) \cup {x}
  BY <1>3, <1>4, <1>5 DEF ToSet
<1> QED BY <1>1, <1>6 DEF a

LEMMA MembersTail ==
  ASSUME NEW S, NEW s \in Seq(S), s # <<>>
  PROVE  /\ Head(s) \in S /\ Tail(s) \in Seq(S)
         /\ ToSet(s) = {Head(s)} \cup ToSet(Tail(s))
<1> DEFINE r == Tail(s)
<1>1. /\ Head(s) \in S /\ r \in Seq(S) /\ Len(r) = Len(s) - 1
      /\ \A j \in 1..Len(r) : r[j] = s[j + 1]
  BY HeadTailProperties
<1>2. Head(s) = s[1]
  OBVIOUS
<1>3. /\ Len(s) \in Nat \ {0} /\ DOMAIN s = 1..Len(s) /\ DOMAIN r = 1 .. Len(s) - 1
  BY <1>1, LenProperties, EmptySeq
<1> HIDE DEF r
<1>4. ASSUME NEW j \in DOMAIN s PROVE s[j] \in {Head(s)} \cup ToSet(r)
  <2>1. CASE j = 1
    BY <1>2, <2>1
  <2>2. CASE j # 1
    <3>1. j - 1 \in DOMAIN r /\ r[j - 1] = s[j]
      BY <1>1, <1>3, <2>2
    <3> QED BY <3>1 DEF ToSet
  <2> QED BY <2>1, <2>2
<1>5. ASSUME NEW j \in DOMAIN r PROVE r[j] \in ToSet(s)
  <2>1. j + 1 \in DOMAIN s /\ r[j] = s[j + 1]
    BY <1>1, <1>3
  <2> QED BY <2>1 DEF ToSet
<1>6. Head(s) \in ToSet(s)
  BY <1>2, <1>3 DEF ToSet
<1>7. ToSet(s) = {Head(s)} \cup ToSet(r)
  BY <1>4, <1>5, <1>6 DEF ToSet
<1> QED BY <1>1, <1>7 DEF r

-----------------------------------------------------------------------------
\* Rules.

PeerTable  == [Ips -> Owners \cup {None}]
OctetTable == [Owners -> Octets \cup {None}]

Ways(ps, os) == {Rule({i}, {os[ps[i]]}, "ACCEPT") : i \in Reaching(ps, os)}
                \cup {Rule({os[ps[i]]}, {i}, "ACCEPT") : i \in Reaching(ps, os)}

LEMMA WaysType ==
  ASSUME NEW ps \in PeerTable, NEW os \in OctetTable
  PROVE  /\ \A i \in Reaching(ps, os) : /\ i \in Ips /\ os[ps[i]] \in Octets
                                        /\ Rule({i}, {os[ps[i]]}, "ACCEPT") \in RuleType
                                        /\ Rule({os[ps[i]]}, {i}, "ACCEPT") \in RuleType
         /\ IsFiniteSet(Reaching(ps, os))
<1>1. ASSUME NEW i \in Reaching(ps, os)
      PROVE  i \in Ips /\ os[ps[i]] \in Octets
  BY DEF Reaching, PeerTable, OctetTable
<1>2. IsFiniteSet(Reaching(ps, os))
  BY FirewallAssumption, FS_Subset DEF Reaching
<1> QED BY <1>1, <1>2 DEF Rule, RuleType, Addrs

\* The loop over owners and peers appends both ways of every peer, and no more.
LEMMA AcceptsAll ==
  ASSUME NEW ps \in PeerTable, NEW os \in OctetTable
  PROVE  Accepts(ps, os) \in Seq(RuleType) /\ ToSet(Accepts(ps, os)) = Ways(ps, os)
<1> DEFINE is == SetToSeq(Reaching(ps, os))
           Way(j) == IF j % 2 = 1
                     THEN Rule({is[(j + 1) \div 2]}, {os[ps[is[(j + 1) \div 2]]]}, "ACCEPT")
                     ELSE Rule({os[ps[is[(j + 1) \div 2]]]}, {is[(j + 1) \div 2]}, "ACCEPT")
<1>1. is \in Seq(Reaching(ps, os)) /\ ToSet(is) = Reaching(ps, os)
  BY SeqOfSet, WaysType
<1>2. Accepts(ps, os) = [j \in 1 .. 2 * Len(is) |-> Way(j)]
  BY DEF Accepts
<1>3. Len(is) \in Nat /\ DOMAIN is = 1..Len(is)
  BY <1>1
<1> HIDE DEF is
<1>4. ASSUME NEW j \in 1 .. 2 * Len(is) PROVE (j + 1) \div 2 \in 1..Len(is)
  BY <1>3
<1>5. \A k \in 1..Len(is) : is[k] \in Reaching(ps, os)
  BY <1>1, <1>3
<1>6. ASSUME NEW j \in 1 .. 2 * Len(is) PROVE Way(j) \in Ways(ps, os) /\ Way(j) \in RuleType
  <2>1. is[(j + 1) \div 2] \in Reaching(ps, os)
    BY <1>4, <1>5
  <2> QED BY <2>1, WaysType DEF Ways
<1>7. ASSUME NEW i \in Reaching(ps, os)
      PROVE  \E j, k \in 1 .. 2 * Len(is) : /\ Way(j) = Rule({i}, {os[ps[i]]}, "ACCEPT")
                                            /\ Way(k) = Rule({os[ps[i]]}, {i}, "ACCEPT")
  <2>1. PICK k \in 1..Len(is) : is[k] = i
    BY <1>1, <1>3 DEF ToSet
  <2>2. /\ 2 * k \in 1 .. 2 * Len(is) /\ 2 * k - 1 \in 1 .. 2 * Len(is) /\ k \in Nat
    BY <1>3
  <2>5. (2 * k + 1) \div 2 = k /\ (2 * k) % 2 = 0
    BY <2>2
  <2>6. (2 * k - 1) + 1 = 2 * k /\ (2 * k) \div 2 = k /\ (2 * k - 1) % 2 = 1
    BY <2>2
  <2>3. Way(2 * k - 1) = Rule({i}, {os[ps[i]]}, "ACCEPT")
    BY <2>1, <2>6
  <2>4. Way(2 * k) = Rule({os[ps[i]]}, {i}, "ACCEPT")
    <3>1. Way(2 * k) = Rule({os[ps[is[(2 * k + 1) \div 2]]]}, {is[(2 * k + 1) \div 2]}, "ACCEPT")
      BY <2>5
    <3> QED BY <2>1, <2>5, <3>1
  <2> QED BY <2>2, <2>3, <2>4
<1> HIDE DEF Way
<1>8. Accepts(ps, os) \in Seq(RuleType)
  <2>1. Accepts(ps, os) \in [1 .. 2 * Len(is) -> RuleType] /\ 2 * Len(is) \in Nat
    BY <1>2, <1>3, <1>6
  <2> QED BY <2>1, SeqDef
<1>9. ToSet(Accepts(ps, os)) = {Way(j) : j \in 1 .. 2 * Len(is)}
  BY <1>2 DEF ToSet
<1>10. Ways(ps, os) \subseteq {Way(j) : j \in 1 .. 2 * Len(is)}
  BY <1>7 DEF Ways
<1> QED BY <1>6, <1>8, <1>9, <1>10

\* _build_chain_rules, as a set.
LEMMA BuildSet ==
  ASSUME NEW ps \in PeerTable, NEW os \in OctetTable
  PROVE  BuildRules(ps, os) \in Seq(RuleType) /\ ToSet(BuildRules(ps, os)) = RulesOf(ps, os)
<1> DEFINE first == <<Rule(Ips, Ips, "DROP")>>
           last == <<Rule(Octets, Octets, "DROP"), Rule(Octets, {Inet}, "DROP")>>
<1>1. /\ Rule(Ips, Ips, "DROP") \in RuleType
      /\ Rule(Octets, Octets, "DROP") \in RuleType
      /\ Rule(Octets, {Inet}, "DROP") \in RuleType
  BY DEF Rule, RuleType, Addrs
<1>2. first \in Seq(RuleType) /\ last \in Seq(RuleType)
  BY <1>1
<1>3. /\ ToSet(first) = {Rule(Ips, Ips, "DROP")}
      /\ ToSet(last) = {Rule(Octets, Octets, "DROP"), Rule(Octets, {Inet}, "DROP")}
  <2>1. DOMAIN first = {1} /\ first[1] = Rule(Ips, Ips, "DROP")
    OBVIOUS
  <2>2. /\ DOMAIN last = {1, 2} /\ last[1] = Rule(Octets, Octets, "DROP")
        /\ last[2] = Rule(Octets, {Inet}, "DROP")
    OBVIOUS
  <2> HIDE DEF first, last
  <2> QED BY <2>1, <2>2 DEF ToSet
<1>4. BuildRules(ps, os) = (first \o Accepts(ps, os)) \o last
  BY DEF BuildRules
<1>5. RulesOf(ps, os) = ToSet(first) \cup Ways(ps, os) \cup ToSet(last)
  BY <1>3 DEF RulesOf, Ways
<1> HIDE DEF first, last
<1>6. /\ first \o Accepts(ps, os) \in Seq(RuleType)
      /\ ToSet(first \o Accepts(ps, os)) = ToSet(first) \cup Ways(ps, os)
  BY <1>2, AcceptsAll, MembersConcat, ConcatProperties
<1> DEFINE head == first \o Accepts(ps, os)
<1> HIDE DEF head
<1>8. head \in Seq(RuleType) /\ ToSet(head) = ToSet(first) \cup Ways(ps, os)
  BY <1>6 DEF head
<1>7. head \o last \in Seq(RuleType) /\ ToSet(head \o last) = ToSet(head) \cup ToSet(last)
  BY <1>2, <1>8, MembersConcat, ConcatProperties
<1>9. BuildRules(ps, os) = head \o last
  BY <1>4 DEF head
<1> QED BY <1>5, <1>7, <1>8, <1>9

\* Whatever rule of the tables' rules matches a packet, it decides as the tables say,
\* and where they say anything, one matches.
LEMMA Unambiguous ==
  ASSUME peers \in PeerTable, octets \in OctetTable, NEW a \in Addrs, NEW b \in Addrs
  PROVE  /\ \A r \in RulesOf(peers, octets) : a \in r.from /\ b \in r.to => r.verdict = TableRule(a, b)
         /\ TableRule(a, b) # "NONE" => \E r \in RulesOf(peers, octets) : a \in r.from /\ b \in r.to
<1> USE FirewallAssumption
<1>1. /\ \A i \in Reaching(peers, octets) : i \in Ips /\ octets[peers[i]] \in Octets /\ peers[i] # None
      /\ \A i \in Ips, n \in Octets : Own(i, n) <=> i \in Reaching(peers, octets) /\ octets[peers[i]] = n
  <2>1. \A i \in Reaching(peers, octets) : i \in Ips /\ octets[peers[i]] \in Octets /\ peers[i] # None
    BY WaysType DEF Reaching
  <2>2. ASSUME NEW i \in Ips, NEW n \in Octets
        PROVE  Own(i, n) <=> i \in Reaching(peers, octets) /\ octets[peers[i]] = n
    BY DEF Own, Reaching
  <2> QED BY <2>1, <2>2
<1>2. ASSUME NEW r \in RulesOf(peers, octets), a \in r.from, b \in r.to
      PROVE  r.verdict = TableRule(a, b)
  <2>1. CASE r = Rule(Ips, Ips, "DROP")
    BY <1>2, <2>1 DEF Rule, TableRule
  <2>2. CASE r = Rule(Octets, Octets, "DROP") \/ r = Rule(Octets, {Inet}, "DROP")
    <3>1. a \in Octets /\ a \notin Ips /\ b \in Octets \cup {Inet} /\ r.verdict = "DROP"
      BY <1>2, <2>2 DEF Rule
    <3> QED BY <3>1 DEF TableRule
  <2>3. ASSUME NEW i \in Reaching(peers, octets), r = Rule({i}, {octets[peers[i]]}, "ACCEPT")
        PROVE  r.verdict = TableRule(a, b)
    <3>1. a = i /\ b = octets[peers[i]] /\ a \in Ips /\ b \in Octets /\ Own(a, b) /\ r.verdict = "ACCEPT"
      BY <1>1, <1>2, <2>3 DEF Rule
    <3>2. b \notin Ips /\ a \notin Octets
      BY <3>1
    <3> QED BY <3>1, <3>2 DEF TableRule
  <2>4. ASSUME NEW i \in Reaching(peers, octets), r = Rule({octets[peers[i]]}, {i}, "ACCEPT")
        PROVE  r.verdict = TableRule(a, b)
    <3>1. b = i /\ a = octets[peers[i]] /\ b \in Ips /\ a \in Octets /\ Own(b, a) /\ r.verdict = "ACCEPT"
      BY <1>1, <1>2, <2>4 DEF Rule
    <3>2. a \notin Ips /\ b \notin Octets /\ b # Inet
      BY <3>1
    <3> QED BY <3>1, <3>2 DEF TableRule
  <2> QED BY <2>1, <2>2, <2>3, <2>4 DEF RulesOf
<1>3. ASSUME TableRule(a, b) # "NONE"
      PROVE  \E r \in RulesOf(peers, octets) : a \in r.from /\ b \in r.to
  <2>1. CASE a \in Ips /\ b \in Ips
    <3>1. Rule(Ips, Ips, "DROP") \in RulesOf(peers, octets)
      BY DEF RulesOf
    <3> QED BY <2>1, <3>1 DEF Rule
  <2>2. CASE a \in Octets /\ b \in Octets
    <3>1. Rule(Octets, Octets, "DROP") \in RulesOf(peers, octets)
      BY DEF RulesOf
    <3> QED BY <2>2, <3>1 DEF Rule
  <2>3. CASE a \in Octets /\ b = Inet
    <3>1. Rule(Octets, {Inet}, "DROP") \in RulesOf(peers, octets)
      BY DEF RulesOf
    <3> QED BY <2>3, <3>1 DEF Rule
  <2>4. CASE a \in Ips /\ b \in Octets /\ Own(a, b)
    <3>1. a \in Reaching(peers, octets) /\ octets[peers[a]] = b
      BY <1>1, <2>4
    <3>2. Rule({a}, {b}, "ACCEPT") \in RulesOf(peers, octets)
      BY <3>1 DEF RulesOf
    <3> QED BY <3>2 DEF Rule
  <2>5. CASE a \in Octets /\ b \in Ips /\ Own(b, a)
    <3>1. b \in Reaching(peers, octets) /\ octets[peers[b]] = a
      BY <1>1, <2>5
    <3>2. Rule({a}, {b}, "ACCEPT") \in RulesOf(peers, octets)
      BY <3>1 DEF RulesOf
    <3> QED BY <3>2 DEF Rule
  <2> QED BY <1>3, <2>1, <2>2, <2>3, <2>4, <2>5 DEF TableRule
<1> QED BY <1>2, <1>3

\* So a chain of these rules, in any order and with any repetition, decides so.
LEMMA Decides ==
  ASSUME peers \in PeerTable, octets \in OctetTable,
         chain \in Seq(RuleType), ToSet(chain) = RulesOf(peers, octets),
         NEW a \in Addrs, NEW b \in Addrs
  PROVE  Verdict(a, b) = TableRule(a, b)
<1> DEFINE hits == {n \in DOMAIN chain : a \in chain[n].from /\ b \in chain[n].to}
<1>1. \A n \in DOMAIN chain : chain[n] \in RulesOf(peers, octets)
  BY DEF ToSet
<1>2. CASE hits = {}
  <2>1. \A r \in RulesOf(peers, octets) : ~ (a \in r.from /\ b \in r.to)
    BY <1>2 DEF ToSet
  <2>2. TableRule(a, b) = "NONE"
    BY <2>1, Unambiguous
  <2> QED BY <1>2, <2>2 DEF Verdict
<1>3. CASE hits # {}
  <2>1. hits \in SUBSET Nat
    <3>1. DOMAIN chain = 1..Len(chain) /\ Len(chain) \in Nat
      OBVIOUS
    <3> QED BY <3>1
  <2>2. Min(hits) \in hits
    BY <1>3, <2>1, Least
  <2>3. chain[Min(hits)].verdict = TableRule(a, b)
    BY <1>1, <2>2, Unambiguous
  <2> QED BY <1>3, <2>3 DEF Verdict
<1> QED BY <1>2, <1>3

-----------------------------------------------------------------------------
\* Types.

\* TypeOK without the bound of the jumps, which is JumpsInv's.
Types ==
    /\ peers \in PeerTable /\ octets \in OctetTable
    /\ chain \in Seq(RuleType) /\ jumps \in Nat
    /\ pc \in [Threads -> Pcs] /\ loc \in [Threads -> LocType]
    /\ booting \in BOOLEAN /\ stale \in BOOLEAN /\ happened \subseteq FaultKinds
    /\ silent \in BOOLEAN /\ overlapped \in BOOLEAN /\ calls \in 0..MaxCalls

LEMMA TypeOKTypes == TypeOK => Types
  BY DEF TypeOK, Types, PeerTable, OctetTable

LEMMA NoLocType == NoLoc \in LocType /\ ToSet(NoLoc.todo) = {}
<1>1. <<>> \in Seq(RuleType) /\ ToSet(<<>>) = {}
  BY DEF ToSet
<1> QED BY <1>1 DEF NoLoc, LocType, NoPeers, NoOctets

\* A change of one field leaves the others.
LEMMA GuardType ==
  ASSUME NEW m \in LocType
  PROVE  /\ [m EXCEPT !.guard = 0] \in LocType
         /\ m.guard < 5 => [m EXCEPT !.guard = @ + 1] \in LocType
<1>1. /\ m.guard \in 0..5 /\ m.peers \in [Ips -> Owners \cup {None}] /\ m.todo \in Seq(RuleType)
      /\ m.octets \in [Owners -> Octets \cup {None}] /\ m.ip \in Ips \cup {None}
      /\ m = [peers |-> m.peers, octets |-> m.octets, todo |-> m.todo, ip |-> m.ip,
              guard |-> m.guard]
  BY DEF LocType
<1>2. \A n : [m EXCEPT !.guard = n] = [peers |-> m.peers, octets |-> m.octets, todo |-> m.todo,
                                       ip |-> m.ip, guard |-> n]
  BY <1>1
<1>3. \A n \in 0..5 : [m EXCEPT !.guard = n] \in LocType
  BY <1>1, <1>2 DEF LocType
<1>4. m.guard < 5 => m.guard + 1 \in 0..5
  BY <1>1
<1> QED BY <1>3, <1>4

LEMMA OtherFields ==
  ASSUME NEW m \in LocType, NEW x
  PROVE  /\ [m EXCEPT !.guard = x].guard = x
         /\ [m EXCEPT !.guard = x].todo = m.todo
         /\ [m EXCEPT !.guard = x].peers = m.peers /\ [m EXCEPT !.guard = x].octets = m.octets
         /\ [m EXCEPT !.peers = x].guard = m.guard /\ [m EXCEPT !.octets = x].guard = m.guard
         /\ [m EXCEPT !.todo = x].guard = m.guard
  BY DEF LocType

LEMMA GotoType ==
  ASSUME Types, NEW t \in Threads, NEW l \in Pcs, NEW m \in LocType, Goto(t, l, m)
  PROVE  pc' \in [Threads -> Pcs] /\ loc' \in [Threads -> LocType]
  BY DEF Types, Goto

LEMMA ReturnType ==
  ASSUME Types, NEW t \in Threads, Return(t)
  PROVE  pc' \in [Threads -> Pcs] /\ loc' \in [Threads -> LocType] /\ booting' \in BOOLEAN
<1>1. "idle" \in Pcs
  BY DEF Pcs
<1> QED BY <1>1, NoLocType, GotoType DEF Return

LEMMA StayType ==
  ASSUME Types, NEW t \in Threads, NEW l \in Pcs, NEW m \in LocType, Goto(t, l, m), UNCHANGED booting
  PROVE  pc' \in [Threads -> Pcs] /\ loc' \in [Threads -> LocType] /\ booting' \in BOOLEAN
<1>1. booting' \in BOOLEAN
  BY DEF Types
<1> QED BY <1>1, GotoType

LEMMA StepTypes ==
  ASSUME Types, LocalInv, Next
  PROVE  Types'
<1> USE NoLocType, GotoType
<1>0. <<>> \in Seq(RuleType)
  OBVIOUS
<1>1. ASSUME NEW t \in Threads, NEW l \in Pcs, NEW m \in LocType, Begin(t, l, m),
             peers' \in PeerTable, octets' \in OctetTable, stale' \in BOOLEAN, silent' \in BOOLEAN
      PROVE  Types'
  <2>1. pc' \in [Threads -> Pcs] /\ loc' \in [Threads -> LocType]
    BY <1>1 DEF Begin
  <2>2. calls' \in 0..MaxCalls /\ overlapped' \in BOOLEAN
    BY <1>1, FirewallAssumption DEF Begin, Types
  <2> QED BY <1>1, <2>1, <2>2 DEF Begin, Types
<1>2. ASSUME NEW t \in Threads, EnsurePeer(t) PROVE Types'
  <2>1. PICK i \in Ips, o \in Owners :
          /\ peers' = [peers EXCEPT ![i] = o]
          /\ Begin(t, "peers", NoLoc) \/ Begin(t, "rollback", [NoLoc EXCEPT !.ip = i])
    BY <1>2 DEF EnsurePeer
  <2>2. [NoLoc EXCEPT !.ip = i] \in LocType
    BY DEF LocType
  <2>3. /\ peers' \in PeerTable /\ octets' \in OctetTable
        /\ stale' \in BOOLEAN /\ silent' \in BOOLEAN
    BY <1>2, <2>1 DEF EnsurePeer, Types, PeerTable
  <2> QED BY <1>1, <2>1, <2>2, <2>3 DEF Pcs
<1>3. ASSUME NEW t \in Threads, RemovePeer(t) PROVE Types'
  <2>1. Begin(t, "peers", NoLoc) \/ Begin(t, "idle", NoLoc)
    BY <1>3 DEF RemovePeer, Handler
  <2>2. /\ peers' \in PeerTable /\ octets' \in OctetTable
        /\ stale' \in BOOLEAN /\ silent' \in BOOLEAN
    BY <1>3 DEF RemovePeer, Types, PeerTable
  <2> QED BY <1>1, <2>1, <2>2 DEF Pcs
<1>14. ASSUME NEW t \in Threads, Rollback(t) PROVE Types'
  <2>1. /\ pc' \in [Threads -> Pcs] /\ loc' \in [Threads -> LocType] /\ booting' \in BOOLEAN
        /\ peers' \in PeerTable
    BY <1>14, ReturnType DEF Rollback, Types, PeerTable
  <2> QED BY <1>14, <2>1 DEF Rollback, Types
<1>4. ASSUME NEW t \in Threads, Spawn(t) PROVE Types'
  <2>1. octets' \in OctetTable
    <3>1. PICK o \in Owners :
            octets' = IF octets[o] # None THEN octets
                      ELSE [octets EXCEPT ![o] = IF FreeOctets = {} THEN None
                                                 ELSE CHOOSE n \in FreeOctets : TRUE]
      BY <1>4 DEF Spawn
    <3>2. FreeOctets # {} => (CHOOSE n \in FreeOctets : TRUE) \in Octets
      BY DEF FreeOctets
    <3> QED BY <3>1, <3>2 DEF Types, OctetTable
  <2>2. stale' \in BOOLEAN /\ silent' \in BOOLEAN /\ peers' = peers
    BY <1>4 DEF Spawn, Types
  <2>3. Begin(t, "peers", NoLoc) \/ Begin(t, "idle", NoLoc)
    BY <1>4 DEF Spawn, Handler
  <2> QED BY <1>1, <2>1, <2>2, <2>3 DEF Types, Pcs
<1>5. ASSUME NEW t \in Threads, Release(t) \/ Reconcile(t) PROVE Types'
  BY <1>1, <1>5 DEF Release, Reconcile, Handler, Types, Pcs, tables
<1>6. ASSUME NEW t \in Threads, FreeOctet(t) PROVE Types'
  BY <1>6 DEF FreeOctet, Types, OctetTable
<1>7. ASSUME NEW t \in Threads, EndFree(t) PROVE Types'
  <2>1. pc' \in [Threads -> Pcs] /\ loc' \in [Threads -> LocType] /\ booting' \in BOOLEAN
    BY <1>7 DEF EndFree, Step, Return, Types, Pcs
  <2> QED BY <1>7, <2>1 DEF EndFree, Types, tables
<1>8. ASSUME NEW t \in Threads, ReadPeers(t) \/ ReadOctets(t) PROVE Types'
  <2>1. /\ [loc[t] EXCEPT !.peers = peers] \in LocType
        /\ [loc[t] EXCEPT !.octets = octets] \in LocType
    BY DEF Types, LocType, PeerTable, OctetTable
  <2>2. pc' \in [Threads -> Pcs] /\ loc' \in [Threads -> LocType]
    BY <1>8, <2>1 DEF ReadPeers, ReadOctets, Pcs
  <2> QED BY <1>8, <2>2 DEF ReadPeers, ReadOctets, Types, tables
<1>9. ASSUME NEW t \in Threads, Start(t) \/ Unhook(t) \/ Delete(t) \/ Hook(t) PROVE Types'
  <2>1. /\ loc[t] \in LocType /\ [loc[t] EXCEPT !.guard = 0] \in LocType
        /\ loc[t].guard < 5 => [loc[t] EXCEPT !.guard = @ + 1] \in LocType
    BY GuardType DEF Types
  <2>2. Return(t) \/ \E l \in Pcs, m \in LocType : Goto(t, l, m) /\ booting' = booting
    <3>1. CASE Start(t)
      BY <2>1, <3>1 DEF Start, Step, Pcs
    <3>2. CASE Unhook(t)
      BY <2>1, <3>2 DEF Unhook, Pcs
    <3>3. CASE Delete(t)
      <4>1. pc[t] = "delete" /\ Goto(t, "unhook", [loc[t] EXCEPT !.guard = @ + 1])
        BY <3>3 DEF Delete
      <4> QED BY <2>1, <3>3, <4>1 DEF Delete, LocalInv, Pcs
    <3>4. CASE Hook(t)
      BY <2>1, <3>4 DEF Hook, Step, Pcs
    <3> QED BY <1>9, <3>1, <3>2, <3>3, <3>4
  <2>3. pc' \in [Threads -> Pcs] /\ loc' \in [Threads -> LocType] /\ booting' \in BOOLEAN
    <3>1. CASE Return(t)
      BY <3>1, ReturnType
    <3>2. CASE \E l \in Pcs, m \in LocType : Goto(t, l, m) /\ booting' = booting
      BY <3>2, StayType
    <3> QED BY <2>2, <3>1, <3>2
  <2>4. jumps' \in Nat /\ happened' \subseteq FaultKinds
    BY <1>9 DEF Start, Unhook, Delete, Hook, Fault, NoFault, Types
  <2> QED BY <1>9, <2>3, <2>4 DEF Start, Unhook, Delete, Hook, Types, tables
<1>10. ASSUME NEW t \in Threads, Flush(t) PROVE Types'
  <2>1. [loc[t] EXCEPT !.todo = BuildRules(loc[t].peers, loc[t].octets)] \in LocType
    <3>1. loc[t] \in LocType
      BY DEF Types
    <3>2. BuildRules(loc[t].peers, loc[t].octets) \in Seq(RuleType)
      BY <3>1, BuildSet DEF LocType, PeerTable, OctetTable
    <3> QED BY <3>1, <3>2 DEF LocType
  <2>2. pc' \in [Threads -> Pcs] /\ loc' \in [Threads -> LocType] /\ booting' \in BOOLEAN
    <3>1. CASE Return(t)
      BY <3>1, ReturnType
    <3>2. CASE Goto(t, "append", [loc[t] EXCEPT !.todo = BuildRules(loc[t].peers, loc[t].octets)]) /\ UNCHANGED booting
      <4>1. "append" \in Pcs
        BY DEF Pcs
      <4> QED BY <4>1, <2>1, <3>2, StayType
    <3> QED BY <1>10, <3>1, <3>2 DEF Flush
  <2>3. happened' \subseteq FaultKinds
    BY <1>10 DEF Flush, Fault, NoFault, Types
  <2>4. chain' \in Seq(RuleType)
    BY <1>0, <1>10 DEF Flush, Types
  <2>5. stale' \in BOOLEAN
    BY <1>10 DEF Flush, Types
  <2> QED BY <1>10, <2>2, <2>3, <2>4, <2>5 DEF Flush, Types, tables
<1>11. ASSUME NEW t \in Threads, CheckRule(t) \/ AppendRule(t) \/ Clear(t) PROVE Types'
  <2>1. loc[t] \in LocType /\ loc[t].todo \in Seq(RuleType)
    BY DEF Types, LocType
  <2>2. pc[t] # "clear" =>
          /\ loc[t].todo # <<>>
          /\ [loc[t] EXCEPT !.todo = Tail(@)] \in LocType /\ Head(loc[t].todo) \in RuleType
    <3>1. pc[t] # "clear" => loc[t].todo # <<>>
      BY <1>11 DEF CheckRule, AppendRule, Clear, LocalInv
    <3>2. loc[t].todo # <<>> => /\ [loc[t] EXCEPT !.todo = Tail(@)] \in LocType
                                /\ Head(loc[t].todo) \in RuleType
      BY <2>1, MembersTail DEF LocType
    <3> QED BY <3>1, <3>2
  <2>3. pc' \in [Threads -> Pcs] /\ loc' \in [Threads -> LocType] /\ booting' \in BOOLEAN
    <3>1. CASE Return(t)
      BY <3>1, ReturnType
    <3>2. CASE \E l \in Pcs, m \in LocType : Goto(t, l, m) /\ booting' = booting
      BY <3>2, StayType
    <3>3. CASE CheckRule(t) \/ AppendRule(t)
      <4>1. pc[t] # "clear"
        BY <3>3 DEF CheckRule, AppendRule
      <4> QED BY <2>1, <2>2, <3>2, <3>3, <4>1, NoLocType DEF CheckRule, AppendRule, Pcs
    <3> QED BY <1>11, <3>1, <3>3 DEF Clear
  <2>4. happened' \subseteq FaultKinds
    BY <1>11 DEF CheckRule, AppendRule, Clear, Fault, NoFault, Types
  <2>5. stale' \in BOOLEAN
    BY <1>11 DEF CheckRule, AppendRule, Clear, Types
  <2>6. chain' \in Seq(RuleType)
    <3>1. chain \in Seq(RuleType)
      BY DEF Types
    <3>2. pc[t] # "clear" => Append(chain, Head(loc[t].todo)) \in Seq(RuleType)
      BY <2>2, <3>1, MembersAppend
    <3> QED BY <1>0, <1>11, <3>1, <3>2 DEF CheckRule, AppendRule, Clear
  <2> QED BY <1>11, <2>3, <2>4, <2>5, <2>6 DEF CheckRule, AppendRule, Clear, Types, tables
<1>12. ASSUME NEW t \in Threads, EndRebuild(t) PROVE Types'
  <2>1. pc' \in [Threads -> Pcs] /\ loc' \in [Threads -> LocType] /\ booting' \in BOOLEAN
    BY <1>12, ReturnType DEF EndRebuild
  <2> QED BY <1>12, <2>1 DEF EndRebuild, Types, tables
<1>13. CASE Crash \/ Reboot
  <2>1. pc' \in [Threads -> Pcs] /\ loc' \in [Threads -> LocType] /\ booting' \in BOOLEAN
    BY <1>13 DEF Crash, Reboot, Restart, Pcs
  <2>2. happened' \subseteq FaultKinds /\ jumps' \in Nat
    BY <1>13 DEF Crash, Reboot, Fault, Types
  <2>3. chain' \in Seq(RuleType)
    BY <1>0, <1>13 DEF Crash, Reboot, Types
  <2>4. stale' \in BOOLEAN
    BY <1>13 DEF Crash, Reboot
  <2> QED BY <1>13, <2>1, <2>2, <2>3, <2>4 DEF Crash, Reboot, Restart, Types, tables
<1> QED
  BY <1>2, <1>3, <1>4, <1>5, <1>6, <1>7, <1>8, <1>9, <1>10, <1>11, <1>12, <1>13, <1>14
     DEF Next, Rebuild

-----------------------------------------------------------------------------
\* The jumps.

LEMMA GotoOne ==
  ASSUME Types, NEW t \in Threads, NEW l, NEW m, Goto(t, l, m)
  PROVE  /\ pc'[t] = l /\ loc'[t] = m
         /\ \A q \in Threads \ {t} : pc'[q] = pc[q] /\ loc'[q] = loc[q]
  BY DEF Types, Goto

LEMMA KindsGrow ==
  ASSUME Next
  PROVE  happened \subseteq happened'
<1>1. ASSUME NEW t \in Threads,
             EnsurePeer(t) \/ RemovePeer(t) \/ Spawn(t) \/ Release(t) \/ Reconcile(t)
      PROVE  happened \subseteq happened'
  BY <1>1 DEF EnsurePeer, RemovePeer, Spawn, Release, Reconcile, Handler, Begin
<1>2. ASSUME NEW t \in Threads, Rollback(t) \/ FreeOctet(t) \/ EndFree(t) \/ Rebuild(t)
      PROVE  happened \subseteq happened'
  BY <1>2 DEF Rollback, FreeOctet, EndFree, Rebuild, ReadPeers, ReadOctets, Start, Unhook, Delete,
     Hook, Flush, CheckRule, AppendRule, Clear, EndRebuild, Fault, NoFault
<1> QED BY <1>1, <1>2 DEF Next, Crash, Reboot, Fault

\* What looks for a rule or a jump finds one to append or delete.
LEMMA StepLocal ==
  ASSUME Types, LocalInv, Next
  PROVE  LocalInv'
<1>16. happened \subseteq happened'
  BY KindsGrow
<1>1. ASSUME NEW t \in Threads, NEW l, NEW m, Goto(t, l, m),
             l = "add" => m.todo # <<>>, l = "delete" => m.guard < 5,
             l \notin {"unhook", "delete"} => m.guard = 0,
             l = "clear" => "rule" \in happened', happened \subseteq happened'
      PROVE  LocalInv'
  BY <1>1, GotoOne DEF LocalInv
<1>2. ASSUME NEW t \in Threads, NEW l, NEW m, Goto(t, l, m), l \notin {"add", "delete", "clear"},
             m.guard = 0
      PROVE  LocalInv'
  BY <1>1, <1>2, <1>16
<1>3. NoLoc.guard = 0 /\ \A i : [NoLoc EXCEPT !.ip = i].guard = 0
  BY DEF NoLoc
<1>4. \A t \in Threads : /\ loc[t] \in LocType
                         /\ pc[t] \notin {"unhook", "delete"} => loc[t].guard = 0
  BY DEF Types, LocalInv
<1>5. ASSUME NEW t \in Threads, Return(t) PROVE LocalInv'
  BY <1>2, <1>3, <1>5 DEF Return
<1>6. ASSUME NEW t \in Threads,
             EnsurePeer(t) \/ RemovePeer(t) \/ Spawn(t) \/ Release(t) \/ Reconcile(t)
      PROVE  LocalInv'
  <2>1. PICK l \in {"peers", "idle", "free", "prune", "rollback"} :
               Begin(t, l, NoLoc) \/ \E i : Begin(t, l, [NoLoc EXCEPT !.ip = i])
    BY <1>6 DEF EnsurePeer, RemovePeer, Spawn, Release, Reconcile, Handler
  <2> QED BY <1>2, <1>3, <2>1 DEF Begin
<1>7. ASSUME NEW t \in Threads, FreeOctet(t) PROVE LocalInv'
  BY <1>7 DEF FreeOctet, LocalInv
<1>8. ASSUME NEW t \in Threads, NEW l, Step(t, "free", l) \/ Step(t, "start", l) \/ Step(t, "hook", l),
             l \notin {"add", "delete", "clear"}
      PROVE  LocalInv'
  BY <1>2, <1>4, <1>8 DEF Step
<1>9. ASSUME NEW t \in Threads, Rollback(t) \/ EndFree(t) \/ Start(t) \/ Hook(t) \/ Clear(t) \/ EndRebuild(t)
      PROVE  LocalInv'
  BY <1>5, <1>8, <1>9 DEF Rollback, EndFree, Start, Hook, Clear, EndRebuild
<1>10. ASSUME NEW t \in Threads, ReadPeers(t) \/ ReadOctets(t) PROVE LocalInv'
  <2>1. loc[t].guard = 0
    BY <1>4, <1>10 DEF ReadPeers, ReadOctets
  <2>2. CASE ReadPeers(t)
    <3> DEFINE m == [loc[t] EXCEPT !.peers = peers]
    <3>1. Goto(t, "octets", m) /\ m.guard = 0
      BY <1>4, <2>1, <2>2 DEF LocType, ReadPeers
    <3> HIDE DEF m
    <3> QED BY <1>2, <3>1
  <2>3. CASE ReadOctets(t)
    <3> DEFINE m == [loc[t] EXCEPT !.octets = octets]
    <3>1. Goto(t, "start", m) /\ m.guard = 0
      BY <1>4, <2>1, <2>3 DEF LocType, ReadOctets
    <3> HIDE DEF m
    <3> QED BY <1>2, <3>1
  <2> QED BY <1>10, <2>2, <2>3
<1>11. ASSUME NEW t \in Threads, Unhook(t) PROVE LocalInv'
  <2>2. CASE Goto(t, "hook", [loc[t] EXCEPT !.guard = 0])
    <3> DEFINE m == [loc[t] EXCEPT !.guard = 0]
    <3>1. Goto(t, "hook", m) /\ m.guard = 0
      BY <1>4, <2>2 DEF LocType
    <3> HIDE DEF m
    <3> QED BY <1>2, <3>1
  <2>3. CASE Goto(t, "delete", loc[t]) /\ loc[t].guard < 5
    BY <1>1, <1>16, <2>3
  <2> QED BY <1>11, <2>2, <2>3 DEF Unhook
<1>12. ASSUME NEW t \in Threads, Delete(t) PROVE LocalInv'
  <2>1. [loc[t] EXCEPT !.guard = @ + 1].todo = loc[t].todo
    BY <1>4 DEF LocType
  <2> QED BY <1>1, <1>12, <1>16, <2>1 DEF Delete
<1>13. ASSUME NEW t \in Threads, Flush(t) PROVE LocalInv'
  <2>1. CASE Return(t)
    BY <1>5, <2>1
  <2>2. CASE \E x : Goto(t, "append", [loc[t] EXCEPT !.todo = x])
    <3>1. loc[t].guard = 0
      BY <1>4, <1>13 DEF Flush
    <3>2. PICK x : Goto(t, "append", [loc[t] EXCEPT !.todo = x])
      BY <2>2
    <3> DEFINE m == [loc[t] EXCEPT !.todo = x]
    <3>3. Goto(t, "append", m) /\ m.guard = 0
      BY <1>4, <3>1, <3>2 DEF LocType
    <3> HIDE DEF m
    <3> QED BY <1>2, <3>3
  <2> QED BY <1>13, <2>1, <2>2 DEF Flush
<1>14. ASSUME NEW t \in Threads, CheckRule(t) \/ AppendRule(t) PROVE LocalInv'
  <2>1. loc[t].guard = 0
    BY <1>4, <1>14 DEF CheckRule, AppendRule
  <2>2. CASE Goto(t, "append", [loc[t] EXCEPT !.todo = Tail(@)])
    <3> DEFINE m == [loc[t] EXCEPT !.todo = Tail(@)]
    <3>1. Goto(t, "append", m) /\ m.guard = 0
      BY <1>4, <2>1, <2>2 DEF LocType
    <3> HIDE DEF m
    <3> QED BY <1>2, <3>1
  <2>3. CASE Goto(t, "clear", NoLoc) /\ Fault("rule")
    BY <1>1, <1>3, <1>16, <2>3 DEF Fault
  <2>4. CASE Goto(t, "add", loc[t]) /\ loc[t].todo # <<>>
    BY <1>1, <1>16, <2>1, <2>4
  <2> QED BY <1>14, <2>2, <2>3, <2>4 DEF CheckRule, AppendRule
<1>15. CASE Crash \/ Reboot
  <2>1. PICK t \in Threads : /\ pc' = [q \in Threads |-> IF q = t THEN "peers" ELSE "idle"]
                             /\ loc' = [q \in Threads |-> NoLoc]
    BY <1>15 DEF Crash, Reboot, Restart
  <2> QED BY <1>3, <2>1 DEF LocalInv
<1> QED BY <1>6, <1>7, <1>9, <1>10, <1>11, <1>12, <1>13, <1>14, <1>15 DEF Next, Rebuild

LEMMA HookingFinite ==
  ASSUME Types
  PROVE  /\ IsFiniteSet(Hooking) /\ Cardinality(Hooking) \in Nat
         /\ Cardinality(Hooking) <= Cardinality(Threads) /\ Cardinality(Threads) \in Nat
  BY FirewallAssumption, FS_Subset, FS_CardinalityType DEF Hooking

LEMMA StepJumps ==
  ASSUME Types, Types', LocalInv, JumpsInv, Next
  PROVE  JumpsInv'
<1>1. /\ jumps + Cardinality(Hooking) <= Cardinality(Threads)
      /\ happened \cap {"start", "hook"} = {} =>
           jumps > 0 \/ \E t \in Threads : pc[t] \in BeforeHook
  BY DEF JumpsInv, Hooking, BeforeHook
<1>2. /\ Cardinality(Threads) \in Nat /\ Cardinality(Hooking) \in Nat
      /\ Cardinality(Hooking) <= Cardinality(Threads)
      /\ IsFiniteSet(Hooking) /\ jumps \in Nat
  BY HookingFinite DEF Types
<1>3. ASSUME jumps' + Cardinality(Hooking') <= Cardinality(Threads),
             happened' \cap {"start", "hook"} = {} =>
               jumps' > 0 \/ \E t \in Threads : pc'[t] \in BeforeHook
      PROVE  JumpsInv'
  BY <1>3 DEF JumpsInv, Hooking, BeforeHook
<1>4. ASSUME NEW t \in Threads, NEW l, NEW m, Goto(t, l, m), t \notin Hooking,
             l # "hook", l \in {"unhook", "delete"} => m.guard = 0,
             UNCHANGED jumps, happened \subseteq happened',
             pc[t] \in BeforeHook => l \in BeforeHook \/ "start" \in happened'
      PROVE  JumpsInv'
  <2>1. /\ pc'[t] = l /\ loc'[t] = m
        /\ \A q \in Threads \ {t} : pc'[q] = pc[q] /\ loc'[q] = loc[q]
    BY <1>4, GotoOne
  <2>2. Hooking' = Hooking
    BY <1>4, <2>1 DEF Hooking
  <2>3. ASSUME happened' \cap {"start", "hook"} = {}, ~ jumps' > 0
        PROVE  \E q \in Threads : pc'[q] \in BeforeHook
    <3>1. PICK q \in Threads : pc[q] \in BeforeHook
      BY <1>1, <1>4, <2>3
    <3>2. CASE q = t
      BY <1>4, <2>1, <2>3, <3>1, <3>2
    <3>3. CASE q # t
      BY <2>1, <3>1, <3>3
    <3> QED BY <3>2, <3>3
  <2> QED BY <1>1, <1>3, <1>4, <2>2, <2>3
<1>5. ASSUME NEW t \in Threads,
             EnsurePeer(t) \/ RemovePeer(t) \/ Spawn(t) \/ Release(t) \/ Reconcile(t)
      PROVE  JumpsInv'
  <2>1. PICK l \in {"peers", "idle", "free", "prune", "rollback"} : \E m : Begin(t, l, m)
    BY <1>5 DEF EnsurePeer, RemovePeer, Spawn, Release, Reconcile, Handler
  <2> QED BY <1>4, <2>1 DEF Begin, BeforeHook, Hooking
<1>6. ASSUME NEW t \in Threads, FreeOctet(t) PROVE JumpsInv'
  BY <1>6 DEF FreeOctet, JumpsInv, Hooking
<1>7. ASSUME NEW t \in Threads, Rollback(t) \/ EndFree(t) \/ ReadPeers(t) \/ ReadOctets(t)
      PROVE  JumpsInv'
  <2>1. /\ UNCHANGED <<jumps, happened>> /\ t \notin Hooking
        /\ \E l, m : /\ Goto(t, l, m) /\ l \notin {"hook", "unhook", "delete"}
                     /\ pc[t] \in BeforeHook => l \in BeforeHook
    BY <1>7 DEF Rollback, EndFree, ReadPeers, ReadOctets, Step, Return, BeforeHook, Hooking
  <2> QED BY <1>4, <2>1
<1>8. ASSUME NEW t \in Threads, Start(t) PROVE JumpsInv'
  <2>1. /\ UNCHANGED jumps /\ happened \subseteq happened'
        /\ pc[t] = "start" /\ t \notin Hooking /\ loc[t].guard = 0
    BY <1>8 DEF Start, Step, Fault, NoFault, Hooking, LocalInv
  <2>2. Goto(t, "unhook", loc[t]) \/ (Goto(t, "idle", NoLoc) /\ "start" \in happened')
    BY <1>8 DEF Start, Step, Return, Fault
  <2> QED BY <1>4, <2>1, <2>2 DEF BeforeHook
<1>9. ASSUME NEW t \in Threads, Unhook(t) \/ Delete(t) PROVE JumpsInv'
  <2>1. PICK l, m :
          /\ l \in {"unhook", "delete", "hook"}
          /\ Goto(t, l, m) /\ pc[t] \in {"unhook", "delete"}
          /\ l = "delete" => m = loc[t] /\ jumps' = jumps
          /\ l = "hook" => jumps' = jumps /\ (jumps = 0 \/ loc[t].guard > 0)
          /\ l = "unhook" => jumps' = IF jumps > 0 THEN jumps - 1 ELSE 0
    <3>1. loc[t].guard \in 0..5
      BY DEF Types, LocType
    <3>2. CASE Unhook(t)
      BY <1>2, <3>1, <3>2 DEF Unhook
    <3>3. CASE Delete(t)
      BY <3>3 DEF Delete
    <3> QED BY <1>9, <3>2, <3>3
  <2>2. /\ pc'[t] = l /\ loc'[t] = m
        /\ \A q \in Threads \ {t} : pc'[q] = pc[q] /\ loc'[q] = loc[q]
    BY <2>1, GotoOne
  <2>3. Hooking' \subseteq Hooking \cup {t} /\ IsFiniteSet(Hooking') /\ Cardinality(Hooking') \in Nat
    BY <2>2, FirewallAssumption, FS_Subset, FS_CardinalityType DEF Hooking
  <2>4. Cardinality(Hooking') <= Cardinality(Threads) /\ Cardinality(Hooking') <= Cardinality(Hooking) + 1
    <3>1. Cardinality(Hooking') <= Cardinality(Threads)
      BY FirewallAssumption, FS_Subset DEF Hooking
    <3>2. IsFiniteSet(Hooking \cup {t}) /\ Cardinality(Hooking \cup {t}) <= Cardinality(Hooking) + 1
      <4>1. /\ IsFiniteSet(Hooking \cup {t})
            /\ \/ Cardinality(Hooking \cup {t}) = Cardinality(Hooking)
               \/ Cardinality(Hooking \cup {t}) = Cardinality(Hooking) + 1
        BY <1>2, FS_AddElement, Zenon
      <4> QED BY <1>2, <4>1
    <3>3. Cardinality(Hooking') <= Cardinality(Hooking \cup {t}) /\ Cardinality(Hooking \cup {t}) \in Nat
      BY <2>3, <3>2, FS_Subset, FS_CardinalityType
    <3> QED BY <1>2, <2>3, <3>1, <3>2, <3>3
  <2>5. jumps' = 0 \/ jumps' = jumps - 1 \/ (jumps' = jumps /\ Hooking' = Hooking)
    BY <1>2, <2>1, <2>2 DEF Hooking
  <2>6. jumps' + Cardinality(Hooking') <= Cardinality(Threads)
    BY <1>1, <1>2, <2>3, <2>4, <2>5
  <2>7. pc'[t] \in BeforeHook
    BY <2>1, <2>2 DEF BeforeHook
  <2> QED BY <1>3, <2>6, <2>7
<1>10. ASSUME NEW t \in Threads, Hook(t) PROVE JumpsInv'
  <2>1. /\ pc[t] = "hook" /\ pc'[t] \in {"flush", "idle"}
        /\ \A q \in Threads \ {t} : pc'[q] = pc[q] /\ loc'[q] = loc[q]
    BY <1>10, GotoOne DEF Hook, Step, Return
  <2>2. t \in Hooking /\ Hooking' = Hooking \ {t}
    BY <2>1 DEF Hooking
  <2>3. Cardinality(Hooking') = Cardinality(Hooking) - 1
    BY <1>2, <2>2, FS_RemoveElement
  <2>4. jumps' = jumps + 1 \/ (jumps' = jumps /\ "hook" \in happened')
    BY <1>10 DEF Hook, Fault
  <2> QED BY <1>1, <1>2, <1>3, <2>3, <2>4
<1>11. ASSUME NEW t \in Threads,
              Flush(t) \/ CheckRule(t) \/ AppendRule(t) \/ Clear(t) \/ EndRebuild(t)
       PROVE  JumpsInv'
  <2>1. /\ UNCHANGED jumps /\ happened \subseteq happened'
        /\ pc[t] \in {"flush", "append", "add", "clear"}
        /\ \E l, m : Goto(t, l, m) /\ l \notin {"hook", "unhook", "delete"}
    BY <1>11 DEF Flush, CheckRule, AppendRule, Clear, EndRebuild, Step, Return, Fault, NoFault
  <2>2. t \notin Hooking
    BY <2>1 DEF Hooking
  <2> QED BY <1>4, <2>1, <2>2 DEF BeforeHook
<1>12. CASE Crash \/ Reboot
  <2>1. \E t \in Threads : pc' = [q \in Threads |-> IF q = t THEN "peers" ELSE "idle"]
    BY <1>12 DEF Crash, Reboot, Restart
  <2>2. Hooking' = {}
    BY <2>1 DEF Hooking
  <2>3. jumps' = jumps \/ jumps' = 0
    BY <1>12 DEF Crash, Reboot
  <2> QED BY <1>1, <1>2, <1>3, <2>1, <2>2, <2>3, FS_EmptySet DEF BeforeHook
<1> QED
  BY <1>5, <1>6, <1>7, <1>8, <1>9, <1>10, <1>11, <1>12 DEF Next, Rebuild

-----------------------------------------------------------------------------
\* The rules.

LEMMA NoTodo == ToSet(<<>>) = {}
  BY DEF ToSet

LEMMA PendingMembers ==
  ASSUME NEW x
  PROVE  x \in Pending <=> \E t \in Threads : pc[t] \in AppendPcs /\ Current(t) /\ x \in ToSet(loc[t].todo)
  BY DEF Pending

\* A thread that has nothing left to append, and gets nothing.
LEMMA RulesStay ==
  ASSUME Types, RulesInv, NEW t \in Threads, NEW l, NEW m, Goto(t, l, m), m.todo = <<>>,
         \/ stale'
         \/ ~ stale /\ UNCHANGED <<tables, chain>> /\ l \notin AppendPcs /\ loc[t].todo = <<>>
  PROVE  RulesInv'
<1>1. /\ pc'[t] = l /\ loc'[t] = m
      /\ \A q \in Threads \ {t} : pc'[q] = pc[q] /\ loc'[q] = loc[q]
  BY GotoOne
<1>2. ASSUME NEW q \in Threads
      PROVE  /\ ToSet(loc'[q].todo) \subseteq RulesOf(loc'[q].peers, loc'[q].octets)
             /\ pc'[q] \notin AppendPcs => loc'[q].todo = <<>>
  <2>1. CASE q = t
    BY <1>1, <2>1, NoTodo
  <2>2. CASE q # t
    BY <1>1, <2>2 DEF RulesInv
  <2> QED BY <2>1, <2>2
<1>3. ASSUME ~ stale' PROVE ToSet(chain') \cup Pending' = RulesOf(peers', octets')
  <2>1. /\ ~ stale /\ chain' = chain /\ peers' = peers /\ octets' = octets
        /\ l \notin AppendPcs /\ loc[t].todo = <<>>
    BY <1>3 DEF tables
  <2>2. ASSUME NEW q \in Threads, NEW x
        PROVE  (pc[q] \in AppendPcs /\ Current(q) /\ x \in ToSet(loc[q].todo))
               <=> (pc'[q] \in AppendPcs /\ Current(q)' /\ x \in ToSet(loc'[q].todo))
    <3>1. CASE q = t
      BY <1>1, <2>1, <3>1, NoTodo
    <3>2. CASE q # t
      BY <1>1, <2>1, <3>2 DEF Current
    <3> QED BY <3>1, <3>2
  <2>3. Pending' = Pending
    BY <2>2 DEF Pending
  <2> QED BY <2>1, <2>3 DEF RulesInv
<1> QED BY <1>2, <1>3 DEF RulesInv

LEMMA StepRules ==
  ASSUME Types, Types', LocalInv, RulesInv, Next
  PROVE  RulesInv'
<1>1. NoLoc.todo = <<>> /\ \A i : [NoLoc EXCEPT !.ip = i].todo = <<>>
  BY DEF NoLoc
<1>2. /\ \A t \in Threads : /\ ToSet(loc[t].todo) \subseteq RulesOf(loc[t].peers, loc[t].octets)
                            /\ pc[t] \notin AppendPcs => loc[t].todo = <<>>
      /\ ~ stale => ToSet(chain) \cup Pending = RulesOf(peers, octets)
  BY DEF RulesInv
<1>3. \A t \in Threads : loc[t] \in LocType
  BY DEF Types
<1>4. ASSUME NEW t \in Threads, EnsurePeer(t) \/ RemovePeer(t) \/ Rollback(t) PROVE RulesInv'
  BY <1>1, <1>4, RulesStay DEF EnsurePeer, RemovePeer, Rollback, Handler, Begin, Return
<1>5. ASSUME NEW t \in Threads, Spawn(t) \/ Release(t) \/ Reconcile(t) PROVE RulesInv'
  <2>1. PICK l \in {"peers", "idle", "free", "prune"} : Handler(t, l)
    BY <1>5 DEF Spawn, Release, Reconcile
  <2>2. Goto(t, l, NoLoc) /\ chain' = chain /\ l \notin AppendPcs /\ loc[t].todo = <<>>
    BY <1>2, <2>1 DEF Handler, Begin, AppendPcs
  <2>3. stale' \/ (~ stale /\ UNCHANGED tables)
    BY <1>5 DEF Spawn, Release, Reconcile, tables, Types
  <2> QED BY <1>1, <2>2, <2>3, RulesStay
<1>6. ASSUME NEW t \in Threads, FreeOctet(t) PROVE RulesInv'
  BY <1>2, <1>6 DEF FreeOctet, RulesInv
<1>7. ASSUME NEW t \in Threads,
             \/ EndFree(t) \/ Start(t) \/ Unhook(t) \/ Delete(t) \/ Hook(t) \/ EndRebuild(t)
             \/ pc[t] = "flush" /\ Return(t) /\ UNCHANGED <<tables, chain, stale>>
      PROVE  RulesInv'
  <2>1. /\ loc[t].todo = <<>>
        /\ \A n : [loc[t] EXCEPT !.guard = n].todo = loc[t].todo
    <3>2. loc[t].todo = <<>>
      <4>1. CASE EndRebuild(t)
        BY <4>1 DEF EndRebuild
      <4>2. CASE ~ EndRebuild(t)
        BY <1>2, <1>7, <4>2
           DEF EndFree, Start, Unhook, Delete, Hook, Step, AppendPcs
      <4> QED BY <4>1, <4>2
    <3> QED BY <1>3, <3>2, OtherFields
  <2>2. /\ UNCHANGED <<tables, chain, stale>> /\ loc[t].todo = <<>>
        /\ \E l, m : Goto(t, l, m) /\ l \notin AppendPcs /\ m.todo = <<>>
    <3>1. CASE Return(t)
      BY <1>1, <1>7, <2>1, <3>1 DEF EndFree, Start, Unhook, Delete, Hook, EndRebuild, Return, AppendPcs
    <3>2. CASE ~ Return(t)
      <4>1. \E l \in Pcs \ AppendPcs : \E n :
              Goto(t, l, loc[t]) \/ Goto(t, l, [loc[t] EXCEPT !.guard = n])
        BY <1>7, <3>2 DEF EndFree, Start, Unhook, Delete, Hook, EndRebuild, Step, AppendPcs, Pcs
      <4>2. UNCHANGED <<tables, chain, stale>>
        BY <1>7 DEF EndFree, Start, Unhook, Delete, Hook, EndRebuild
      <4> QED BY <2>1, <4>1, <4>2
    <3> QED BY <3>1, <3>2
  <2>3. stale' \/ ~ stale
    BY <2>2
  <2> QED BY <2>2, <2>3, RulesStay
<1>8. ASSUME NEW t \in Threads, ReadPeers(t) \/ ReadOctets(t) PROVE RulesInv'
  <2>1. /\ [loc[t] EXCEPT !.peers = peers].todo = loc[t].todo
        /\ [loc[t] EXCEPT !.octets = octets].todo = loc[t].todo
    BY <1>3 DEF LocType
  <2>2. /\ UNCHANGED <<tables, chain, stale>> /\ loc[t].todo = <<>>
        /\ \E l, m : Goto(t, l, m) /\ l \notin AppendPcs /\ m.todo = <<>>
    <3>1. pc[t] \notin AppendPcs /\ UNCHANGED <<tables, chain, stale>>
      BY <1>8 DEF ReadPeers, ReadOctets, AppendPcs
    <3>2. loc[t].todo = <<>>
      BY <1>2, <3>1
    <3>3. CASE ReadPeers(t)
      <4>1. Goto(t, "octets", [loc[t] EXCEPT !.peers = peers])
        BY <3>3 DEF ReadPeers
      <4> DEFINE m == [loc[t] EXCEPT !.peers = peers]
      <4>2. Goto(t, "octets", m) /\ m.todo = <<>>
        BY <2>1, <3>2, <4>1
      <4> HIDE DEF m
      <4> QED BY <3>1, <3>2, <4>2 DEF AppendPcs
    <3>4. CASE ReadOctets(t)
      <4>1. Goto(t, "start", [loc[t] EXCEPT !.octets = octets])
        BY <3>4 DEF ReadOctets
      <4> DEFINE m == [loc[t] EXCEPT !.octets = octets]
      <4>2. Goto(t, "start", m) /\ m.todo = <<>>
        BY <2>1, <3>2, <4>1
      <4> HIDE DEF m
      <4> QED BY <3>1, <3>2, <4>2 DEF AppendPcs
    <3> QED BY <1>8, <3>3, <3>4
  <2>3. stale' \/ ~ stale
    BY <2>2
  <2> QED BY <2>2, <2>3, RulesStay
<1>9. ASSUME NEW t \in Threads, Flush(t) PROVE RulesInv'
  <2> DEFINE rules == BuildRules(loc[t].peers, loc[t].octets)
             m == [loc[t] EXCEPT !.todo = rules]
  <2>1. /\ m.peers = loc[t].peers /\ m.octets = loc[t].octets /\ m.todo = rules
        /\ loc[t].peers \in PeerTable /\ loc[t].octets \in OctetTable
    BY <1>3 DEF LocType, PeerTable, OctetTable
  <2>2. ToSet(rules) = RulesOf(loc[t].peers, loc[t].octets)
    BY <2>1, BuildSet
  <2> HIDE DEF m, rules
  <2>3. CASE Return(t) /\ UNCHANGED <<chain, stale>>
    BY <1>7, <1>9, <2>3 DEF Flush
  <2>4. CASE Goto(t, "append", m) /\ chain' = <<>> /\ stale' = ~ Current(t)
    <3>1. /\ pc'[t] = "append" /\ loc'[t] = m
          /\ \A q \in Threads \ {t} : pc'[q] = pc[q] /\ loc'[q] = loc[q]
      BY <2>4, GotoOne
    <3>2. ASSUME NEW q \in Threads
          PROVE  /\ ToSet(loc'[q].todo) \subseteq RulesOf(loc'[q].peers, loc'[q].octets)
                 /\ pc'[q] \notin AppendPcs => loc'[q].todo = <<>>
      <4>1. CASE q = t
        BY <2>1, <2>2, <3>1, <4>1 DEF AppendPcs
      <4>2. CASE q # t
        BY <1>2, <3>1, <4>2
      <4> QED BY <4>1, <4>2
    <3>3. peers' = peers /\ octets' = octets
      BY <1>9 DEF Flush, tables
    <3>4. ASSUME ~ stale' PROVE ToSet(chain') \cup Pending' = RulesOf(peers', octets')
      <4>1. loc[t].peers = peers /\ loc[t].octets = octets
        BY <2>4, <3>4 DEF Current
      <4>2. Current(t)' /\ ToSet(loc'[t].todo) = RulesOf(peers', octets')
        BY <2>1, <2>2, <3>1, <3>3, <4>1 DEF Current
      <4>3. RulesOf(peers', octets') \subseteq Pending'
        BY <3>1, <4>2 DEF Pending, AppendPcs
      <4>4. Pending' \subseteq RulesOf(peers', octets')
        BY <3>2 DEF Pending, Current
      <4> QED BY <2>4, <4>3, <4>4, NoTodo
    <3> QED BY <3>2, <3>4 DEF RulesInv
  <2> QED BY <1>9, <2>3, <2>4 DEF Flush, m, rules
<1>10. ASSUME NEW t \in Threads, CheckRule(t) \/ AppendRule(t) PROVE RulesInv'
  <2> DEFINE todo == loc[t].todo
             m == [loc[t] EXCEPT !.todo = Tail(@)]
  <2>1. /\ m.peers = loc[t].peers /\ m.octets = loc[t].octets /\ m.todo = Tail(todo)
        /\ todo \in Seq(RuleType) /\ todo # <<>> /\ pc[t] \in AppendPcs
        /\ peers' = peers /\ octets' = octets
    BY <1>3, <1>10 DEF LocType, CheckRule, AppendRule, LocalInv, AppendPcs, tables
  <2>2. /\ Head(todo) \in RuleType /\ ToSet(todo) = {Head(todo)} \cup ToSet(Tail(todo))
    BY <2>1, MembersTail
  <2> HIDE DEF m
  <2>3. CASE Goto(t, "clear", NoLoc) /\ stale'
    BY <1>1, <2>3, RulesStay
  <2>4. CASE Goto(t, "add", loc[t]) /\ UNCHANGED <<chain, stale>>
    <3>1. /\ pc'[t] = "add" /\ loc' = loc
          /\ \A q \in Threads \ {t} : pc'[q] = pc[q]
      BY <2>4 DEF Goto, Types
    <3>2. Pending' = Pending
      BY <2>1, <3>1 DEF Pending, Current, AppendPcs
    <3> QED BY <1>2, <2>1, <2>4, <3>1, <3>2 DEF RulesInv, AppendPcs
  <2>5. CASE /\ Goto(t, "append", m) /\ ToSet(chain') = ToSet(chain) \cup {Head(todo)}
             /\ \/ stale' = (stale \/ ~ Current(t))
                \/ stale' = stale /\ Head(todo) \in ToSet(chain)
    <3>1. /\ pc'[t] = "append" /\ loc'[t] = m
          /\ \A q \in Threads \ {t} : pc'[q] = pc[q] /\ loc'[q] = loc[q]
      BY <2>5, GotoOne
    <3>2. ASSUME NEW q \in Threads
          PROVE  /\ ToSet(loc'[q].todo) \subseteq RulesOf(loc'[q].peers, loc'[q].octets)
                 /\ pc'[q] \notin AppendPcs => loc'[q].todo = <<>>
      <4>1. CASE q = t
        BY <1>2, <2>1, <2>2, <3>1, <4>1 DEF AppendPcs
      <4>2. CASE q # t
        BY <1>2, <3>1, <4>2
      <4> QED BY <4>1, <4>2
    <3>3. \A q \in Threads : Current(q)' <=> Current(q)
      BY <2>1, <3>1 DEF Current
    <3>4. ASSUME Current(t) PROVE Pending = Pending' \cup {Head(todo)}
      <4>1. Pending' \subseteq Pending
        BY <2>1, <2>2, <3>1, <3>3 DEF Pending
      <4>2. Head(todo) \in Pending
        BY <2>1, <2>2, <3>4 DEF Pending
      <4>3. Pending \subseteq Pending' \cup {Head(todo)}
        BY <2>1, <2>2, <3>1, <3>3 DEF Pending, AppendPcs
      <4> QED BY <4>1, <4>2, <4>3
    <3>5. ASSUME ~ Current(t) PROVE Pending' = Pending
      BY <3>1, <3>3, <3>5 DEF Pending
    <3>6. ASSUME ~ stale' PROVE ToSet(chain') \cup Pending' = RulesOf(peers', octets')
      <4>1. ~ stale /\ (Current(t) \/ Head(todo) \in ToSet(chain))
        BY <2>5, <3>6 DEF Types
      <4>2. ToSet(chain) \cup Pending = RulesOf(peers, octets) /\ RulesOf(peers', octets') = RulesOf(peers, octets)
        BY <1>2, <2>1, <4>1
      <4>3. ToSet(chain') \cup Pending' = ToSet(chain) \cup Pending
        BY <2>5, <3>4, <3>5, <4>1
      <4> QED BY <4>2, <4>3
    <3> QED BY <3>2, <3>6 DEF RulesInv
  <2>6. CASE CheckRule(t)
    <3>1. Head(todo) \in ToSet(chain) => ToSet(chain) = ToSet(chain) \cup {Head(todo)}
      OBVIOUS
    <3> QED BY <2>4, <2>5, <2>6, <3>1 DEF CheckRule, m
  <2>7. CASE AppendRule(t)
    <3>1. ToSet(Append(chain, Head(todo))) = ToSet(chain) \cup {Head(todo)}
      <4>1. chain \in Seq(RuleType)
        BY DEF Types
      <4> QED BY <2>2, <4>1, MembersAppend
    <3> QED BY <2>3, <2>5, <2>7, <3>1 DEF AppendRule, m
  <2> QED BY <1>10, <2>6, <2>7
<1>12. ASSUME NEW t \in Threads, Clear(t) PROVE RulesInv'
  BY <1>1, <1>12, RulesStay DEF Clear, Return
<1>11. CASE Crash \/ Reboot
  <2>1. loc' = [q \in Threads |-> NoLoc] /\ stale'
    BY <1>11 DEF Crash, Reboot, Restart
  <2> QED BY <1>1, <2>1, NoTodo DEF RulesInv
<1> QED
  BY <1>4, <1>5, <1>6, <1>7, <1>8, <1>9, <1>10, <1>11, <1>12 DEF Next, Rebuild

-----------------------------------------------------------------------------
\* One handler after the other.

Ahead == Pcs \ ({"idle", "prune", "clear"} \cup AppendPcs)
Reads == {"start", "unhook", "delete", "hook", "flush"} \cup AppendPcs
OneAtWork == \A t, q \in Threads : pc[t] # "idle" /\ pc[q] # "idle" => t = q
HasRead(t) == /\ pc[t] = "octets" => loc[t].peers = peers
              /\ pc[t] \in Reads => Current(t)
Regular == ~ silent /\ happened \subseteq {"crash", "reboot"}

LEMMA SerialParts ==
  SerialInv <=> ~ overlapped =>
                  /\ OneAtWork
                  /\ \A t \in Threads : HasRead(t)
                  /\ Regular /\ stale => \E t \in Threads : pc[t] \in Ahead
  BY DEF SerialInv, OneAtWork, HasRead, Regular, Ahead, Reads

\* The thread at work goes on, and the tables stay.
LEMMA SerialStep ==
  ASSUME Types, ~ overlapped, SerialInv, NEW t \in Threads, NEW l, NEW m, Goto(t, l, m),
         pc[t] # "idle", UNCHANGED <<tables, overlapped>>,
         l = "octets" => m.peers = peers,
         l \in Reads => m.peers = peers /\ m.octets = octets,
         Regular' /\ stale' => l \in Ahead
  PROVE  SerialInv'
<1>1. /\ pc'[t] = l /\ loc'[t] = m
      /\ \A q \in Threads \ {t} : pc'[q] = pc[q] /\ loc'[q] = loc[q]
  BY GotoOne
<1>2. \A q \in Threads \ {t} : pc[q] = "idle"
  BY SerialParts DEF OneAtWork
<1>3. OneAtWork'
  BY <1>1, <1>2 DEF OneAtWork
<1>4. ASSUME NEW q \in Threads PROVE HasRead(q)'
  <2>1. CASE q = t
    BY <1>1, <2>1 DEF HasRead, Current, tables
  <2>2. CASE q # t
    BY <1>1, <1>2, <2>2 DEF HasRead, Reads, AppendPcs
  <2> QED BY <2>1, <2>2
<1>5. Regular' /\ stale' => \E q \in Threads : pc'[q] \in Ahead
  BY <1>1
<1> QED
  BY <1>3, <1>4, <1>5 DEF SerialInv, OneAtWork, HasRead, Regular, Ahead, Reads

\* A handler begins, and no other is at work.
LEMMA SerialBegin ==
  ASSUME Types, SerialInv, NEW t \in Threads, NEW l \in {"peers", "idle", "free", "prune", "rollback"},
         NEW m, Begin(t, l, m), l \in Ahead \/ (Regular' /\ stale' => Regular /\ stale)
  PROVE  SerialInv'
<1>1. /\ pc'[t] = l
      /\ \A q \in Threads \ {t} : pc'[q] = pc[q]
  BY GotoOne DEF Begin
<1>2. SUFFICES ASSUME ~ overlapped' PROVE SerialInv'
  BY DEF SerialInv
<1>3. ~ overlapped /\ \A q \in Threads : pc[q] = "idle"
  BY <1>2 DEF Begin
<1>4. OneAtWork' /\ \A q \in Threads : HasRead(q)'
  BY <1>1, <1>3 DEF OneAtWork, HasRead, Reads, AppendPcs
<1>5. ~ (Regular /\ stale)
  BY <1>3, SerialParts DEF Ahead
<1>6. Regular' /\ stale' => \E q \in Threads : pc'[q] \in Ahead
  BY <1>1, <1>5
<1> QED
  BY <1>4, <1>6 DEF SerialInv, OneAtWork, HasRead, Regular, Ahead, Reads

LEMMA StepSerial ==
  ASSUME Types, Types', LocalInv, SerialInv, Next
  PROVE  SerialInv'
<1>1. ~ overlapped =>
        /\ OneAtWork
        /\ \A t \in Threads : HasRead(t)
        /\ Regular /\ stale => \E t \in Threads : pc[t] \in Ahead
  BY SerialParts
<1>2. \A t \in Threads : loc[t] \in LocType
  BY DEF Types
<1>3. ASSUME NEW t \in Threads, EnsurePeer(t) \/ RemovePeer(t) PROVE SerialInv'
  <2>1. CASE \E l \in {"peers", "rollback"} : \E m : Begin(t, l, m)
    <3>1. "peers" \in Ahead /\ "rollback" \in Ahead
      BY DEF Ahead, Pcs, AppendPcs
    <3> QED BY <2>1, <3>1, SerialBegin
  <2>2. CASE Begin(t, "idle", NoLoc) /\ silent'
    BY <2>2, SerialBegin DEF Regular
  <2> QED BY <1>3, <2>1, <2>2 DEF EnsurePeer, RemovePeer, Handler
<1>4. ASSUME NEW t \in Threads, Spawn(t) PROVE SerialInv'
  <2>1. CASE Handler(t, "peers")
    BY <2>1, SerialBegin DEF Handler, Ahead, Pcs, AppendPcs
  <2>2. CASE Handler(t, "idle") /\ silent' = (silent \/ octets' # octets)
    <3>1. stale' = (stale \/ octets' # octets) /\ happened' = happened
      BY <1>4, <2>2 DEF Spawn, Handler, Begin
    <3>2. Regular' /\ stale' => Regular /\ stale
      BY <2>2, <3>1 DEF Regular
    <3> QED BY <2>2, <3>2, SerialBegin DEF Handler
  <2> QED BY <1>4, <2>1, <2>2 DEF Spawn
<1>5. ASSUME NEW t \in Threads, Release(t) \/ Reconcile(t) PROVE SerialInv'
  <2>1. PICK l \in {"free", "prune"} : Handler(t, l)
    BY <1>5 DEF Release, Reconcile
  <2>2. Regular' /\ stale' => Regular /\ stale
    BY <1>5 DEF Release, Reconcile, Handler, Begin, Regular
  <2> QED BY <2>1, <2>2, SerialBegin DEF Handler
<1>6. SUFFICES ASSUME ~ (\E t \in Threads : \/ EnsurePeer(t) \/ RemovePeer(t) \/ Spawn(t)
                                            \/ Release(t) \/ Reconcile(t)),
                      ~ overlapped'
               PROVE  SerialInv'
  BY <1>3, <1>4, <1>5 DEF SerialInv
<1>7. ASSUME NEW t \in Threads, FreeOctet(t) PROVE SerialInv'
  <2>1. /\ pc' = pc /\ loc' = loc /\ ~ overlapped /\ pc[t] \in {"free", "prune"}
        /\ pc[t] = "prune" => silent'
    BY <1>6, <1>7 DEF FreeOctet
  <2>2. \A q \in Threads \ {t} : pc[q] = "idle"
    BY <1>1, <2>1 DEF OneAtWork
  <2>3. OneAtWork' /\ \A q \in Threads : HasRead(q)'
    BY <1>1, <2>1, <2>2 DEF OneAtWork, HasRead, Reads, AppendPcs
  <2>4. Regular' => pc'[t] \in Ahead
    BY <2>1 DEF Regular, Ahead, Pcs, AppendPcs
  <2> QED
    BY <2>3, <2>4 DEF SerialInv, OneAtWork, HasRead, Regular, Ahead, Reads
<1>8. ASSUME NEW t \in Threads, EndFree(t) PROVE SerialInv'
  <2>1. /\ UNCHANGED <<tables, overlapped, stale, silent, happened>> /\ ~ overlapped
        /\ pc[t] \in {"free", "prune"}
    BY <1>6, <1>8 DEF EndFree, Step
  <2>2. pc[t] = "prune" => ~ (Regular /\ stale)
    BY <1>1, <2>1 DEF OneAtWork, Ahead
  <2>3. CASE Goto(t, "peers", loc[t])
    BY <2>1, <2>3, SerialStep DEF Ahead, Pcs, Reads, AppendPcs
  <2>4. CASE pc[t] = "prune" /\ Goto(t, "idle", NoLoc)
    <3>1. Regular' /\ stale' => "idle" \in Ahead
      BY <2>1, <2>2, <2>4 DEF Regular
    <3> QED BY <2>1, <2>4, <3>1, SerialStep DEF Reads, AppendPcs
  <2> QED BY <1>8, <2>3, <2>4 DEF EndFree, Step, Return
<1>9. ASSUME NEW t \in Threads, ReadPeers(t) PROVE SerialInv'
  <2> DEFINE m == [loc[t] EXCEPT !.peers = peers]
  <2>1. m.peers = peers
    BY <1>2 DEF LocType
  <2> HIDE DEF m
  <2>2. Goto(t, "octets", m) /\ pc[t] = "peers" /\ UNCHANGED <<tables, overlapped>> /\ ~ overlapped
    BY <1>6, <1>9 DEF ReadPeers, m
  <2> QED BY <2>1, <2>2, SerialStep DEF Ahead, Pcs, Reads, AppendPcs
<1>10. ASSUME NEW t \in Threads, ReadOctets(t) PROVE SerialInv'
  <2> DEFINE m == [loc[t] EXCEPT !.octets = octets]
  <2>1. m.octets = octets /\ m.peers = loc[t].peers
    BY <1>2 DEF LocType
  <2> HIDE DEF m
  <2>2. Goto(t, "start", m) /\ pc[t] = "octets" /\ UNCHANGED <<tables, overlapped>> /\ ~ overlapped
    BY <1>6, <1>10 DEF ReadOctets, m
  <2>3. loc[t].peers = peers
    BY <1>1, <2>2 DEF HasRead
  <2> QED BY <2>1, <2>2, <2>3, SerialStep DEF Ahead, Pcs, AppendPcs
<1>11. ASSUME NEW t \in Threads, NEW l \in {"unhook", "delete", "hook", "flush"}, NEW m,
              pc[t] \in {"start", "unhook", "delete", "hook"}, Goto(t, l, m),
              m.peers = loc[t].peers, m.octets = loc[t].octets, UNCHANGED <<tables, overlapped>>
       PROVE  SerialInv'
  <2>1. pc[t] \in Reads /\ pc[t] # "idle" /\ ~ overlapped
    BY <1>6, <1>11 DEF Reads
  <2>2. loc[t].peers = peers /\ loc[t].octets = octets
    BY <1>1, <2>1 DEF HasRead, Current
  <2> QED BY <1>11, <2>1, <2>2, SerialStep DEF Ahead, Pcs, AppendPcs
<1>12. ASSUME NEW t \in Threads, pc[t] # "idle", Return(t), UNCHANGED <<tables, overlapped>>,
              ~ Regular' \/ (pc[t] \in {"append", "clear"} /\ UNCHANGED <<silent, happened, stale>>)
       PROVE  SerialInv'
  <2>1. ~ overlapped
    BY <1>6, <1>12
  <2>2. ~ (Regular' /\ stale')
    BY <1>1, <1>12, <2>1 DEF OneAtWork, Ahead, Regular, AppendPcs
  <2> QED BY <1>12, <2>1, <2>2, SerialStep DEF Return, Reads, AppendPcs
<1>13. ASSUME NEW t \in Threads, NEW k \in {"start", "hook", "flush", "rule"}, Fault(k)
       PROVE  ~ Regular'
  BY <1>13 DEF Fault, Regular
<1>14. ASSUME NEW t \in Threads, Start(t) \/ Hook(t) PROVE SerialInv'
  <2>1. CASE Step(t, "start", "unhook") \/ Step(t, "hook", "flush")
    <3>1. /\ pc[t] \in {"start", "hook"} /\ loc[t] = loc[t]
          /\ Goto(t, "unhook", loc[t]) \/ Goto(t, "flush", loc[t])
      BY <2>1 DEF Step
    <3> QED BY <1>11, <1>14, <3>1 DEF Start, Hook
  <2>2. CASE pc[t] # "idle" /\ Return(t) /\ ~ Regular'
    BY <1>12, <1>14, <2>2 DEF Start, Hook
  <2> QED BY <1>13, <1>14, <2>1, <2>2 DEF Start, Hook
<1>19. ASSUME NEW t \in Threads, Unhook(t) \/ Delete(t) PROVE SerialInv'
  <2>1. PICK l \in {"unhook", "delete", "hook"} : \E n :
           Goto(t, l, loc[t]) \/ Goto(t, l, [loc[t] EXCEPT !.guard = n])
    BY <1>19 DEF Unhook, Delete
  <2>2. PICK n : Goto(t, l, loc[t]) \/ Goto(t, l, [loc[t] EXCEPT !.guard = n])
    BY <2>1
  <2>3. pc[t] \in {"unhook", "delete"} /\ UNCHANGED <<tables, overlapped>>
    BY <1>19 DEF Unhook, Delete
  <2>4. CASE Goto(t, l, loc[t])
    BY <1>11, <2>3, <2>4
  <2>5. CASE Goto(t, l, [loc[t] EXCEPT !.guard = n])
    <3> DEFINE m == [loc[t] EXCEPT !.guard = n]
    <3>1. m.peers = loc[t].peers /\ m.octets = loc[t].octets
      BY <1>2, OtherFields
    <3>2. Goto(t, l, m)
      BY <2>5
    <3> HIDE DEF m
    <3> QED BY <1>11, <2>3, <3>1, <3>2
  <2> QED BY <2>2, <2>4, <2>5
<1>15. ASSUME NEW t \in Threads, Flush(t) PROVE SerialInv'
  <2> DEFINE rules == BuildRules(loc[t].peers, loc[t].octets)
             m == [loc[t] EXCEPT !.todo = rules]
  <2>1. m.peers = loc[t].peers /\ m.octets = loc[t].octets
    BY <1>2 DEF LocType
  <2> HIDE DEF m, rules
  <2>2. pc[t] = "flush" /\ UNCHANGED <<tables, overlapped>> /\ ~ overlapped
    BY <1>6, <1>15 DEF Flush
  <2>3. Current(t)
    BY <1>1, <2>2 DEF HasRead, Reads
  <2>4. CASE Goto(t, "append", m) /\ stale' = ~ Current(t)
    BY <2>1, <2>2, <2>3, <2>4, SerialStep DEF Current
  <2>5. CASE Return(t) /\ ~ Regular'
    BY <1>12, <2>2, <2>5
  <2> QED BY <1>13, <1>15, <2>4, <2>5 DEF Flush, m, rules
<1>16. ASSUME NEW t \in Threads, CheckRule(t) \/ AppendRule(t) PROVE SerialInv'
  <2> DEFINE m == [loc[t] EXCEPT !.todo = Tail(@)]
  <2>1. m.peers = loc[t].peers /\ m.octets = loc[t].octets
    BY <1>2 DEF LocType
  <2> HIDE DEF m
  <2>2. /\ pc[t] \in AppendPcs /\ pc[t] # "idle" /\ UNCHANGED <<tables, overlapped, silent>>
        /\ ~ overlapped
    BY <1>6, <1>16 DEF CheckRule, AppendRule, AppendPcs
  <2>3. Current(t) /\ ~ (Regular /\ stale)
    BY <1>1, <2>2 DEF HasRead, Reads, OneAtWork, Ahead
  <2>4. CASE /\ Goto(t, "append", m) \/ Goto(t, "add", loc[t])
             /\ happened' = happened /\ stale' = stale
    <3>1. ~ (Regular' /\ stale')
      BY <2>2, <2>3, <2>4 DEF Regular
    <3> QED BY <2>1, <2>2, <2>3, <2>4, <3>1, SerialStep DEF Current
  <2>5. CASE Goto(t, "clear", NoLoc) /\ ~ Regular'
    BY <2>2, <2>5, SerialStep DEF Reads, AppendPcs
  <2>6. CASE CheckRule(t)
    BY <2>4, <2>6 DEF CheckRule, m
  <2>7. CASE AppendRule(t)
    <3>1. CASE Fault("rule") /\ Goto(t, "clear", NoLoc)
      <4>1. ~ Regular'
        BY <1>13, <3>1
      <4> QED BY <2>5, <3>1, <4>1
    <3>2. CASE Goto(t, "append", m) /\ NoFault /\ stale' = (stale \/ ~ Current(t))
      <4>1. happened' = happened /\ stale' = stale
        BY <2>3, <3>2 DEF NoFault, Types
      <4> QED BY <2>4, <3>2, <4>1
    <3> QED BY <2>7, <3>1, <3>2 DEF AppendRule, m
  <2> QED BY <1>16, <2>6, <2>7
<1>20. ASSUME NEW t \in Threads, Clear(t) PROVE SerialInv'
  <2>1. "rule" \in happened /\ happened' = happened
    BY <1>20 DEF Clear, LocalInv
  <2> QED BY <1>12, <1>20, <2>1 DEF Clear, Regular
<1>21. ASSUME NEW t \in Threads, Rollback(t) PROVE SerialInv'
  <2>1. /\ pc[t] = "rollback" /\ silent' /\ Goto(t, "idle", NoLoc) /\ ~ overlapped
    BY <1>6, <1>21 DEF Rollback, Return
  <2>2. /\ pc'[t] = "idle" /\ \A q \in Threads \ {t} : pc'[q] = pc[q]
    BY <2>1, GotoOne
  <2>3. \A q \in Threads : pc'[q] = "idle"
    BY <1>1, <2>1, <2>2 DEF OneAtWork
  <2>4. OneAtWork' /\ \A q \in Threads : HasRead(q)'
    BY <2>3 DEF OneAtWork, HasRead, Reads, AppendPcs
  <2> QED
    BY <2>1, <2>4 DEF SerialInv, OneAtWork, HasRead, Regular, Ahead, Reads
<1>17. ASSUME NEW t \in Threads, EndRebuild(t) PROVE SerialInv'
  BY <1>12, <1>17 DEF EndRebuild, Return
<1>18. CASE Crash \/ Reboot
  <2>1. PICK t \in Threads : pc' = [q \in Threads |-> IF q = t THEN "peers" ELSE "idle"]
    BY <1>18 DEF Crash, Reboot, Restart
  <2>2. /\ OneAtWork' /\ pc'[t] \in Ahead
        /\ \A q \in Threads : HasRead(q)'
    BY <2>1 DEF OneAtWork, HasRead, Ahead, Pcs, Reads, AppendPcs
  <2> QED
    BY <2>2 DEF SerialInv, OneAtWork, HasRead, Regular, Ahead, Reads
<1> QED
  BY <1>6, <1>7, <1>8, <1>9, <1>10, <1>14, <1>15, <1>16, <1>17, <1>18, <1>19, <1>20, <1>21
     DEF Next, Rebuild

-----------------------------------------------------------------------------
\* Theorems.

LEMMA Initial ==
  ASSUME Init
  PROVE  IInv
<1>1. PICK t \in Threads : pc = [q \in Threads |-> IF q = t THEN "peers" ELSE "idle"]
  BY DEF Init
<1>2. /\ Hooking = {} /\ jumps = 0 /\ stale
      /\ \A q \in Threads : pc[q] \in {"idle", "peers"} /\ loc[q] = NoLoc
  BY <1>1 DEF Init, Hooking
<1>3. Cardinality(Threads) \in Nat /\ Cardinality(Hooking) = 0
  BY <1>2, FirewallAssumption, FS_CardinalityType, FS_EmptySet
<1>4. TypeOK
  <2>1. pc \in [Threads -> Pcs] /\ loc \in [Threads -> LocType]
    BY <1>1, NoLocType DEF Init, Pcs
  <2>2. chain \in Seq(RuleType) /\ jumps \in 0..Cardinality(Threads) /\ calls \in 0..MaxCalls
    BY <1>3, FirewallAssumption DEF Init
  <2> QED BY <2>1, <2>2 DEF Init, TypeOK
<1>5. RulesInv
  BY <1>2, NoLocType DEF RulesInv, NoLoc, AppendPcs
<1>6. JumpsInv
  BY <1>1, <1>2, <1>3 DEF JumpsInv, Hooking, BeforeHook
<1>7. SerialInv
  BY <1>1, <1>2 DEF SerialInv, Pcs, AppendPcs
<1>8. LocalInv
  BY <1>2 DEF LocalInv, NoLoc
<1> QED BY <1>4, <1>5, <1>6, <1>7, <1>8 DEF IInv

LEMMA Inductive ==
  ASSUME IInv, [Next]_vars
  PROVE  IInv'
<1>1. Types /\ LocalInv /\ RulesInv /\ JumpsInv /\ SerialInv
  BY TypeOKTypes DEF IInv
<1>2. CASE Next
  <2>1. Types'
    BY <1>1, <1>2, StepTypes
  <2>2. LocalInv' /\ JumpsInv' /\ RulesInv' /\ SerialInv'
    BY <1>1, <1>2, <2>1, StepLocal, StepJumps, StepRules, StepSerial
  <2>3. jumps' \in 0..Cardinality(Threads)
    <3>1. Cardinality(Hooking') \in Nat /\ Cardinality(Threads) \in Nat
      BY FirewallAssumption, FS_Subset, FS_CardinalityType DEF Hooking
    <3>2. jumps' \in Nat /\ jumps' + Cardinality(Hooking') <= Cardinality(Threads)
      BY <2>1, <2>2 DEF JumpsInv, Hooking, Types
    <3> QED BY <3>1, <3>2
  <2> QED BY <2>1, <2>2, <2>3 DEF IInv, TypeOK, Types, PeerTable, OctetTable
<1>3. CASE UNCHANGED vars
  <2>1. TypeOK' <=> TypeOK
    BY <1>3 DEF vars, tables, TypeOK
  <2>2. Pending' = Pending
    BY <1>3 DEF vars, tables, Pending, Current
  <2>3. RulesInv' <=> RulesInv
    BY <1>3, <2>2 DEF vars, tables, RulesInv
  <2>4. JumpsInv' <=> JumpsInv
    BY <1>3 DEF vars, JumpsInv, Hooking
  <2>5. SerialInv' <=> SerialInv
    BY <1>3 DEF vars, tables, SerialInv, Current
  <2>6. LocalInv' <=> LocalInv
    BY <1>3 DEF vars, LocalInv
  <2> QED BY <2>1, <2>3, <2>4, <2>5, <2>6 DEF IInv
<1> QED BY <1>2, <1>3

\* The chain's rules, the jumps, and what one thread at work has read, in all
\* behaviours of the handlers and of _rebuild_firewall.
THEOREM InductiveInvariant == Spec => []IInv
  BY Initial, Inductive, PTL DEF Spec

\* Types; and however often rebuilds overlap, the hook has at most one jump for
\* each thread, although a rebuild adds one and removes at most five.
THEOREM TypeCorrect == Spec => []TypeOK
<1>1. IInv => TypeOK
  BY DEF IInv
<1> QED BY <1>1, InductiveInvariant, PTL

\* Which packets pass, after rebuilds that read the tables as they are, depends
\* on the tables alone, whatever the order in which their commands came.
THEOREM ChainDecides == Spec => []ChainAgrees
<1>1. IInv => ChainAgrees
  <2>1. SUFFICES ASSUME IInv, Quiet, ~ stale, NEW a \in Addrs, NEW b \in Addrs
                 PROVE  Verdict(a, b) = TableRule(a, b)
    BY DEF ChainAgrees
  <2>2. Pending = {}
    BY <2>1 DEF Quiet, Pending, AppendPcs
  <2>3. ToSet(chain) = RulesOf(peers, octets)
    BY <2>1, <2>2 DEF IInv, RulesInv
  <2>4. peers \in PeerTable /\ octets \in OctetTable /\ chain \in Seq(RuleType)
    BY <2>1, TypeOKTypes DEF IInv, Types
  <2> QED BY <2>1, <2>3, <2>4, Decides
<1> QED BY <1>1, InductiveInvariant, PTL

\* A packet of a peer to the subnet of another owner is left to the host's own
\* rules, whatever the tables hold: BuildRules (network.py:254-281) has no rule for
\* it, where the header of network.py (11-14) says the server drops it.
THEOREM ForeignUndecided == Spec => []ForeignOpen
<1>1. ChainAgrees => ForeignOpen
  <2>1. SUFFICES ASSUME ChainAgrees, Quiet, ~ stale, NEW i \in Ips, NEW n \in Octets, ~ Own(i, n)
                 PROVE  Verdict(i, n) = "NONE"
    BY DEF ForeignOpen
  <2>2. i \in Addrs /\ n \in Addrs /\ Verdict(i, n) = TableRule(i, n)
    BY <2>1 DEF ChainAgrees, Addrs
  <2>3. i \notin Octets /\ n \notin Ips /\ n # Inet
    BY FirewallAssumption
  <2> QED BY <2>1, <2>2, <2>3 DEF TableRule
<1> QED BY <1>1, ChainDecides, PTL

\* One handler after the other leaves no stale chain, deaths and restarts of the
\* daemon included.
THEOREM NeverStale == Spec => []NoDrift
<1>1. IInv => NoDrift
  BY SerialParts DEF IInv, NoDrift, Quiet, Regular, Ahead
<1> QED BY <1>1, InductiveInvariant, PTL

\* Rebuilds that unhook each other's jumps leave the chain hooked.
THEOREM StaysHooked == Spec => []Hooked
<1>1. IInv => Hooked
  BY DEF IInv, JumpsInv, Hooked, Quiet, BeforeHook
<1> QED BY <1>1, InductiveInvariant, PTL

=============================================================================
