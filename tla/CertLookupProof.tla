--------------------------- MODULE CertLookupProof ---------------------------
(* Theorems about CertLookup, for lists of every length, every order of    *)
(* the ids, every key and every identifier.                                *)
EXTENDS CertLookup, TLAPS

AccessibleOf(m) == {cc \in {certs[j] : j \in 1..m} : checkCertAccess(key, cc)}

(* The first loop keeps what the caller may access of what it has passed,  *)
(* and leaves that to the second.                                          *)
FilteredOK ==
  /\ pc \in {"idle", "filter"} => bestMatch = 0 /\ ~bestMatchIsPrimary
  /\ pc = "idle" => filtered = <<>> /\ n = 1
  /\ pc = "filter" => Elements(filtered) = AccessibleOf(n - 1)
  /\ pc \in {"find", "answered"} => Elements(filtered) = Accessible

(* What the second loop knows of the elements before m.                    *)
NoneIsExact(m) == \A j \in 1..m : filtered[j].id # identifier

NothingYet(m) ==
  /\ ~bestMatchIsPrimary
  /\ \A j \in 1..m : /\ filtered[j].primary # identifier
                     /\ ~Covers(filtered[j], identifier)

BestIsPrimary(m) ==
  /\ filtered[bestMatch].primary = identifier
  /\ \A j \in 1..m :
       filtered[j].primary = identifier
         => Rank[filtered[j].id] <= Rank[filtered[bestMatch].id]

BestCovers(m) ==
  /\ Covers(filtered[bestMatch], identifier)
  /\ \A j \in 1..m :
       /\ filtered[j].primary # identifier
       /\ Covers(filtered[j], identifier)
            => Rank[filtered[j].id] <= Rank[filtered[bestMatch].id]

BestOf(m) ==
  /\ NoneIsExact(m)
  /\ bestMatch \in 0..m
  /\ bestMatch = 0 => NothingYet(m)
  /\ bestMatch # 0 => IF bestMatchIsPrimary THEN BestIsPrimary(m) ELSE BestCovers(m)

LoopInv ==
  /\ TypeOK
  /\ FilteredOK
  /\ pc = "find" => BestOf(n - 1)
  /\ RightCertificate

-----------------------------------------------------------------------------
LEMMA ElementsAppend ==
  ASSUME NEW S, NEW s \in Seq(S), NEW x \in S
  PROVE  Elements(Append(s, x)) = Elements(s) \cup {x}
<1>1. /\ Len(Append(s, x)) = Len(s) + 1
      /\ \A j \in 1..Len(s) : Append(s, x)[j] = s[j]
      /\ Append(s, x)[Len(s) + 1] = x
      /\ Len(s) \in Nat
  OBVIOUS
<1>2. Elements(s) \cup {x} \subseteq Elements(Append(s, x))
  BY <1>1 DEF Elements
<1>3. Elements(Append(s, x)) \subseteq Elements(s) \cup {x}
  <2> SUFFICES ASSUME NEW j \in 1..(Len(s) + 1)
               PROVE  Append(s, x)[j] \in Elements(s) \cup {x}
    BY <1>1 DEF Elements
  <2> QED
    BY <1>1 DEF Elements
<1> QED
  BY <1>2, <1>3

LEMMA LoopInit == Init => LoopInv
<1> SUFFICES ASSUME Init PROVE LoopInv
  OBVIOUS
<1> USE DEF Init
<1>1. Len(filtered) = 0 /\ filtered \in Seq(CertConfig) /\ certs \in Seq(CertConfig)
  OBVIOUS
<1>2. TypeOK
  <2>1. n \in 1..Len(IF pc = "filter" THEN certs ELSE filtered) + 1
    BY <1>1
  <2>2. bestMatch \in 0..Len(filtered)
    BY <1>1
  <2> QED
    BY <1>1, <2>1, <2>2 DEF TypeOK
<1>3. FilteredOK /\ RightCertificate /\ pc # "find"
  BY DEF FilteredOK, RightCertificate
<1> QED
  BY <1>2, <1>3 DEF LoopInv

LEMMA FilterStep == LoopInv /\ Filter => LoopInv'
<1> SUFFICES ASSUME LoopInv, Filter PROVE LoopInv'
  OBVIOUS
<1> USE DEF LoopInv, TypeOK, Filter, request, match
<1>0. n \in 1..Len(certs) /\ certs[n] \in CertConfig /\ n' = n + 1 /\ certs' = certs
  OBVIOUS
<1>1. filtered' \in Seq(CertConfig) /\ bestMatch' = 0
  BY <1>0 DEF FilteredOK
<1>2. TypeOK'
  BY <1>0, <1>1
<1>3. Elements(filtered') = AccessibleOf(n)
  <2>1. {certs[j] : j \in 1..n} = {certs[j] : j \in 1..(n - 1)} \cup {certs[n]}
    BY <1>0
  <2>2. CASE checkCertAccess(key, certs[n])
    <3>1. Elements(filtered') = Elements(filtered) \cup {certs[n]}
      BY <1>0, <2>2, ElementsAppend
    <3> QED
      BY <2>1, <2>2, <3>1 DEF FilteredOK, AccessibleOf
  <2>3. CASE ~checkCertAccess(key, certs[n])
    BY <2>1, <2>3 DEF FilteredOK, AccessibleOf
  <2> QED
    BY <2>2, <2>3
<1>4. FilteredOK'
  BY <1>0, <1>3 DEF FilteredOK, AccessibleOf
<1> QED
  BY <1>2, <1>4 DEF RightCertificate

LEMMA EndFilterStep == LoopInv /\ EndFilter => LoopInv'
<1> SUFFICES ASSUME LoopInv, EndFilter PROVE LoopInv'
  OBVIOUS
<1> USE DEF LoopInv, TypeOK, EndFilter, request, match, FirstIndex
<1>1. n = Len(certs) + 1 /\ n' = 1 /\ UNCHANGED <<certs, key, filtered, bestMatch>>
  OBVIOUS
<1>2. FilteredOK'
  BY <1>1 DEF FilteredOK, AccessibleOf, Accessible, Elements
<1>3. BestOf(0)'
  BY DEF BestOf, NoneIsExact, NothingYet, FilteredOK
<1> QED
  BY <1>1, <1>2, <1>3 DEF RightCertificate

LEMMA ScanFacts ==
  ASSUME LoopInv, Scanning
  PROVE  /\ n \in 1..Len(filtered) /\ Len(filtered) \in Nat
         /\ BestOf(n - 1)
         /\ \A j \in 1..Len(filtered) : Rank[filtered[j].id] \in Nat
<1> USE DEF LoopInv, TypeOK, Scanning
<1>1. n \in 1..Len(filtered) /\ Len(filtered) \in Nat
  OBVIOUS
<1>2. \A j \in 1..Len(filtered) : filtered[j] \in CertConfig
  OBVIOUS
<1>3. \A cc \in CertConfig : Rank[cc.id] \in Nat
  BY NamesAssumption DEF CertConfig
<1> QED
  BY <1>1, <1>2, <1>3

(* An exact match ends the loop, whatever a primary domain or a SAN says.  *)
LEMMA ExactMatchStep == LoopInv /\ ExactMatch => LoopInv'
<1> SUFFICES ASSUME LoopInv, ExactMatch PROVE LoopInv'
  OBVIOUS
<1>1. /\ bestMatch' = n /\ n' = n /\ pc = "find" /\ pc' = "answered"
      /\ certs' = certs /\ key' = key /\ identifier' = identifier
      /\ filtered' = filtered /\ filtered[n].id = identifier
      /\ Scanning /\ bestMatchIsPrimary' = bestMatchIsPrimary
  BY DEF ExactMatch, Scanning, request
<1>2. n \in 1..Len(filtered) /\ Len(filtered) \in Nat
  BY <1>1, ScanFacts
<1>3. Elements(filtered) = Accessible
  BY <1>1 DEF LoopInv, FilteredOK
<1>4. Accessible' = Accessible /\ Elements(filtered)' = Elements(filtered)
  BY <1>1 DEF Accessible, Elements
<1>5. TypeOK' /\ FilteredOK'
  BY <1>1, <1>2, <1>3, <1>4 DEF LoopInv, TypeOK, FilteredOK
<1>6. filtered[n] \in ById
  BY <1>1, <1>2, <1>3 DEF ById, Elements
<1>7. Denoted' = ById
  BY <1>1, <1>4, <1>6 DEF Denoted, ById
<1>8. DistinctIds' => ById = {filtered[n]}
  BY <1>1, <1>6 DEF DistinctIds, ById, Accessible, Elements
<1>9. RightCertificate'
  <2>1. bestMatch' # 0 /\ filtered'[bestMatch'] = filtered[n]
    BY <1>1, <1>2
  <2> QED
    BY <2>1, <1>6, <1>7, <1>8 DEF RightCertificate
<1> QED
  BY <1>1, <1>5, <1>9 DEF LoopInv

(* A turn that goes on leaves everything but the match.                    *)
LEMMA TurnStep ==
  ASSUME LoopInv, Scanning,
         pc' = pc, n' = n + 1, UNCHANGED <<request, filtered>>,
         bestMatch' \in {bestMatch, n}, bestMatchIsPrimary' \in BOOLEAN,
         BestOf(n - 1)'
  PROVE  LoopInv'
<1>1. TypeOK'
  BY DEF LoopInv, TypeOK, Scanning, request
<1>2. FilteredOK'
  BY DEF LoopInv, FilteredOK, Scanning, request, Elements, Accessible
<1> QED
  BY <1>1, <1>2 DEF LoopInv, RightCertificate, Scanning

LEMMA PrimaryMatchStep == LoopInv /\ PrimaryMatch => LoopInv'
<1> SUFFICES ASSUME LoopInv, PrimaryMatch PROVE LoopInv'
  OBVIOUS
<1>1. /\ Scanning /\ n' = n + 1 /\ pc' = pc
      /\ UNCHANGED <<request, filtered>> /\ identifier' = identifier
      /\ filtered[n].primary = identifier /\ filtered[n].id # identifier
  BY DEF PrimaryMatch, request
<1>2. /\ n \in 1..Len(filtered) /\ Len(filtered) \in Nat
      /\ BestOf(n - 1)
      /\ \A j \in 1..Len(filtered) : Rank[filtered[j].id] \in Nat
  BY <1>1, ScanFacts
<1>3. NoneIsExact(n - 1)'
  BY <1>1, <1>2 DEF BestOf, NoneIsExact
<1>4. CASE Supersedes(filtered[n])
  <2>1. bestMatch' = n /\ bestMatchIsPrimary' = TRUE
    BY <1>4 DEF PrimaryMatch
  <2>2. ASSUME NEW j \in 1..(n - 1), filtered[j].primary = identifier
        PROVE  Rank[filtered[j].id] <= Rank[filtered[n].id]
    <3>1. bestMatch \in 1..(n - 1) /\ bestMatchIsPrimary
      BY <1>2, <2>2 DEF BestOf, NothingYet, BestCovers
    <3>2. Rank[filtered[j].id] <= Rank[filtered[bestMatch].id]
      BY <1>2, <2>2, <3>1 DEF BestOf, BestIsPrimary
    <3>3. Rank[filtered[n].id] > Rank[filtered[bestMatch].id]
      BY <1>2, <1>4, <3>1 DEF Supersedes, Newer
    <3>4. j \in 1..Len(filtered) /\ bestMatch \in 1..Len(filtered)
      BY <1>2, <3>1
    <3> QED
      BY <1>2, <3>2, <3>3, <3>4
  <2>3. BestIsPrimary(n - 1)'
    BY <1>1, <1>2, <2>1, <2>2 DEF BestIsPrimary
  <2>4. BestOf(n - 1)'
    BY <1>1, <1>2, <1>3, <2>1, <2>3 DEF BestOf
  <2> QED
    BY <1>1, <2>1, <2>4, TurnStep
<1>5. CASE ~Supersedes(filtered[n])
  <2>1. UNCHANGED match
    BY <1>5 DEF PrimaryMatch
  <2>2. bestMatch \in 1..(n - 1) /\ bestMatchIsPrimary
    BY <1>2, <1>5 DEF Supersedes, BestOf
  <2>3. Rank[filtered[n].id] <= Rank[filtered[bestMatch].id]
    BY <1>2, <1>5, <2>2 DEF Supersedes, Newer
  <2>4. BestIsPrimary(n - 1)
    BY <1>2, <2>2 DEF BestOf
  <2>5. BestIsPrimary(n - 1)'
    BY <1>1, <1>2, <2>1, <2>3, <2>4 DEF BestIsPrimary, match
  <2>6. BestOf(n - 1)'
    BY <1>1, <1>2, <1>3, <2>1, <2>2, <2>5 DEF BestOf, match
  <2>7. bestMatch' = bestMatch /\ bestMatchIsPrimary' \in BOOLEAN
    BY <2>1 DEF match, LoopInv, TypeOK
  <2> QED
    BY <1>1, <2>6, <2>7, TurnStep
<1> QED
  BY <1>4, <1>5

LEMMA SanMatchStep == LoopInv /\ SanMatch => LoopInv'
<1> SUFFICES ASSUME LoopInv, SanMatch PROVE LoopInv'
  OBVIOUS
<1> DEFINE C(j) == Covers(filtered[j], identifier)
           Taken == ~bestMatchIsPrimary /\ C(n)
                      /\ (bestMatch = 0 \/ Newer(filtered[n]))
<1>1. /\ Scanning /\ n' = n + 1 /\ pc' = pc
      /\ UNCHANGED <<request, filtered>> /\ identifier' = identifier
      /\ filtered' = filtered
      /\ filtered[n].primary # identifier /\ filtered[n].id # identifier
      /\ bestMatchIsPrimary' = bestMatchIsPrimary
      /\ bestMatch' = IF Taken THEN n ELSE bestMatch
  BY DEF SanMatch, request
<1>2. /\ n \in 1..Len(filtered) /\ Len(filtered) \in Nat
      /\ BestOf(n - 1)
      /\ \A j \in 1..Len(filtered) : Rank[filtered[j].id] \in Nat
  BY <1>1, ScanFacts
<1>3. NoneIsExact(n - 1)'
  BY <1>1, <1>2 DEF BestOf, NoneIsExact
<1>4. \A j : Covers(filtered[j], identifier)' <=> C(j)
  BY <1>1 DEF Covers
<1>5. bestMatchIsPrimary' \in BOOLEAN
  BY <1>1 DEF LoopInv, TypeOK
<1>6. BestOf(n - 1)'
  <2>1. CASE Taken
    <3>1. bestMatch' = n /\ ~bestMatchIsPrimary' /\ C(n)
      BY <1>1, <2>1
    <3>2. ASSUME NEW j \in 1..(n - 1)
          PROVE  /\ filtered[j].primary # identifier
                 /\ C(j) => Rank[filtered[j].id] <= Rank[filtered[n].id]
      <4>1. CASE bestMatch = 0
        BY <1>2, <4>1 DEF BestOf, NothingYet
      <4>2. CASE bestMatch # 0
        <5>1. bestMatch \in 1..(n - 1) /\ BestCovers(n - 1)
          BY <1>2, <2>1, <4>2 DEF BestOf
        <5>2. Rank[filtered[n].id] > Rank[filtered[bestMatch].id]
          BY <2>1, <4>2 DEF Newer
        <5>3. j \in 1..Len(filtered) /\ bestMatch \in 1..Len(filtered)
          BY <1>2, <5>1
        <5> QED
          BY <1>2, <5>1, <5>2, <5>3 DEF BestCovers
      <4> QED
        BY <4>1, <4>2
    <3>3. BestCovers(n - 1)'
      BY <1>1, <1>2, <1>4, <3>1, <3>2 DEF BestCovers
    <3> QED
      BY <1>1, <1>2, <1>3, <3>1, <3>3 DEF BestOf
  <2>2. CASE ~Taken /\ bestMatch = 0
    <3>1. NothingYet(n - 1) /\ ~C(n)
      BY <1>2, <2>2 DEF BestOf, NothingYet
    <3>2. NothingYet(n - 1)'
      BY <1>1, <1>2, <1>4, <3>1 DEF NothingYet
    <3> QED
      BY <1>1, <1>2, <1>3, <2>2, <3>2 DEF BestOf
  <2>3. CASE ~Taken /\ bestMatch # 0 /\ bestMatchIsPrimary
    <3>1. BestIsPrimary(n - 1) /\ bestMatch' = bestMatch
      BY <1>1, <1>2, <2>3 DEF BestOf
    <3>2. /\ n' = n + 1 /\ filtered' = filtered /\ identifier' = identifier
          /\ filtered[n].primary # identifier /\ n \in 1..Len(filtered)
          /\ Len(filtered) \in Nat
      BY <1>1, <1>2
    <3>3. \A j \in 1..n : filtered[j].primary = identifier
                            => j \in 1..(n - 1)
      BY <3>2
    <3>4. n' - 1 = n
      BY <3>2
    <3>5. BestIsPrimary(n - 1)'
      BY <3>1, <3>2, <3>3, <3>4 DEF BestIsPrimary
    <3> QED
      BY <1>1, <1>2, <1>3, <2>3, <3>1, <3>5 DEF BestOf
  <2>4. CASE ~Taken /\ bestMatch # 0 /\ ~bestMatchIsPrimary
    <3>1. /\ BestCovers(n - 1) /\ bestMatch' = bestMatch
          /\ bestMatch \in 1..(n - 1)
      BY <1>1, <1>2, <2>4 DEF BestOf
    <3>2. C(n) => Rank[filtered[n].id] <= Rank[filtered[bestMatch].id]
      BY <1>2, <2>4, <3>1 DEF Newer
    <3>3. BestCovers(n - 1)'
      BY <1>1, <1>2, <1>4, <3>1, <3>2 DEF BestCovers
    <3> QED
      BY <1>1, <1>2, <1>3, <2>4, <3>1, <3>3 DEF BestOf
  <2> QED
    BY <2>1, <2>2, <2>3, <2>4
<1> QED
  BY <1>1, <1>5, <1>6, TurnStep

(* Different ids have different ranks, so there is one newest.             *)
LEMMA DenotedUnique ==
  ASSUME LoopInv, ById = {}, DistinctIds, NEW best \in Denoted
  PROVE  Denoted = {best}
<1> SUFFICES ASSUME NEW other \in Denoted PROVE other = best
  OBVIOUS
<1>1. /\ best \in Accessible /\ other \in Accessible
      /\ Rank[best.id] <= Rank[other.id] /\ Rank[other.id] <= Rank[best.id]
  BY DEF Denoted, Newest, ByPrimary, BySan
<1>2. best.id \in Names /\ other.id \in Names
  <2>1. certs \in Seq(CertConfig)
    BY DEF LoopInv, TypeOK
  <2>2. \A cc \in Elements(certs) : cc \in CertConfig
    BY <2>1 DEF Elements
  <2> QED
    BY <1>1, <2>2 DEF Accessible, CertConfig
<1>3. Rank[best.id] = Rank[other.id]
  BY <1>1, <1>2, NamesAssumption
<1>4. best.id = other.id
  BY <1>2, <1>3, NamesAssumption
<1> QED
  BY <1>1, <1>4 DEF DistinctIds, Accessible

(* The end of the second loop: what it has found is what is denoted.       *)
LEMMA EndFindStep == LoopInv /\ EndFind => LoopInv'
<1> SUFFICES ASSUME LoopInv, EndFind PROVE LoopInv'
  OBVIOUS
<1>1. /\ n = Len(filtered) + 1 /\ Len(filtered) \in Nat
      /\ pc = "find" /\ pc' = "answered" /\ filtered \in Seq(CertConfig)
      /\ certs' = certs /\ key' = key /\ identifier' = identifier
      /\ filtered' = filtered /\ n' = n
      /\ bestMatch' = bestMatch /\ bestMatchIsPrimary' = bestMatchIsPrimary
  BY DEF EndFind, request, match, LoopInv, TypeOK
<1>2. BestOf(Len(filtered))
  BY <1>1 DEF LoopInv
<1>3. Accessible = {filtered[j] : j \in 1..Len(filtered)}
  BY <1>1 DEF LoopInv, FilteredOK, Elements
<1>4. Accessible' = Accessible /\ Elements(filtered)' = Elements(filtered)
  BY <1>1 DEF Accessible, Elements
<1>5. TypeOK' /\ FilteredOK'
  BY <1>1, <1>4 DEF LoopInv, TypeOK, FilteredOK
<1>6. ById = {}
  BY <1>2, <1>3 DEF ById, BestOf, NoneIsExact
<1>7. Denoted' = Denoted /\ (DistinctIds' <=> DistinctIds)
  BY <1>1, <1>4 DEF Denoted, ById, ByPrimary, BySan, Newest, Covers, DistinctIds,
     Elements
<1>8. CASE bestMatch = 0
  <2>1. ByPrimary = {} /\ BySan = {}
    BY <1>2, <1>3, <1>8 DEF BestOf, NothingYet, ByPrimary, BySan
  <2>2. Denoted = {}
    BY <1>6, <2>1 DEF Denoted, Newest
  <2> QED
    BY <1>1, <1>5, <1>7, <1>8, <2>2 DEF LoopInv, RightCertificate
<1>9. CASE bestMatch # 0
  <2> DEFINE best == filtered[bestMatch]
  <2>1. /\ bestMatch \in 1..Len(filtered)
        /\ IF bestMatchIsPrimary THEN BestIsPrimary(Len(filtered))
                                 ELSE BestCovers(Len(filtered))
    BY <1>1, <1>2, <1>9 DEF BestOf
  <2>2. best \in Accessible
    BY <1>3, <2>1
  <2>3. best \in Denoted
    <3>1. CASE bestMatchIsPrimary
      <4>1. best \in Newest(ByPrimary)
        BY <1>3, <2>1, <2>2, <3>1 DEF BestIsPrimary, ByPrimary, Newest
      <4> QED
        BY <1>6, <4>1 DEF Denoted, Newest
    <3>2. CASE ~bestMatchIsPrimary
      <4>1. ByPrimary = {}
        BY <1>3, <2>1, <3>2 DEF BestCovers, ByPrimary
      <4>2. best \in Newest(BySan)
        BY <1>3, <2>1, <2>2, <3>2 DEF BestCovers, BySan, Newest
      <4> QED
        BY <1>6, <4>1, <4>2 DEF Denoted
    <3> QED
      BY <3>1, <3>2
  <2>4. DistinctIds => Denoted = {best}
    BY <1>6, <2>3, DenotedUnique
  <2> QED
    BY <1>1, <1>5, <1>7, <1>9, <2>3, <2>4 DEF LoopInv, RightCertificate
<1> QED
  BY <1>8, <1>9

LEMMA LoopStep == LoopInv /\ [Next]_vars => LoopInv'
<1> SUFFICES ASSUME LoopInv, [Next]_vars PROVE LoopInv'
  OBVIOUS
<1>1. CASE Receive
  <2>1. /\ pc = "idle" /\ pc' = "filter" /\ n' = 1 /\ filtered' = <<>>
        /\ key' \in Keys /\ identifier' \in Names /\ certs' \in Seq(CertConfig)
        /\ bestMatch' = 0 /\ bestMatchIsPrimary' = FALSE
    BY <1>1, ListsAssumption DEF Receive, match, LoopInv, FilteredOK, TypeOK
  <2>2. Len(certs') \in Nat /\ Len(filtered') = 0
    BY <2>1
  <2>3. filtered' \in Seq(CertConfig)
    BY <2>1
  <2>a. n' \in 1..Len(IF pc' = "filter" THEN certs' ELSE filtered') + 1
    BY <2>1, <2>2
  <2>b. bestMatch' \in 0..Len(filtered')
    BY <2>1, <2>2
  <2>4. TypeOK'
    BY <2>1, <2>3, <2>a, <2>b, NoneAssumption DEF TypeOK
  <2>5. FilteredOK'
    BY <2>1, <2>2 DEF FilteredOK, Elements, AccessibleOf
  <2> QED
    BY <2>1, <2>4, <2>5 DEF LoopInv, RightCertificate
<1>2. CASE Answer
  <2>1. /\ pc' = "idle" /\ key' = None /\ identifier' = None
        /\ certs' = <<>> /\ filtered' = <<>>
        /\ n' = 1 /\ bestMatch' = 0 /\ bestMatchIsPrimary' = FALSE
    BY <1>2 DEF Answer
  <2>2. Len(filtered') = 0 /\ filtered' \in Seq(CertConfig) /\ certs' \in Seq(CertConfig)
    BY <2>1
  <2>a. n' \in 1..Len(IF pc' = "filter" THEN certs' ELSE filtered') + 1
    BY <2>1, <2>2
  <2>b. bestMatch' \in 0..Len(filtered')
    BY <2>1, <2>2
  <2>3. TypeOK'
    BY <2>1, <2>2, <2>a, <2>b DEF TypeOK
  <2>4. FilteredOK' /\ RightCertificate'
    BY <2>1 DEF FilteredOK, RightCertificate
  <2> QED
    BY <2>1, <2>3, <2>4 DEF LoopInv
<1>3. CASE UNCHANGED vars
  <2>0. UNCHANGED <<pc, key, identifier, certs, n, filtered, bestMatch,
                    bestMatchIsPrimary>>
    BY <1>3 DEF vars
  <2>a. TypeOK'
    BY <2>0 DEF LoopInv, TypeOK
  <2>b. Accessible' = Accessible /\ \A m : AccessibleOf(m)' = AccessibleOf(m)
    BY <2>0 DEF Accessible, AccessibleOf, Elements
  <2>c. Elements(filtered)' = Elements(filtered)
    BY <2>0 DEF Elements
  <2>1. TypeOK' /\ FilteredOK'
    BY <2>0, <2>a, <2>b, <2>c DEF LoopInv, FilteredOK
  <2>2. pc' = "find" => BestOf(n - 1)'
    BY <1>3 DEF vars, LoopInv, BestOf, NoneIsExact, NothingYet, BestIsPrimary,
       BestCovers, Covers
  <2>3. Denoted' = Denoted /\ (DistinctIds' <=> DistinctIds)
    BY <1>3 DEF vars, Denoted, ById, ByPrimary, BySan, Accessible, DistinctIds,
       Newest, Elements, Covers
  <2>4. RightCertificate'
    BY <1>3, <2>3 DEF vars, LoopInv, RightCertificate
  <2> QED
    BY <2>1, <2>2, <2>4 DEF LoopInv
<1> QED
  BY <1>1, <1>2, <1>3, FilterStep, EndFilterStep, ExactMatchStep,
     PrimaryMatchStep, SanMatchStep, EndFindStep DEF Next

-----------------------------------------------------------------------------
(* Every variable of a lookup keeps its type, the index of the match       *)
(* stays within the filtered list.                                         *)
THEOREM TypeCorrect == Spec => []TypeOK
<1>1. LoopInv => TypeOK
  BY DEF LoopInv
<1> QED
  BY <1>1, LoopInit, LoopStep, PTL DEF Spec

(* findCertificateByIdentifier finds what an identifier denotes, for every *)
(* list and whatever its order.                                            *)
THEOREM LookupIsRight == Spec => []RightCertificate
<1>1. LoopInv => RightCertificate
  BY DEF LoopInv
<1> QED
  BY <1>1, LoopInit, LoopStep, PTL DEF Spec
=============================================================================
