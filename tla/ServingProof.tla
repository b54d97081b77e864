---------------------------- MODULE ServingProof ----------------------------
(* Theorems about Serving, for every set of ids, passes, faults and        *)
(* questions.  What the files are like comes from RenewalProof.            *)
EXTENDS Serving, RenewalProof

(* As long as nothing has touched the files, what was seen is what is      *)
(* there.                                                                  *)
SeenIsThere ==
  (stage # "idle" /\ ~disturbed)
    => /\ SavingId(about) = {}
       /\ seen.crt \in {None} \cup Found(crt[about])
       /\ seen.key \in {None, key[about]}

(* Where a reader has got to, it has looked at the files it needs.         *)
LookedAt ==
  /\ stage = "idle" => seen = Blank
  /\ stage = "statKey" => seen.crt # None
  /\ stage = "readCrt" /\ question \in {"raw", "handshake"} => seen.key # None
  /\ stage = "readKey" /\ question # "raw" => seen.crt # None
  /\ stage = "answered" => \/ seen.crt # None /\ seen.key # None
                           \/ /\ question \in {"status", "handshake"}
                              /\ Absent \in {seen.crt, seen.key}

ReaderOK == ServingTypeOK /\ SeenIsThere /\ LookedAt

ServingInv == Typed /\ Paired /\ ReaderOK

-----------------------------------------------------------------------------
LEMMA ReaderInit == ServingInit => ReaderOK
<1> SUFFICES ASSUME ServingInit PROVE ReaderOK
  OBVIOUS
<1> USE DEF ServingInit
<1>1. ServingTypeOK
  BY DEF ServingTypeOK, Blank, Stages
<1>2. SeenIsThere /\ LookedAt
  BY DEF SeenIsThere, LookedAt
<1> QED
  BY <1>1, <1>2 DEF ReaderOK

(* To the scheduler, a step of a reader is a stutter.                      *)
LEMMA SchedulerStep == [ServingNext]_allVars => [Next]_vars
BY DEF ServingNext, allVars, Read, Meanwhile, Next

(* No step of a reader begins or ends a save, so that SavingId stays.      *)
LEMMA LookStep ==
  ASSUME Typed, ReaderOK, LookAtCrt \/ LookAtKey, UNCHANGED vars
  PROVE  ReaderOK'
<1> USE DEF ReaderOK, Typed, TypeOK, ServingTypeOK
<1>0. /\ about \in Ids /\ question \in Questions /\ stage # "idle"
      /\ crt[about] \in Contents \cup {Absent, Torn}
      /\ key[about] \in Keys \cup {Absent, Torn}
  BY DEF LookAtCrt, LookAtKey
<1>1. UNCHANGED <<question, about, disturbed, crt, key>>
  BY DEF LookAtCrt, LookAtKey, vars
<1>2. SavingId(about)' = SavingId(about)
  BY <1>1 DEF vars, SavingId
<1>3. CASE LookAtCrt
  <2>1. PICK f \in Found(crt[about]) :
          /\ seen' = [seen EXCEPT !.crt = f]
          /\ stage' = IF GivesUp(f) THEN "answered" ELSE After(question, stage)
    BY <1>3 DEF LookAtCrt, Found
  <2>2. f \in Contents \cup {Absent, Torn} /\ f # None
    BY <1>0, <2>1, SentinelAssumption, UnseenAssumption DEF Found
  <2>3. seen'.crt = f /\ seen'.key = seen.key
    BY <2>1
  <2>4. stage \in {"statCrt", "readCrt"}
    BY <1>3 DEF LookAtCrt
  <2>5. stage' \in Stages \ {"idle"}
    BY <2>1, <2>4 DEF After, Stages
  <2>6. ServingTypeOK'
    BY <1>0, <1>1, <2>1, <2>2, <2>5
  <2>7. SeenIsThere'
    BY <1>0, <1>1, <1>2, <2>1, <2>3 DEF SeenIsThere, Found
  <2>8. LookedAt'
    BY <1>0, <1>1, <2>1, <2>2, <2>3, <2>4, QuestionsAssumption
       DEF LookedAt, After, GivesUp, QuestionKinds
  <2> QED
    BY <2>6, <2>7, <2>8
<1>4. CASE LookAtKey
  <2> DEFINE f == key[about]
  <2>1. /\ seen' = [seen EXCEPT !.key = f]
        /\ stage' = IF GivesUp(f) THEN "answered" ELSE After(question, stage)
    BY <1>4 DEF LookAtKey
  <2>2. f # None
    BY <1>0, SentinelAssumption, UnseenAssumption
  <2>3. seen'.key = f /\ seen'.crt = seen.crt
    BY <2>1
  <2>4. stage \in {"statKey", "readKey"}
    BY <1>4 DEF LookAtKey
  <2>5. stage' \in Stages \ {"idle"}
    BY <2>1, <2>4 DEF After, Stages
  <2>6. ServingTypeOK'
    BY <1>0, <1>1, <2>1, <2>5
  <2>7. SeenIsThere'
    BY <1>0, <1>1, <1>2, <2>3 DEF SeenIsThere
  <2>8. LookedAt'
    BY <1>0, <1>1, <2>1, <2>2, <2>3, <2>4, QuestionsAssumption
       DEF LookedAt, After, GivesUp, QuestionKinds
  <2> QED
    BY <2>6, <2>7, <2>8
<1> QED
  BY <1>3, <1>4

LEMMA ReaderStep == Typed /\ ReaderOK /\ [ServingNext]_allVars => ReaderOK'
<1> SUFFICES ASSUME Typed, ReaderOK, [ServingNext]_allVars PROVE ReaderOK'
  OBVIOUS
<1> USE DEF ReaderOK, ServingTypeOK
<1>1. CASE Ask /\ UNCHANGED vars
  <2>1. PICK q \in Questions, i \in Ids :
          /\ question' = q /\ about' = i
          /\ stage' = CASE q = "handshake" -> "statCrt"
                        [] q = "raw" -> "readKey"
                        [] OTHER -> "readCrt"
          /\ disturbed' = (SavingId(i) # {})
    BY <1>1 DEF Ask
  <2>2. ~disturbed' => SavingId(i)' = {}
    BY <1>1, <2>1 DEF vars, SavingId
  <2> QED
    BY <1>1, <2>1, <2>2, SentinelAssumption, UnseenAssumption,
       QuestionsAssumption DEF Ask, Stages, Blank, SeenIsThere, LookedAt
<1>2. CASE (LookAtCrt \/ LookAtKey) /\ UNCHANGED vars
  BY <1>2, LookStep
<1>3. CASE Forget
  BY <1>3 DEF Forget, Blank, Stages, SeenIsThere, LookedAt
<1>4. CASE Meanwhile
  <2>1. UNCHANGED <<question, about, stage, seen>> /\ disturbed' \in BOOLEAN
    BY <1>4 DEF Meanwhile
  <2>2. stage # "idle" /\ ~disturbed'
          => /\ ~disturbed /\ SavingId(about)' = {}
             /\ crt'[about] = crt[about] /\ key'[about] = key[about]
    BY <1>4 DEF Meanwhile, Touched
  <2>3. SeenIsThere'
    BY <2>1, <2>2 DEF SeenIsThere, Found
  <2>4. LookedAt'
    BY <2>1 DEF LookedAt
  <2> QED
    BY <2>1, <2>3, <2>4
<1>5. CASE UNCHANGED allVars
  <2>1. SavingId(about)' = SavingId(about)
    BY <1>5 DEF allVars, vars, reader, SavingId
  <2> QED
    BY <1>5, <2>1 DEF allVars, vars, reader, SeenIsThere, LookedAt, Found
<1> QED
  BY <1>1, <1>2, <1>3, <1>4, <1>5 DEF ServingNext, Read, Leave

-----------------------------------------------------------------------------
(* Readers change nothing for the scheduler, whatever they ask and when:   *)
(* what is proved of Renewal holds beside them.                            *)
THEOREM ReadersDoNotDisturb == ServingSpec => Spec
<1>1. ServingInit => Init
  BY DEF ServingInit
<1> QED
  BY <1>1, SchedulerStep, PTL DEF ServingSpec, Spec

(* The reader keeps its type, whatever the scheduler does.                 *)
THEOREM ReaderTypeCorrect == ServingSpec => []ServingTypeOK
<1>1. ServingInit => Init
  BY DEF ServingInit
<1>2. ReaderOK => ServingTypeOK
  BY DEF ReaderOK
<1> QED
  BY <1>1, <1>2, TypedInit, TypedStep, SchedulerStep, ReaderInit, ReaderStep, PTL
     DEF ServingSpec

THEOREM ServingInvariant == ServingSpec => []ServingInv
<1>1. ServingInit => ServingInv
  BY TypedInit, PairedInit, ReaderInit DEF ServingInit, ServingInv
<1>2. ServingInv /\ [ServingNext]_allVars => ServingInv'
  BY SchedulerStep, TypedStep, PairedStep, ReaderStep DEF ServingInv
<1> QED
  BY <1>1, <1>2, PTL DEF ServingSpec

(* Undisturbed, on files whose last save was neither overlapped nor        *)
(* interrupted, a reader that got both files has seen them as they are,    *)
(* whole and belonging together.                                           *)
LEMMA SettledSees ==
  ASSUME ServingInv, Settled
  PROVE  /\ seen.crt \in {None, crt[about]} /\ seen.key \in {None, key[about]}
         /\ crt[about] \in Contents \cup {Absent}
         /\ key[about] \in Keys \cup {Absent}
         /\ crt[about] # Absent /\ key[about] # Absent
              => Presented([crt |-> crt[about], key |-> key[about]])
<1> USE DEF ServingInv, ReaderOK, Settled
<1>1. about \in Ids \ frayed
  BY DEF ServingTypeOK
<1>2. /\ SavingId(about) = {}
      /\ seen.crt \in {None} \cup Found(crt[about])
      /\ seen.key \in {None, key[about]}
  BY DEF SeenIsThere
<1>3. Intact(about)
  BY <1>1, <1>2 DEF Paired, PairsIntact
<1>4. /\ crt[about] \in Contents \cup {Absent}
      /\ key[about] \in Keys \cup {Absent}
  BY <1>1, <1>3 DEF Intact, Typed, TypeOK
<1> QED
  BY <1>2, <1>3, <1>4 DEF Intact, Found, Presented

(* Certificates handed out are pairs: "issued" and the two raw files.      *)
THEOREM AnswersArePairs == ServingSpec => []IssuedIsAPair
<1>1. ServingInv => IssuedIsAPair
  <2> SUFFICES ASSUME ServingInv, Settled, question \in {"list", "raw"},
                      Issued(seen)
               PROVE  Presented(seen)
    BY DEF IssuedIsAPair
  <2>1. seen.crt # None /\ seen.key # None
    BY DEF ServingInv, ReaderOK, LookedAt, Settled
  <2> QED
    BY <2>1, SettledSees DEF Issued, Presented
<1> QED
  BY <1>1, ServingInvariant, PTL

(* The status tells whether the files on disk can be served.               *)
THEOREM StatusTellsTheTruth == ServingSpec => []StatusIsRight
<1>1. ServingInv => StatusIsRight
  <2> SUFFICES ASSUME ServingInv, Settled, question = "status"
               PROVE  Healthy(seen)
                        <=> Presented([crt |-> crt[about], key |-> key[about]])
    BY DEF StatusIsRight
  <2>1. \/ seen.crt # None /\ seen.key # None
        \/ Absent \in {seen.crt, seen.key}
    BY DEF ServingInv, ReaderOK, LookedAt, Settled
  <2> QED
    BY <2>1, SettledSees, SentinelAssumption, UnseenAssumption
       DEF Healthy, Presented
<1> QED
  BY <1>1, ServingInvariant, PTL

(* A handshake presents the certificate whenever there is one to present.  *)
THEOREM HandshakesServe == ServingSpec => []HandshakeServes
<1>1. ServingInv => HandshakeServes
  <2> SUFFICES ASSUME ServingInv, Settled, question = "handshake",
                      crt[about] # Absent, key[about] # Absent
               PROVE  Presented(seen)
    BY DEF HandshakeServes
  <2>1. \/ seen.crt # None /\ seen.key # None
        \/ Absent \in {seen.crt, seen.key}
    BY DEF ServingInv, ReaderOK, LookedAt, Settled
  <2> QED
    BY <2>1, SettledSees, UnseenAssumption DEF Presented
<1> QED
  BY <1>1, ServingInvariant, PTL
=============================================================================
