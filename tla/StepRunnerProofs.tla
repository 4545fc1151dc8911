---------------------------- MODULE StepRunnerProofs ---------------------------
(***************************************************************************)
(* Theorems about Preparation and StepRunner, for any evidence (any number *)
(* of items, nested to any depth), any profile step and any set of         *)
(* installed tools.                                                        *)
(***************************************************************************)
EXTENDS StepRunner, WellFoundedInduction, TLAPS

\* The hypothesis of the theorems about what a preparation leaves: one process
\* prepares the evidence.  (The code has no lock that would keep a second one
\* out, and with two the theorem is false: MCStepRunner_race.cfg.)
OnePrep == \A p, q \in Preps : p = q

(***************************************************************************)
(* Recursion on the natural numbers.                                       *)
(***************************************************************************)
Less == {p \in Nat \X Nat : p[1] < p[2]}

\* The order of the naturals is well founded.
LEMMA LessIsWellFounded == IsWellFoundedOn(Less, Nat)
<1>1. OpToRel(<, Nat) = Less
  BY DEF OpToRel, Less
<1> QED BY <1>1, NatLessThanWellFounded

\* A set that has 0 and, with a number, the next one, has them all.
LEMMA NatSet ==
  ASSUME NEW S, 0 \in S, \A n \in Nat : n \in S => n + 1 \in S
  PROVE  Nat \subseteq S
<1> SUFFICES ASSUME ~(Nat \subseteq S) PROVE FALSE
  OBVIOUS
<1>1. PICK x \in Nat \ S : \A y \in Nat \ S : <<y, x>> \notin Less
  <2>1. Nat \ S \subseteq Nat /\ Nat \ S # {}
    OBVIOUS
  <2> QED BY LessIsWellFounded, <2>1, WFMin
<1>2. x - 1 \in Nat \ S /\ <<x - 1, x>> \in Less
  BY DEF Less
<1> QED BY <1>1, <1>2

\* A function may be applied again and again, starting anywhere.
Iterate(f, F, x, N) == f[0] = x /\ \A n \in 1..N : f[n] = F[f[n - 1]]

\* A function defined by iteration satisfies its equation.
LEMMA Iterates ==
  ASSUME NEW X, NEW F \in [X -> X], NEW x \in X, NEW N \in Nat
  PROVE  \E f \in [0..N -> X] : Iterate(f, F, x, N)
<1> DEFINE Good(k, f) == f[0] = x /\ \A n \in 1..k : f[n] = F[f[n - 1]]
           S == {k \in Nat : \E f \in [0..k -> X] : Good(k, f)}
<1>1. 0 \in S
  <2>1. [n \in 0..0 |-> x] \in [0..0 -> X] /\ Good(0, [n \in 0..0 |-> x])
    OBVIOUS
  <2> QED BY <2>1
<1>2. ASSUME NEW k \in Nat, k \in S PROVE k + 1 \in S
  <2>1. PICK f \in [0..k -> X] : Good(k, f)
    BY <1>2
  <2> DEFINE g == [n \in 0..(k + 1) |-> IF n = k + 1 THEN F[f[k]] ELSE f[n]]
  <2>2. g \in [0..(k + 1) -> X]
    OBVIOUS
  <2>3. \A n \in 0..k : g[n] = f[n]
    OBVIOUS
  <2>4. g[k + 1] = F[f[k]]
    OBVIOUS
  <2> HIDE DEF g
  <2>5. ASSUME NEW n \in 1..(k + 1) PROVE g[n] = F[g[n - 1]]
    <3>1. n - 1 \in 0..k /\ g[n - 1] = f[n - 1]
      BY <2>3
    <3>2. CASE n = k + 1
      BY <3>1, <3>2, <2>4
    <3>3. CASE n \in 1..k
      BY <3>1, <3>3, <2>1, <2>3
    <3> QED BY <3>2, <3>3
  <2>6. g[0] = x
    BY <2>1, <2>3
  <2> QED BY <2>2, <2>5, <2>6
<1> HIDE DEF S
<1>3. N \in S
  BY <1>1, <1>2, NatSet
<1> QED BY <1>3 DEF S, Iterate

(***************************************************************************)
(* What containers hold.                                                   *)
(***************************************************************************)
NestedIn(c) == OfKind(Inside({c}), {"orc"})

\* What is inside an item is an item.
LEMMA InsideFacts ==
  ASSUME NEW S PROVE Inside(S) \subseteq Items /\ \A K : OfKind(S, K) \subseteq S
BY DEF Inside, OfKind

\* One level of extract_7z, on what the level below gives.
Unpacked(i, nested, h) == (Inside({i}) \ nested) \cup UNION {h[n] : n \in nested}

\* The definition of Unpack7z is that of a function, which gives items.
LEMMA UnpackDefined ==
  /\ Unpack7z \in [0..SevenDepth -> [Items -> SUBSET Items]]
  /\ \A c \in Items : Unpack7z[0][c] = Inside({c})
  /\ \A d \in 1..SevenDepth, c \in Items :
       Unpack7z[d][c] = Unpacked(c, NestedIn(c), Unpack7z[d - 1])
<1> DEFINE X == [Items -> SUBSET Items]
           G(h) == [i \in Items |-> Unpacked(i, NestedIn(i), h)]
           F == [h \in X |-> G(h)]
           x == [i \in Items |-> Inside({i})]
<1>0. \A i : NestedIn(i) \subseteq Items /\ Inside({i}) \subseteq Items
  BY DEF NestedIn, Inside, OfKind
<1>1. F \in [X -> X]
  <2>1. ASSUME NEW h \in X PROVE G(h) \in X
    <3>1. ASSUME NEW i \in Items PROVE Unpacked(i, NestedIn(i), h) \subseteq Items
      BY <1>0 DEF Unpacked
    <3> QED BY <3>1
  <2> HIDE DEF X, G
  <2> QED BY <2>1
<1>2. x \in X
  BY <1>0
<1>3. SevenDepth \in Nat
  BY PreparationAssumption
<1>4. PICK f \in [0..SevenDepth -> X] : f[0] = x /\ \A d \in 1..SevenDepth : f[d] = F[f[d - 1]]
  <2> HIDE DEF X, F, x, G
  <2>1. \E f \in [0..SevenDepth -> X] : Iterate(f, F, x, SevenDepth)
    BY <1>1, <1>2, <1>3, Iterates
  <2> QED BY <2>1 DEF Iterate
<1>5. \A d \in 1..SevenDepth : f[d] = G(f[d - 1])
  <2>1. \A d \in 1..SevenDepth : d - 1 \in 0..SevenDepth
    BY <1>3
  <2> HIDE DEF X, G
  <2> QED BY <1>4, <2>1
<1> DEFINE B(v, d) == [c \in Items |->
                         LET members == Inside({c})
                             nested == IF d = 0 THEN {} ELSE OfKind(members, {"orc"})
                         IN  (members \ nested) \cup UNION {v[d - 1][n] : n \in nested}]
<1>6. \A v : B(v, 0) = x /\ \A d \in 1..SevenDepth : B(v, d) = G(v[d - 1])
  <2>1. \A v, i : (Inside({i}) \ {}) \cup UNION {v[0 - 1][n] : n \in {}} = Inside({i})
    OBVIOUS
  <2>2. \A v : B(v, 0) = x
    BY <2>1
  <2>3. \A v : \A d \in 1..SevenDepth : B(v, d) = G(v[d - 1])
    <3>1. ASSUME NEW v, NEW d \in 1..SevenDepth PROVE B(v, d) = G(v[d - 1])
      <4>1. d # 0
        BY <1>3
      <4>2. \A i : (IF d = 0 THEN {} ELSE OfKind(Inside({i}), {"orc"})) = NestedIn(i)
        BY <4>1 DEF NestedIn
      <4> QED BY <4>2 DEF Unpacked
    <3> QED BY <3>1
  <2> QED BY SMTT(60), <2>2, <2>3
<1> HIDE DEF G, x, B
<1>7. f = [d \in 0..SevenDepth |-> B(f, d)]
  <2>1. ASSUME NEW d \in 0..SevenDepth PROVE f[d] = B(f, d)
    <3>1. CASE d = 0
      BY <1>4, <1>6, <3>1
    <3>2. CASE d \in 1..SevenDepth
      BY <1>5, <1>6, <3>2
    <3> QED BY <1>3, <3>1, <3>2
  <2> QED BY <2>1
<1>8. Unpack7z = [d \in 0..SevenDepth |-> B(Unpack7z, d)]
  BY ZenonT(60), <1>7 DEF Unpack7z, B
<1>9. \A d \in 0..SevenDepth : Unpack7z[d] = IF d = 0 THEN x ELSE G(Unpack7z[d - 1])
  BY <1>3, <1>6, <1>8
<1>a. Unpack7z \in [0..SevenDepth -> X]
  <2> HIDE DEF X
  <2> DEFINE S == {d \in Nat : d \in 0..SevenDepth => Unpack7z[d] \in X}
  <2>1. 0 \in S
    BY <1>2, <1>3, <1>9
  <2>2. ASSUME NEW d \in Nat, d \in S PROVE d + 1 \in S
    <3>1. SUFFICES ASSUME d + 1 \in 0..SevenDepth PROVE Unpack7z[d + 1] \in X
      OBVIOUS
    <3>2. d \in 0..SevenDepth /\ Unpack7z[d] \in X /\ d + 1 # 0 /\ (d + 1) - 1 = d
      BY <1>3, <2>2, <3>1
    <3>3. Unpack7z[d + 1] = G(Unpack7z[d])
      BY <1>9, <3>1, <3>2
    <3>4. G(Unpack7z[d]) = F[Unpack7z[d]]
      BY <3>2
    <3> QED BY <1>1, <3>2, <3>3, <3>4
  <2> HIDE DEF S
  <2>3. Nat \subseteq S
    BY <2>1, <2>2, NatSet
  <2>4. \A d \in 0..SevenDepth : Unpack7z[d] \in X
    BY <1>3, <2>3 DEF S
  <2> QED BY <1>8, <2>4
<1>b. \A c \in Items : Unpack7z[0][c] = Inside({c})
  <2>1. Unpack7z[0] = x
    BY <1>3, <1>9
  <2> QED BY <2>1 DEF x
<1>c. ASSUME NEW d \in 1..SevenDepth, NEW c \in Items
      PROVE  Unpack7z[d][c] = Unpacked(c, NestedIn(c), Unpack7z[d - 1])
  <2>1. Unpack7z[d] = G(Unpack7z[d - 1])
    BY <1>3, <1>9
  <2> QED BY <2>1 DEF G
<1> QED BY <1>a, <1>b, <1>c

\* What comes out of a container are items.
LEMMA MembersAreItems == ASSUME NEW c \in Items PROVE Members(c) \subseteq Items
<1>1. SevenDepth \in 0..SevenDepth
  BY PreparationAssumption
<1>2. Unpack7z[SevenDepth][c] \subseteq Items
  BY <1>1, UnpackDefined
<1> QED BY <1>2, InsideFacts DEF Members

\* The search of one more round.
Deeper(V) == V \cup UNION {Members(c) : c \in OfKind(V, Container)}

\* Reach, defined by recursion, satisfies its equation at every depth.
LEMMA ReachDefined ==
  /\ Reach \in [0..MaxNesting -> SUBSET Items]
  /\ Reach[0] = Members(Top)
  /\ \A n \in 1..MaxNesting : Reach[n] = Deeper(Reach[n - 1])
<1> DEFINE X == SUBSET Items
           F == [V \in X |-> Deeper(V)]
           x == Members(Top)
<1>1. F \in [X -> X]
  <2>1. ASSUME NEW V \in X PROVE Deeper(V) \in X
    BY MembersAreItems DEF Deeper, OfKind
  <2> QED BY <2>1
<1>2. x \in X
  BY MembersAreItems, PreparationAssumption
<1>3. MaxNesting \in Nat
  BY PreparationAssumption
<1>4. PICK f \in [0..MaxNesting -> X] :
        f[0] = x /\ \A n \in 1..MaxNesting : f[n] = F[f[n - 1]]
  <2> HIDE DEF X, F, x
  <2>1. \E f \in [0..MaxNesting -> X] : Iterate(f, F, x, MaxNesting)
    BY <1>1, <1>2, <1>3, Iterates
  <2> QED BY <2>1 DEF Iterate
<1>5. \A n \in 1..MaxNesting : f[n] = Deeper(f[n - 1])
  <2>1. \A n \in 1..MaxNesting : n - 1 \in 0..MaxNesting
    BY <1>3
  <2> QED BY <1>4, <2>1
<1> DEFINE B(v, n) == LET seen == IF n = 0 THEN {} ELSE v[n - 1]
                      IN  IF n = 0 THEN Members(Top)
                          ELSE seen \cup UNION {Members(c) : c \in OfKind(seen, Container)}
<1>6. \A v : B(v, 0) = x /\ \A n \in 1..MaxNesting : B(v, n) = Deeper(v[n - 1])
  <2>1. \A v : B(v, 0) = x
    OBVIOUS
  <2>2. ASSUME NEW v, NEW n \in 1..MaxNesting PROVE B(v, n) = Deeper(v[n - 1])
    <3>1. n # 0
      BY <1>3
    <3> QED BY <3>1 DEF Deeper
  <2> QED BY <2>1, <2>2
<1> HIDE DEF B, x
<1>7. f = [n \in 0..MaxNesting |-> B(f, n)]
  <2>1. ASSUME NEW n \in 0..MaxNesting PROVE f[n] = B(f, n)
    <3>1. CASE n = 0
      BY <1>4, <1>6, <3>1
    <3>2. CASE n \in 1..MaxNesting
      BY <1>5, <1>6, <3>2
    <3> QED BY <1>3, <3>1, <3>2
  <2> QED BY <2>1
<1>8. Reach = [n \in 0..MaxNesting |-> B(Reach, n)]
  BY <1>7 DEF Reach, B
<1>9. \A n \in 0..MaxNesting : Reach[n] = IF n = 0 THEN x ELSE Deeper(Reach[n - 1])
  BY <1>3, <1>6, <1>8
<1>a. Reach \in [0..MaxNesting -> X]
  <2> HIDE DEF X
  <2> DEFINE S == {n \in Nat : n \in 0..MaxNesting => Reach[n] \in X}
  <2>1. 0 \in S
    BY <1>2, <1>3, <1>9
  <2>2. ASSUME NEW n \in Nat, n \in S PROVE n + 1 \in S
    <3>1. SUFFICES ASSUME n + 1 \in 0..MaxNesting PROVE Reach[n + 1] \in X
      OBVIOUS
    <3>2. n \in 0..MaxNesting /\ Reach[n] \in X /\ n + 1 # 0 /\ (n + 1) - 1 = n
      BY <1>3, <2>2, <3>1
    <3>3. Reach[n + 1] = Deeper(Reach[n])
      BY <1>9, <3>1, <3>2
    <3>4. Deeper(Reach[n]) = F[Reach[n]]
      BY <3>2
    <3> QED BY <1>1, <3>2, <3>3, <3>4
  <2> HIDE DEF S
  <2>3. Nat \subseteq S
    BY <2>1, <2>2, NatSet
  <2>4. \A n \in 0..MaxNesting : Reach[n] \in X
    BY <1>3, <2>3 DEF S
  <2> QED BY <1>8, <2>4
<1>b. Reach[0] = Members(Top)
  BY <1>3, <1>9 DEF x
<1>c. \A n \in 1..MaxNesting : Reach[n] = Deeper(Reach[n - 1])
  BY <1>3, <1>9
<1> QED BY <1>a, <1>b, <1>c

Useful == {"tree", "logs"}

\* What a search of V that is not cut off finds is more than nothing.
Shows(V) ==
  (\E i \in OfKind(V, {"uaclog"}) : within[i] = Top) \/ OfKind(V, Useful) # {}

\* The evidence does not change, so neither does what can come out of it.
LEMMA SameEvidence ==
  ASSUME UNCHANGED evidence
  PROVE  /\ Reach' = Reach
         /\ \A c : Members(c)' = Members(c)
         /\ \A S, K : OfKind(S, K)' = OfKind(S, K)
         /\ \A V : Shows(V)' = Shows(V)
<1>0. UNCHANGED <<kind, within, deep, crowded>>
  BY DEF evidence
<1>1. Reach' = Reach
  BY <1>0 DEF Reach, OfKind, Members, Inside, Unpack7z
<1>2. Unpack7z' = Unpack7z
  BY <1>0 DEF Unpack7z, Inside, OfKind
<1>3. \A c : Members(c)' = Members(c)
  BY <1>0, <1>2 DEF Members, Inside
<1>4. \A S, K : OfKind(S, K)' = OfKind(S, K)
  BY <1>0 DEF OfKind
<1>5. \A V : Shows(V)' = Shows(V)
  BY <1>0 DEF Shows, OfKind
<1> QED BY <1>1, <1>3, <1>4, <1>5

(***************************************************************************)
(* Types of the preparation.                                               *)
(***************************************************************************)
PrepType == [pc      : {"idle", "derive", "rescan", "record", "host"},
             secrets : SUBSET Secret,
             beside  : BOOLEAN,
             todo    : SUBSET Items,
             done    : SUBSET Items,
             round   : 0..MaxNesting]

RecordType == [derived : BOOLEAN, items : SUBSET Items,
               found : {"uac", "tree", "logs", "unknown"}, opened : SUBSET Items]

\* The steps of one call of prepare_evidence.
PrepStep(p) ==
  \/ PrepareBegin(p) \/ Rescan(p) \/ Record(p) \/ SaveHost(p) \/ PrepDies(p)
  \/ \E c \in Items : Derive(p, c) \/ DeriveRefused(p, c) \/ DeriveStops(p, c)

\* An idle preparation is well typed.
LEMMA IdleType == Idle \in PrepType /\ Idle.pc = "idle"
BY PreparationAssumption DEF Idle, PrepType

\* The kind of a directory, after a walk for trees and one for files.
KindOf(V, roots, files) ==
  CASE \E i \in OfKind(V, {"uaclog"}) : within[i] = Top -> "uac"
    [] OTHER -> IF OfKind(roots, {"tree"}) \ deep # {} THEN "tree"
                ELSE IF OfKind(files, {"logs", "tree"}) # {} THEN "logs"
                ELSE "unknown"

\* Every detection is that of two walks.
LEMMA Detections ==
  ASSUME NEW V, NEW info \in Detect(V)
  PROVE  \E roots \in Walks(V), files \in Walks(V) :
            /\ info.kind = KindOf(V, roots, files)
            /\ info.containers = IF KindOf(V, roots, files) \in {"uac", "tree"} THEN {}
                                 ELSE OfKind(files, {"image", "p7b"})
<1>1. PICK roots \in Walks(V), files \in Walks(V) :
        info = [kind |-> KindOf(V, roots, files),
                containers |-> IF KindOf(V, roots, files) \in {"uac", "tree"} THEN {}
                               ELSE OfKind(files, {"image", "p7b"})]
  BY DEF Detect, KindOf
<1> HIDE DEF KindOf
<1> QED BY <1>1

\* The kind detected is one of those the code names.
LEMMA FoundFacts ==
  ASSUME NEW V, NEW info \in Detect(V)
  PROVE  /\ info.kind \in {"uac", "tree", "logs", "unknown"} /\ Ready(info) \in BOOLEAN
         /\ info.containers \subseteq V /\ NestedContainers(V, info) \subseteq V
<1>1. PICK roots \in Walks(V), files \in Walks(V) :
         /\ info.kind = KindOf(V, roots, files)
         /\ info.containers = IF KindOf(V, roots, files) \in {"uac", "tree"} THEN {}
                              ELSE OfKind(files, {"image", "p7b"})
  BY Detections
<1>2. files \subseteq V
  BY DEF Walks
<1>3. info.kind \in {"uac", "tree", "logs", "unknown"}
  BY <1>1 DEF KindOf
<1>4. info.containers \subseteq V
  BY <1>1, <1>2 DEF OfKind
<1> QED BY <1>3, <1>4 DEF Ready, NestedContainers, OfKind

\* What a preparation is when it begins.
LEMMA BeginFacts ==
  ASSUME NEW p \in Preps, PrepareBegin(p)
  PROVE  \E s \in SUBSET Secret, info \in Detect(Sources) :
            /\ prep' = [prep EXCEPT ![p] = Begun(s, info)]
            /\ \/ Ready(info) /\ held' = held /\ torn' = torn /\ content' = content
               \/ ~Ready(info) /\ held' = {} /\ torn' = {} /\ content' = FALSE
<1>1. PICK s \in SUBSET Secret, info \in Detect(Sources) :
        /\ prep' = [prep EXCEPT ![p] = Begun(s, info)]
        /\ IF Ready(info) THEN UNCHANGED disk
           ELSE held' = {} /\ torn' = {} /\ content' = FALSE
  BY Zenon DEF PrepareBegin
<1>2. \/ Ready(info) /\ held' = held /\ torn' = torn /\ content' = content
      \/ ~Ready(info) /\ held' = {} /\ torn' = {} /\ content' = FALSE
  BY <1>1 DEF disk
<1> QED BY <1>1, <1>2

\* A preparation that begins is well typed.
LEMMA BegunType ==
  ASSUME NEW s \in SUBSET Secret, NEW info \in Detect(Sources)
  PROVE  /\ Begun(s, info) \in PrepType
         /\ Begun(s, info).pc \in {"record", "derive"} /\ Begun(s, info).beside = Ready(info)
         /\ ~Ready(info) => Begun(s, info).pc = "derive" /\ Begun(s, info).todo = {Top}
         /\ Begun(s, info).done = {} /\ Begun(s, info).round = 0
<1>1. Sources \subseteq Items
  BY PreparationAssumption DEF Sources, Inside
<1>2. info.containers \subseteq Items
  BY <1>1, FoundFacts
<1>3. Ready(info) \in BOOLEAN
  BY FoundFacts
<1> DEFINE todo == IF Ready(info) THEN info.containers ELSE {Top}
           pc == IF Ready(info) /\ info.containers = {} THEN "record" ELSE "derive"
<1>4. todo \in SUBSET Items /\ pc \in {"record", "derive"}
  BY <1>2, PreparationAssumption
<1>5. ~Ready(info) => pc = "derive" /\ todo = {Top}
  OBVIOUS
<1>6. Begun(s, info) = [Idle EXCEPT !.secrets = s, !.beside = Ready(info), !.todo = todo,
                                    !.pc = pc]
  BY DEF Begun
<1> HIDE DEF todo, pc
<1>7. Begun(s, info) \in PrepType
  BY <1>3, <1>4, <1>6, IdleType DEF PrepType
<1>8. /\ Begun(s, info).pc = pc /\ Begun(s, info).beside = Ready(info)
      /\ Begun(s, info).todo = todo
      /\ Begun(s, info).done = {} /\ Begun(s, info).round = 0
  BY <1>6 DEF Idle
<1> QED BY <1>4, <1>5, <1>7, <1>8

\* A rescan ends the search, or opens what is still closed.
LEMMA RescanCases ==
  ASSUME NEW p \in Preps, Rescan(p)
  PROVE  \E info \in Detect(OnDisk) :
           \/ /\ Pending(p, info) = {} \/ prep[p].round = MaxNesting
              /\ prep' = [prep EXCEPT ![p] = [prep[p] EXCEPT !.pc = "record"]]
           \/ /\ prep[p].round # MaxNesting
              /\ prep' = [prep EXCEPT ![p] = [prep[p] EXCEPT !.pc = "derive",
                                !.todo = Pending(p, info), !.round = prep[p].round + 1]]
<1>1. PICK info \in Detect(OnDisk) :
        prep' = [prep EXCEPT ![p] =
            IF Pending(p, info) = {} \/ prep[p].round = MaxNesting
            THEN [prep[p] EXCEPT !.pc = "record"]
            ELSE [prep[p] EXCEPT !.pc = "derive", !.todo = Pending(p, info),
                                 !.round = prep[p].round + 1]]
  BY Zenon DEF Rescan
<1>2. CASE Pending(p, info) = {} \/ prep[p].round = MaxNesting
  BY <1>1, <1>2
<1>3. CASE ~(Pending(p, info) = {} \/ prep[p].round = MaxNesting)
  BY <1>1, <1>3
<1> QED BY <1>2, <1>3

\* The first state of a preparation is well typed.
LEMMA PrepTypeInit == ASSUME PrepInit PROVE PrepTypeOK
BY IdleType DEF PrepInit, PrepTypeOK, PrepType

\* Every step of a preparation keeps the types.
LEMMA PrepTypeStep ==
  ASSUME PrepTypeOK, NEW p \in Preps, PrepStep(p) PROVE PrepTypeOK'
<1>p. prep \in [Preps -> PrepType]
  BY DEF PrepTypeOK, PrepType
<1>q. prep[p] \in PrepType
  BY <1>p
<1>d. held \subseteq Items /\ torn \subseteq Items /\ held \cap torn = {}
  BY DEF PrepTypeOK
<1>b. content \in BOOLEAN /\ hosted \in BOOLEAN
  BY DEF PrepTypeOK
<1>r. record = None \/ record \in RecordType
  BY DEF PrepTypeOK, RecordType
<1>0. ASSUME held' \subseteq Items, torn' \subseteq Items, held' \cap torn' = {},
             content' \in BOOLEAN, hosted' \in BOOLEAN,
             record' = None \/ record' \in RecordType, prep' \in [Preps -> PrepType]
      PROVE  PrepTypeOK'
  BY <1>0 DEF PrepTypeOK, PrepType, RecordType
<1>i. ASSUME prep' = [prep EXCEPT ![p] = Idle] PROVE prep' \in [Preps -> PrepType]
  BY <1>i, <1>p, IdleType
<1>s. Sources \subseteq Items
  BY PreparationAssumption DEF Sources, Inside
<1>1. CASE PrepareBegin(p)
  <2>1. PICK s \in SUBSET Secret, info \in Detect(Sources) :
          /\ prep' = [prep EXCEPT ![p] = Begun(s, info)]
          /\ \/ Ready(info) /\ held' = held /\ torn' = torn /\ content' = content
             \/ ~Ready(info) /\ held' = {} /\ torn' = {} /\ content' = FALSE
    BY <1>1, BeginFacts
  <2>2. Begun(s, info) \in PrepType
    BY BegunType
  <2> HIDE DEF Begun
  <2>3. prep' \in [Preps -> PrepType]
    BY <1>p, <2>1, <2>2
  <2>4. held' \subseteq Items /\ torn' \subseteq Items /\ held' \cap torn' = {}
        /\ content' \in BOOLEAN
    BY <2>1, <1>d, <1>b
  <2>5. UNCHANGED <<record, hosted>>
    BY <1>1 DEF PrepareBegin
  <2> QED BY <1>0, <1>b, <1>r, <2>3, <2>4, <2>5
<1>2. CASE Rescan(p)
  <2>1. prep[p].round = MaxNesting \/ prep[p].round + 1 \in 0..MaxNesting
    BY <1>q, PreparationAssumption DEF PrepType
  <2>2. \A info \in Detect(OnDisk) : Pending(p, info) \in SUBSET Items
    BY <1>d, FoundFacts DEF Pending, OnDisk
  <2>3. [prep[p] EXCEPT !.pc = "record"] \in PrepType
    BY <1>q DEF PrepType
  <2>4. ASSUME NEW S \in SUBSET Items, prep[p].round # MaxNesting
        PROVE  [prep[p] EXCEPT !.pc = "derive", !.todo = S, !.round = prep[p].round + 1]
                 \in PrepType
    BY <1>q, <2>1, <2>4 DEF PrepType
  <2>5. PICK r \in PrepType : prep' = [prep EXCEPT ![p] = r]
    <3>1. CASE prep' = [prep EXCEPT ![p] = [prep[p] EXCEPT !.pc = "record"]]
      BY <2>3, <3>1
    <3>2. CASE \E S \in SUBSET Items :
                 /\ prep[p].round # MaxNesting
                 /\ prep' = [prep EXCEPT ![p] = [prep[p] EXCEPT !.pc = "derive", !.todo = S,
                                                               !.round = prep[p].round + 1]]
      BY <2>4, <3>2
    <3> QED BY <1>2, <2>2, <3>1, <3>2, RescanCases
  <2>6. prep' \in [Preps -> PrepType]
    BY <1>p, <2>5
  <2> QED BY <1>0, <1>2, <1>d, <1>b, <1>r, <2>6 DEF Rescan, disk
<1>3. CASE Record(p)
  <2>1. [prep[p] EXCEPT !.pc = "host"] \in PrepType
    BY <1>q DEF PrepType
  <2>2. PICK r \in PrepType : prep' = [prep EXCEPT ![p] = r]
    BY <1>3, <1>p, <2>1, IdleType DEF Record
  <2>3. prep' \in [Preps -> PrepType]
    BY <1>p, <2>2
  <2>4. record' \in RecordType
    <3>0. prep[p].beside \in BOOLEAN
      BY <1>q DEF PrepType
    <3>1. (~prep[p].beside) \in BOOLEAN /\ prep[p].done \in SUBSET Items
      BY <1>q, <3>0 DEF PrepType
    <3> DEFINE base == IF prep[p].beside THEN Sources ELSE OnDisk
    <3>3. OnDisk \cup base \in SUBSET Items
      BY <1>d, <1>s DEF OnDisk
    <3>4. PICK info \in Detect(base) :
            record' = [derived |-> ~prep[p].beside, items |-> OnDisk \cup base,
                       found |-> info.kind, opened |-> prep[p].done]
      BY <1>3 DEF Record
    <3>5. info.kind \in {"uac", "tree", "logs", "unknown"}
      BY FoundFacts
    <3> HIDE DEF base
    <3> QED BY <3>1, <3>3, <3>4, <3>5 DEF RecordType
  <2> QED BY <1>0, <1>3, <1>d, <1>b, <2>3, <2>4 DEF Record, disk
<1>4. CASE SaveHost(p)
  BY <1>0, <1>4, <1>d, <1>b, <1>r, <1>i DEF SaveHost, disk
<1>5. CASE PrepDies(p)
  BY <1>0, <1>5, <1>d, <1>b, <1>r, <1>i DEF PrepDies, disk
<1>6. ASSUME NEW c \in Items, Derive(p, c) PROVE PrepTypeOK'
  <2>1. PICK todo \in SUBSET Items, done \in SUBSET Items, pc \in {"derive", "record", "rescan"} :
          prep' = [prep EXCEPT ![p].todo = todo, ![p].done = done, ![p].pc = pc]
    <3>1. prep[p].todo \ {c} \in SUBSET Items /\ prep[p].done \cup {c} \in SUBSET Items
      BY <1>q DEF PrepType
    <3>2. prep' = [prep EXCEPT ![p].todo = prep[p].todo \ {c}, ![p].done = prep[p].done \cup {c},
                     ![p].pc = IF prep[p].todo # {c} THEN "derive"
                               ELSE IF prep[p].beside THEN "record" ELSE "rescan"]
      BY <1>6, <1>p DEF Derive, PrepType
    <3> QED BY <3>1, <3>2
  <2>2. prep' \in [Preps -> PrepType]
    <3> DEFINE r == [prep[p] EXCEPT !.todo = todo, !.done = done, !.pc = pc]
    <3>1. r \in PrepType
      BY <1>q DEF PrepType
    <3>2. prep' = [prep EXCEPT ![p] = r]
      BY <1>p, <2>1
    <3> HIDE DEF r
    <3> QED BY <1>p, <3>1, <3>2
  <2>3. Extracted(c, Members(c)) \subseteq Items
    BY MembersAreItems DEF Extracted
  <2> QED BY <1>0, <1>6, <1>d, <1>b, <1>r, <2>2, <2>3 DEF Derive
<1>7. ASSUME NEW c \in Items, DeriveRefused(p, c) PROVE PrepTypeOK'
  BY <1>0, <1>7, <1>d, <1>b, <1>r, <1>i DEF DeriveRefused, disk
<1>8. ASSUME NEW c \in Items, DeriveStops(p, c) PROVE PrepTypeOK'
  BY <1>0, <1>8, <1>d, <1>b, <1>r, <1>i, MembersAreItems DEF DeriveStops
<1> QED BY <1>1, <1>2, <1>3, <1>4, <1>5, <1>6, <1>7, <1>8 DEF PrepStep

(***************************************************************************)
(* What a preparation leaves.                                              *)
(***************************************************************************)
\* What is there says what the evidence is, or no search gets to its end.
Settled == Shows(held) \/ crowded

\* What a preparation that derives has done: nothing lies truncated beside it,
\* and what it has opened is there, as deep as its round.
Searched(p) ==
  /\ torn = {}
  /\ \A c \in prep[p].done : Members(c) \subseteq held
  /\ Top \in prep[p].done \cup prep[p].todo
  /\ prep[p].pc = "derive" /\ prep[p].round > 0 =>
       \/ Settled
       \/ /\ Reach[prep[p].round - 1] \subseteq held
          /\ OfKind(Reach[prep[p].round - 1], Container) \subseteq prep[p].done \cup prep[p].todo
  /\ prep[p].pc = "rescan" =>
       /\ Top \in prep[p].done
       /\ Settled \/ Reach[prep[p].round] \subseteq held
  /\ prep[p].pc = "record" => Settled \/ Reach[MaxNesting] \subseteq held

Deriving(p) == prep[p].pc \in {"derive", "rescan", "record"} /\ ~prep[p].beside

PrepInv(p) == Deriving(p) => Searched(p)

\* What the record says, once it is written.
Recorded ==
  record # None /\ record.derived /\ ~crowded /\ OfKind(Reach[MaxNesting], Useful) # {} =>
    record.found # "unknown"

EvidenceInv == PrepTypeOK /\ (\A p \in Preps : PrepInv(p)) /\ Recorded

\* A directory that shows what it is still does when more comes in.
LEMMA ShowsGrows ==
  ASSUME NEW V, NEW W, V \subseteq W, Shows(V) PROVE Shows(W)
BY DEF Shows, OfKind

\* What a walk that is not cut off finds.
LEMMA UncutKind ==
  ASSUME NEW V, ~crowded
  PROVE  KindOf(V, V, V) = "unknown" <=> ~Shows(V)
<1>1. OfKind(V, {"tree"}) \ deep \subseteq OfKind(V, Useful)
  BY DEF OfKind, Useful
<1>2. OfKind(V, {"logs", "tree"}) = OfKind(V, Useful)
  BY DEF OfKind, Useful
<1> DEFINE uac == \E i \in OfKind(V, {"uaclog"}) : within[i] = Top
<1>3. KindOf(V, V, V) = IF uac THEN "uac"
                        ELSE IF OfKind(V, {"tree"}) \ deep # {} THEN "tree"
                        ELSE IF OfKind(V, {"logs", "tree"}) # {} THEN "logs" ELSE "unknown"
  BY DEF KindOf
<1>4. Shows(V) <=> (uac \/ OfKind(V, Useful) # {})
  BY DEF Shows
<1> HIDE DEF uac
<1> QED BY <1>1, <1>2, <1>3, <1>4

\* A walk that is not cut off finds what shows.
LEMMA UsableIsFound ==
  ASSUME NEW V, ~crowded, NEW info \in Detect(V)
  PROVE  info.kind = "unknown" <=> ~Shows(V)
<1>1. info.kind = KindOf(V, V, V)
  BY Detections DEF Walks
<1> QED BY <1>1, UncutKind

\* While nothing usable is found, every container is listed.
LEMMA AllContainers ==
  ASSUME NEW V, NEW info \in Detect(V), ~crowded, ~Shows(V)
  PROVE  NestedContainers(V, info) = OfKind(V, Container)
<1>1. NestedContainers(V, info) = OfKind(V, {"image", "p7b"}) \cup OfKind(V, Archive)
  <2>1. KindOf(V, V, V) = "unknown"
    BY UncutKind
  <2>2. info.kind = "unknown" /\ info.containers = OfKind(V, {"image", "p7b"})
    BY <2>1, Detections DEF Walks
  <2> QED BY <2>2 DEF NestedContainers, Ready
<1>2. Container = {"image", "p7b"} \cup Archive
  BY DEF Container, Archive
<1> QED BY <1>1, <1>2 DEF OfKind

\* A place where every container is opened has all that can come out.
LEMMA ClosedIsAll ==
  ASSUME NEW V, Members(Top) \subseteq V, \A c \in OfKind(V, Container) : Members(c) \subseteq V
  PROVE  \A n \in 0..MaxNesting : Reach[n] \subseteq V
<1> DEFINE S == {n \in Nat : n \in 0..MaxNesting => Reach[n] \subseteq V}
<1>0. MaxNesting \in Nat
  BY PreparationAssumption
<1>1. 0 \in S
  BY ReachDefined
<1>2. ASSUME NEW n \in Nat, n \in S PROVE n + 1 \in S
  <2>1. SUFFICES ASSUME n + 1 \in 0..MaxNesting PROVE Reach[n + 1] \subseteq V
    OBVIOUS
  <2>2. n + 1 \in 1..MaxNesting /\ Reach[n] \subseteq V
    BY <1>0, <1>2, <2>1
  <2>3. Reach[n + 1] = Deeper(Reach[n])
    BY <2>2, ReachDefined
  <2>4. OfKind(Reach[n], Container) \subseteq OfKind(V, Container)
    BY <2>2 DEF OfKind
  <2> QED BY <2>2, <2>3, <2>4 DEF Deeper
<1> HIDE DEF S
<1>3. Nat \subseteq S
  BY <1>1, <1>2, NatSet
<1> QED BY <1>0, <1>3 DEF S

\* The invariant of the preparation holds before it begins.
LEMMA EvidenceInit == ASSUME PrepInit PROVE EvidenceInv
<1>1. PrepTypeOK
  BY PrepTypeInit
<1>2. \A p \in Preps : PrepInv(p)
  BY DEF PrepInit, PrepInv, Deriving, Idle
<1>3. Recorded
  BY DEF PrepInit, Recorded
<1> QED BY <1>1, <1>2, <1>3 DEF EvidenceInv

\* The search goes on, in an emptied folder.
LEMMA SearchBegins ==
  ASSUME EvidenceInv, NEW p \in Preps, PrepareBegin(p) PROVE PrepInv(p)'
<1>p. prep \in [Preps -> PrepType]
  BY DEF EvidenceInv, PrepTypeOK, PrepType
<1>1. PICK s \in SUBSET Secret, info \in Detect(Sources) :
        /\ prep' = [prep EXCEPT ![p] = Begun(s, info)]
        /\ \/ Ready(info) /\ held' = held /\ torn' = torn /\ content' = content
           \/ ~Ready(info) /\ held' = {} /\ torn' = {} /\ content' = FALSE
  BY BeginFacts
<1>2. prep'[p] = Begun(s, info)
  BY <1>p, <1>1
<1>4. ASSUME Deriving(p)' PROVE Searched(p)'
  <2>1. ~Ready(info)
    BY <1>2, <1>4, BegunType DEF Deriving
  <2>2. /\ prep'[p].pc = "derive" /\ prep'[p].todo = {Top} /\ prep'[p].done = {}
        /\ prep'[p].round = 0
    BY <1>2, <2>1, BegunType
  <2>3. torn' = {}
    BY <1>1, <2>1
  <2> QED BY <2>2, <2>3 DEF Searched
<1> QED BY <1>4 DEF PrepInv

\* Opening a container keeps what was found within reach, and what is in it to be searched.
LEMMA SearchOpens ==
  ASSUME EvidenceInv, NEW p \in Preps, NEW c \in Items, Derive(p, c) PROVE PrepInv(p)'
<1>p. prep \in [Preps -> PrepType]
  BY DEF EvidenceInv, PrepTypeOK, PrepType
<1>q. prep[p] \in PrepType /\ PrepInv(p)
  BY <1>p DEF EvidenceInv
<1>r. prep[p].round \in 0..MaxNesting /\ MaxNesting \in Nat
  BY <1>q, PreparationAssumption DEF PrepType
<1>u. UNCHANGED evidence
  BY DEF Derive
<1>0. /\ prep[p].pc = "derive" /\ c \in prep[p].todo
      /\ held' = held \cup Extracted(c, Members(c))
      /\ torn' = torn \ Extracted(c, Members(c))
  BY DEF Derive
<1>1. /\ prep'[p].todo = prep[p].todo \ {c} /\ prep'[p].done = prep[p].done \cup {c}
      /\ prep'[p].beside = prep[p].beside /\ prep'[p].round = prep[p].round
      /\ prep'[p].pc = IF prep[p].todo # {c} THEN "derive"
                       ELSE IF prep[p].beside THEN "record" ELSE "rescan"
  BY <1>p DEF Derive, PrepType
<1>3. ASSUME Deriving(p)' PROVE Searched(p)'
  <2>1. ~prep[p].beside /\ Searched(p)
    BY <1>0, <1>1, <1>3, <1>q DEF Deriving, PrepInv
  <2>2. torn = {}
    BY <2>1 DEF Searched
  <2>3. torn' = {} /\ held' = held \cup Members(c)
    BY <1>0, <2>2 DEF Extracted
  <2>4. \A d : Members(d)' = Members(d)
    BY <1>u, SameEvidence
  <2>5. Reach' = Reach /\ \A S, K : OfKind(S, K)' = OfKind(S, K)
    BY <1>u, SameEvidence
  <2>6. \A d \in prep'[p].done : Members(d)' \subseteq held'
    BY <1>1, <2>1, <2>3, <2>4 DEF Searched
  <2>7. Top \in prep'[p].done \cup prep'[p].todo
    BY <1>1, <2>1 DEF Searched
  <2>8. Settled => Settled'
    <3>1. Shows(held)' = Shows(held') /\ crowded' = crowded
      BY <1>u DEF evidence, Shows, OfKind
    <3> QED BY <2>3, <3>1, ShowsGrows DEF Settled
  <2>9. prep[p].round > 0 =>
          \/ Settled'
          \/ /\ Reach[prep[p].round - 1] \subseteq held'
             /\ OfKind(Reach[prep[p].round - 1], Container) \subseteq prep'[p].done \cup prep'[p].todo
    BY <1>0, <1>1, <2>1, <2>3, <2>8 DEF Searched
  <2>a. prep'[p].pc = "rescan" => Top \in prep'[p].done /\ prep'[p].todo = {}
    BY <1>1, <2>7
  <2>b. prep'[p].pc = "rescan" => Settled' \/ Reach[prep[p].round] \subseteq held'
    <3> SUFFICES ASSUME prep'[p].pc = "rescan", ~Settled' PROVE Reach[prep[p].round] \subseteq held'
      OBVIOUS
    <3>1. CASE prep[p].round = 0
      <4>1. Members(Top) \subseteq held'
        BY <2>4, <2>6, <2>a
      <4> QED BY <3>1, <4>1, ReachDefined
    <3>2. CASE prep[p].round > 0
      <4>1. /\ Reach[prep[p].round - 1] \subseteq held'
            /\ OfKind(Reach[prep[p].round - 1], Container) \subseteq prep'[p].done
        BY <2>9, <2>a, <3>2
      <4>2. prep[p].round \in 1..MaxNesting
        BY <1>r, <3>2
      <4>3. Reach[prep[p].round] = Deeper(Reach[prep[p].round - 1])
        BY <4>2, ReachDefined
      <4>4. \A d \in prep'[p].done : Members(d) \subseteq held'
        BY <2>4, <2>6
      <4> QED BY <4>1, <4>3, <4>4 DEF Deeper
    <3> QED BY <1>r, <3>1, <3>2
  <2>c. prep'[p].pc \in {"derive", "rescan"}
    BY <1>1, <2>1
  <2> QED BY <1>1, <2>3, <2>5, <2>6, <2>7, <2>9, <2>a, <2>b, <2>c DEF Searched
<1> QED BY <1>3 DEF PrepInv

\* A rescan keeps what was found within reach.
LEMMA SearchRescans ==
  ASSUME EvidenceInv, NEW p \in Preps, Rescan(p) PROVE PrepInv(p)'
<1>p. prep \in [Preps -> PrepType]
  BY DEF EvidenceInv, PrepTypeOK, PrepType
<1>q. prep[p] \in PrepType /\ PrepInv(p)
  BY <1>p DEF EvidenceInv
<1>r. prep[p].round \in 0..MaxNesting /\ MaxNesting \in Nat
  BY <1>q, PreparationAssumption DEF PrepType
<1>u. UNCHANGED <<evidence, held, torn>>
  BY DEF Rescan, disk
<1>0. prep[p].pc = "rescan"
  BY DEF Rescan
<1>s. /\ Reach' = Reach
      /\ \A c : Members(c)' = Members(c)
      /\ \A S, K : OfKind(S, K)' = OfKind(S, K)
  BY <1>u, SameEvidence
<1>t. Settled' = Settled
  BY <1>u DEF Settled, Shows, OfKind, evidence
<1>b. PICK info \in Detect(OnDisk) :
       \/ /\ Pending(p, info) = {} \/ prep[p].round = MaxNesting
          /\ prep' = [prep EXCEPT ![p] = [prep[p] EXCEPT !.pc = "record"]]
       \/ /\ prep[p].round # MaxNesting
          /\ prep' = [prep EXCEPT ![p] = [prep[p] EXCEPT !.pc = "derive",
                            !.todo = Pending(p, info), !.round = prep[p].round + 1]]
  BY RescanCases
<1>1. CASE /\ Pending(p, info) = {} \/ prep[p].round = MaxNesting
           /\ prep' = [prep EXCEPT ![p] = [prep[p] EXCEPT !.pc = "record"]]
  <2>1. prep' = [prep EXCEPT ![p] = [prep[p] EXCEPT !.pc = "record"]]
    BY <1>1
  <2>2. /\ prep'[p].pc = "record" /\ prep'[p].beside = prep[p].beside
        /\ prep'[p].todo = prep[p].todo /\ prep'[p].done = prep[p].done
    BY <1>p, <2>1 DEF PrepType
  <2>3. ASSUME Deriving(p)' PROVE Searched(p)'
    <3>1. Searched(p)
      BY <1>0, <1>q, <2>2, <2>3 DEF PrepInv, Deriving
    <3>2. Settled \/ Reach[MaxNesting] \subseteq held
      <4>1. CASE prep[p].round = MaxNesting
        BY <1>0, <3>1, <4>1 DEF Searched
      <4>2. CASE Pending(p, info) = {}
        <5> SUFFICES ASSUME ~Settled PROVE Reach[MaxNesting] \subseteq held
          OBVIOUS
        <5>1. torn = {} /\ Top \in prep[p].done /\ \A c \in prep[p].done : Members(c) \subseteq held
          BY <1>0, <3>1 DEF Searched
        <5>2. OnDisk = held
          BY <5>1 DEF OnDisk
        <5>3. NestedContainers(held, info) = OfKind(held, Container)
          BY <5>2, AllContainers DEF Settled
        <5>4. OfKind(held, Container) \subseteq prep[p].done
          BY <4>2, <5>2, <5>3 DEF Pending
        <5>5. \A n \in 0..MaxNesting : Reach[n] \subseteq held
          BY <5>1, <5>4, ClosedIsAll
        <5> QED BY <1>r, <5>5
      <4> QED BY <1>1, <4>1, <4>2
    <3> QED BY <1>s, <1>t, <1>u, <2>2, <3>1, <3>2 DEF Searched
  <2> QED BY <2>3 DEF PrepInv
<1>2. CASE /\ prep[p].round # MaxNesting
           /\ prep' = [prep EXCEPT ![p] = [prep[p] EXCEPT !.pc = "derive",
                            !.todo = Pending(p, info), !.round = prep[p].round + 1]]
  <2>1. prep' = [prep EXCEPT ![p] = [prep[p] EXCEPT !.pc = "derive", !.todo = Pending(p, info),
                                                    !.round = prep[p].round + 1]]
    BY <1>2
  <2>2. /\ prep'[p].pc = "derive" /\ prep'[p].beside = prep[p].beside
        /\ prep'[p].todo = Pending(p, info) /\ prep'[p].done = prep[p].done
        /\ prep'[p].round = prep[p].round + 1
    BY <1>p, <2>1 DEF PrepType
  <2>3. ASSUME Deriving(p)' PROVE Searched(p)'
    <3>1. Searched(p)
      BY <1>0, <1>q, <2>2, <2>3 DEF PrepInv, Deriving
    <3>2. /\ torn = {} /\ Top \in prep[p].done
          /\ \A c \in prep[p].done : Members(c) \subseteq held
          /\ Settled \/ Reach[prep[p].round] \subseteq held
      BY <1>0, <3>1 DEF Searched
    <3>3. prep'[p].round - 1 = prep[p].round
      BY <1>r, <2>2
    <3>4. \/ Settled
          \/ OfKind(Reach[prep[p].round], Container) \subseteq prep[p].done \cup Pending(p, info)
      <4> SUFFICES ASSUME ~Settled
                   PROVE  OfKind(Reach[prep[p].round], Container)
                            \subseteq prep[p].done \cup Pending(p, info)
        OBVIOUS
      <4>2. OnDisk = held
        BY <3>2 DEF OnDisk
      <4>1. NestedContainers(held, info) = OfKind(held, Container)
        BY <4>2, AllContainers DEF Settled
      <4>3. OfKind(Reach[prep[p].round], Container) \subseteq OfKind(held, Container)
        BY <3>2 DEF OfKind
      <4> QED BY <4>1, <4>2, <4>3 DEF Pending
    <3> QED BY <1>s, <1>t, <1>u, <2>2, <3>2, <3>3, <3>4 DEF Searched
  <2> QED BY <2>3 DEF PrepInv
<1> QED BY <1>b, <1>1, <1>2

\* A call that ends, or opens something beside the logs, derives nothing.
LEMMA SearchEnds ==
  ASSUME EvidenceInv, NEW p \in Preps,
         \/ Record(p) \/ SaveHost(p) \/ PrepDies(p)
         \/ \E c \in Items : DeriveRefused(p, c) \/ DeriveStops(p, c)
  PROVE  PrepInv(p)' /\ ~Deriving(p)'
<1>p. prep \in [Preps -> PrepType]
  BY DEF EvidenceInv, PrepTypeOK, PrepType
<1>q. prep[p] \in PrepType /\ PrepInv(p)
  BY <1>p DEF EvidenceInv
<1>1. CASE Record(p)
  <2>1. \/ prep' = [prep EXCEPT ![p] = Idle]
        \/ prep' = [prep EXCEPT ![p] = [prep[p] EXCEPT !.pc = "host"]]
    BY <1>1, <1>p DEF Record
  <2>2. prep'[p].pc \in {"idle", "host"}
    BY <1>p, <2>1, IdleType DEF PrepType
  <2> QED BY <2>2 DEF PrepInv, Deriving
<1>2. CASE ~Record(p)
  <2>1. prep' = [prep EXCEPT ![p] = Idle]
    BY <1>2 DEF SaveHost, PrepDies, DeriveRefused, DeriveStops
  <2>2. prep'[p].pc = "idle"
    BY <1>p, <2>1, IdleType
  <2> QED BY <2>2 DEF PrepInv, Deriving
<1> QED BY <1>1, <1>2

\* What is recorded.
LEMMA RecordFacts ==
  ASSUME NEW p \in Preps, Record(p)
  PROVE  /\ prep[p].pc = "record" /\ held' = held
         /\ record'.derived = ~prep[p].beside
         /\ ~prep[p].beside => /\ record'.items = OnDisk
                               /\ \E info \in Detect(OnDisk) : record'.found = info.kind
<1> DEFINE base == IF prep[p].beside THEN Sources ELSE OnDisk
<1>1. PICK info \in Detect(base) :
        record' = [derived |-> ~prep[p].beside, items |-> OnDisk \cup base,
                   found |-> info.kind, opened |-> prep[p].done]
  BY DEF Record
<1>2. prep[p].pc = "record" /\ held' = held
  BY DEF Record, disk
<1>3. /\ record'.derived = ~prep[p].beside /\ record'.items = OnDisk \cup base
      /\ record'.found = info.kind
  BY <1>1
<1>4. ~prep[p].beside => base = OnDisk
  OBVIOUS
<1> HIDE DEF base
<1> QED BY <1>2, <1>3, <1>4

\* The record is written after the search.
LEMMA RecordStep ==
  ASSUME EvidenceInv, NEW p \in Preps, PrepStep(p) PROVE Recorded'
<1>q. PrepInv(p) /\ Recorded
  BY DEF EvidenceInv
<1>u. UNCHANGED evidence
  BY DEF PrepStep, PrepareBegin, Rescan, Record, SaveHost, PrepDies, Derive, DeriveRefused,
         DeriveStops
<1>s. Reach' = Reach /\ crowded' = crowded /\ \A S, K : OfKind(S, K)' = OfKind(S, K)
  BY <1>u, SameEvidence DEF evidence
<1>1. CASE ~Record(p)
  <2>1. record' = record
    BY <1>1 DEF PrepStep, PrepareBegin, Rescan, SaveHost, PrepDies, Derive, DeriveRefused,
                DeriveStops
  <2> QED BY <1>q, <1>s, <2>1 DEF Recorded
<1>2. CASE Record(p)
  <2> SUFFICES ASSUME record'.derived, ~crowded, OfKind(Reach[MaxNesting], Useful) # {}
               PROVE  record'.found # "unknown"
    BY <1>s DEF Recorded
  <2>1. prep[p].pc = "record" /\ ~prep[p].beside
    BY <1>2, RecordFacts
  <2>2. torn = {} /\ (Settled \/ Reach[MaxNesting] \subseteq held)
    BY <1>q, <2>1 DEF PrepInv, Deriving, Searched
  <2>3. OnDisk = held
    BY <2>2 DEF OnDisk
  <2>4. PICK info \in Detect(held) : record'.found = info.kind
    BY <1>2, <2>1, <2>3, RecordFacts
  <2>5. Shows(held)
    <3>1. CASE Reach[MaxNesting] \subseteq held
      BY <3>1 DEF Shows, OfKind
    <3> QED BY <2>2, <3>1 DEF Settled
  <2> QED BY <2>4, <2>5, UsableIsFound
<1> QED BY <1>1, <1>2

\* What is recorded of derived evidence lies whole on disk.
LEMMA RecordWhole ==
  ASSUME EvidenceInv, NEW p \in Preps, Record(p), record'.derived
  PROVE  record'.items \subseteq held'
<1>1. prep[p].pc = "record" /\ ~prep[p].beside /\ record'.items = OnDisk /\ held' = held
  BY RecordFacts
<1>2. torn = {}
  BY <1>1 DEF EvidenceInv, PrepInv, Deriving, Searched
<1> QED BY <1>1, <1>2 DEF OnDisk

\* The folder is wiped only while nobody prepares.
LEMMA WipeStep == ASSUME EvidenceInv, Wipe PROVE EvidenceInv'
<1>u. UNCHANGED <<evidence, record, prep>> /\ held' = {} /\ torn' = {} /\ content' = FALSE
  BY DEF Wipe
<1>s. Reach' = Reach /\ crowded' = crowded /\ \A S, K : OfKind(S, K)' = OfKind(S, K)
  BY <1>u, SameEvidence DEF evidence
<1>1. PrepTypeOK'
  BY <1>u DEF EvidenceInv, PrepTypeOK, Wipe
<1>2. ASSUME NEW p \in Preps PROVE PrepInv(p)'
  <2>1. prep'[p].pc = "idle"
    BY <1>u DEF Wipe, Resting
  <2> QED BY <2>1 DEF PrepInv, Deriving
<1>3. Recorded'
  BY <1>s, <1>u DEF EvidenceInv, Recorded
<1> QED BY <1>1, <1>2, <1>3 DEF EvidenceInv

\* Every step of the only preparation keeps its invariant.
LEMMA EvidenceStep == ASSUME OnePrep, EvidenceInv, PrepNext PROVE EvidenceInv'
<1>1. ASSUME NEW p \in Preps, PrepStep(p) PROVE EvidenceInv'
  <2>1. PrepTypeOK'
    BY <1>1, PrepTypeStep DEF EvidenceInv
  <2>2. PrepInv(p)'
    BY <1>1, SearchBegins, SearchOpens, SearchRescans, SearchEnds DEF PrepStep
  <2>3. \A q \in Preps : PrepInv(q)'
    BY <2>2 DEF OnePrep
  <2>4. Recorded'
    BY <1>1, RecordStep
  <2> QED BY <2>1, <2>3, <2>4 DEF EvidenceInv
<1> QED BY <1>1, WipeStep DEF PrepNext, PrepStep

\* A step that leaves the preparation alone keeps its invariant.
LEMMA EvidenceSame == ASSUME EvidenceInv, UNCHANGED prepvars PROVE EvidenceInv'
<1>u. UNCHANGED <<evidence, held, torn, content, record, hosted, prep>>
  BY DEF prepvars, disk
<1>s. /\ Reach' = Reach /\ crowded' = crowded
      /\ \A c : Members(c)' = Members(c)
      /\ \A S, K : OfKind(S, K)' = OfKind(S, K)
  BY <1>u, SameEvidence DEF evidence
<1>1. PrepTypeOK'
  BY <1>u DEF EvidenceInv, PrepTypeOK
<1>2. Settled' = Settled
  BY <1>u DEF Settled, Shows, OfKind, evidence
<1>3. ASSUME NEW p \in Preps PROVE PrepInv(p)'
  <2>1. PrepInv(p)
    BY DEF EvidenceInv
  <2>2. Deriving(p)' = Deriving(p) /\ (Searched(p) => Searched(p)')
    BY <1>s, <1>u, <1>2 DEF Deriving, Searched
  <2> QED BY <1>s, <1>u, <2>1, <2>2 DEF PrepInv
<1>4. Recorded'
  BY <1>s, <1>u DEF EvidenceInv, Recorded
<1> QED BY <1>1, <1>3, <1>4 DEF EvidenceInv

\* Every step of a step run leaves the preparation alone.
LEMMA StepNextSame == ASSUME StepNext PROVE UNCHANGED <<prepvars, step, engine, avail, outputs>>
BY DEF StepNext, StepBegin, NextLocation, SkipCandidate, CandidateCompletes, CandidateFails,
       NoneSucceeded, StepEnd

\* With one preparation at a time its invariant always holds.
THEOREM EvidenceInvHolds == ASSUME OnePrep PROVE Spec => []EvidenceInv
<1>1. Init => EvidenceInv
  BY EvidenceInit DEF Init
<1>2. EvidenceInv /\ [Next]_vars => EvidenceInv'
  <2> SUFFICES ASSUME EvidenceInv, [Next]_vars PROVE EvidenceInv'
    OBVIOUS
  <2>1. CASE PrepNext
    BY <2>1, EvidenceStep
  <2>2. CASE UNCHANGED prepvars
    BY <2>2, EvidenceSame
  <2> QED BY <2>1, <2>2, StepNextSame DEF Next, vars
<1> QED BY <1>1, <1>2, PTL DEF Spec

\* Type correctness of the preparation, with any number of processes.
THEOREM PreparationTypes == Spec => []PrepTypeOK
<1>1. Init => PrepTypeOK
  BY PrepTypeInit DEF Init
<1>2. PrepTypeOK /\ [Next]_vars => PrepTypeOK'
  <2> SUFFICES ASSUME PrepTypeOK, [Next]_vars PROVE PrepTypeOK'
    OBVIOUS
  <2>1. CASE PrepNext
    <3>1. CASE Wipe
      BY <3>1 DEF Wipe, PrepTypeOK
    <3> QED BY <2>1, <3>1, PrepTypeStep DEF PrepNext, PrepStep
  <2>2. CASE UNCHANGED prepvars
    BY <2>2 DEF prepvars, disk, PrepTypeOK
  <2> QED BY <2>1, <2>2, StepNextSame DEF Next, vars
<1> QED BY <1>1, <1>2, PTL DEF Spec

\* When the record of derived evidence is written, all it tells the profile steps
\* to read lies whole in the workspace, whatever failed or killed preparations
\* have left there (prepare.py:151, 234): RecordIsWhole, with one preparation.
THEOREM RecordsAreWhole == ASSUME OnePrep PROVE Spec => RecordIsWhole
<1>1. EvidenceInv /\ [Next]_vars =>
        [\A p \in Preps : Record(p) => (record'.derived => record'.items \subseteq held')]_prepvars
  BY RecordWhole
<1> QED BY <1>1, EvidenceInvHolds, PTL DEF Spec, RecordIsWhole

\* A tree or artifacts at most MaxNesting containers deep are found, however the
\* containers are nested (prepare.py:155) and however deep in its folder the tree
\* lies, unless the search is cut off after MAX_ENTRIES entries.
THEOREM WhatIsThereIsFound == ASSUME OnePrep PROVE Spec => []FindsWhatIsThere
<1>1. EvidenceInv => FindsWhatIsThere
  BY DEF EvidenceInv, Recorded, FindsWhatIsThere, Useful
<1> QED BY <1>1, EvidenceInvHolds, PTL

(***************************************************************************)
(* What a profile step covers.                                             *)
(***************************************************************************)
Goals == IF Input = {} THEN {Nowhere} ELSE Input

\* A location is still to be tried, or was parsed, alone or with the target.
Covered(l) == l \in run.todo \/ l = run.at \/ parsed["target"] > 0 \/ (l # Nowhere /\ parsed[l] > 0)

RunShape ==
  run = [pc |-> run.pc, todo |-> run.todo, at |-> run.at, left |-> run.left, ran |-> run.ran,
         dissect |-> run.dissect, failures |-> run.failures, attempt |-> run.attempt]

\* No location of a call that has not failed is forgotten.
Underway ==
  /\ step # None /\ record # None
  /\ run.todo \subseteq Goals /\ run.at \in Goals \cup {None}
  /\ run.dissect => parsed["target"] > 0
  /\ run.failures = {} => \A l \in Goals : Covered(l)

\* The inductive invariant of the step.
StepInv ==
  /\ RunShape
  /\ step \in Steps \cup {None} /\ outputs \subseteq {"output"}
  /\ parsed \in [Places -> Nat]
  /\ run.pc = "off" => run.at = None /\ ~run.dissect
  /\ run.pc = "try" => Underway
  /\ StepCovers

CoverInv == PrepTypeOK /\ StepInv

\* The locations of a selector are places of the evidence.
LEMMA LocationsArePlaces ==
  ASSUME PrepTypeOK, record # None, outputs \subseteq {"output"}, NEW s \in Selector
  PROVE  Locations(s) \subseteq Places
<1>1. record.items \subseteq Items
  BY DEF PrepTypeOK
<1>2. OfKind(record.items, {"logs", "tree"}) \subseteq Items
  BY <1>1 DEF OfKind
<1> QED BY <1>2 DEF Locations, Places, Selector

\* So are the goals of a step, which are never None.
LEMMA GoalsArePlaces ==
  ASSUME PrepTypeOK, record # None, outputs \subseteq {"output"}, step \in Steps
  PROVE  /\ Goals \subseteq Places \cup {Nowhere} /\ None \notin Goals
         /\ Nowhere \in Goals => Input = {}
<1>1. step.input \in Selector /\ (step.fallback = None \/ step.fallback \in Selector)
  BY StepAssumption
<1>2. Input \subseteq Places
  BY <1>1, LocationsArePlaces DEF Input
<1>3. Nowhere \notin Places /\ None \notin Places \cup {Nowhere}
  BY PlacesApart DEF Places, Nowhere
<1> QED BY <1>2, <1>3 DEF Goals

\* The locations of a step do not change while it runs.
LEMMA GoalsKept ==
  ASSUME StepNext
  PROVE  Goals' = Goals /\ Input' = Input /\ \A s : Locations(s)' = Locations(s)
<1>1. UNCHANGED <<kind, record, step, engine, outputs>>
  BY StepNextSame DEF prepvars, evidence
<1>2. Candidates' = Candidates
  BY <1>1 DEF Candidates
<1>3. Located' = Located
  BY <1>2 DEF Located
<1>4. \A s : Locations(s)' = Locations(s)
  BY <1>1 DEF Locations, OfKind
<1>5. Input' = Input
  BY <1>1, <1>3, <1>4 DEF Input
<1> QED BY <1>4, <1>5 DEF Goals

\* Every step of run_step keeps its invariant.
LEMMA StepSteps ==
  ASSUME CoverInv, StepNext PROVE StepInv'
<1>s. RunShape /\ parsed \in [Places -> Nat] /\ step \in Steps \cup {None}
      /\ outputs \subseteq {"output"}
  BY DEF CoverInv, StepInv
<1>t. run.pc = "try" =>
        /\ step # None /\ record # None
        /\ run.todo \subseteq Goals /\ run.at \in Goals \cup {None}
        /\ run.dissect => parsed["target"] > 0
        /\ run.failures = {} => \A l \in Goals : Covered(l)
  BY DEF CoverInv, StepInv, Underway
<1>k. /\ Goals' = Goals /\ Input' = Input
      /\ UNCHANGED <<step, engine, outputs, record>>
  BY GoalsKept, StepNextSame DEF prepvars
<1>g. step # None /\ record # None =>
        /\ Goals \subseteq Places \cup {Nowhere} /\ None \notin Goals
        /\ Nowhere \in Goals => Input = {}
  BY GoalsArePlaces DEF CoverInv, StepInv
<1>n. Nowhere \notin Places /\ "target" \in Places
  BY PlacesApart DEF Places, Nowhere
<1>0. ASSUME RunShape', parsed' \in [Places -> Nat], StepCovers',
             run'.pc = "off" => run'.at = None /\ ~run'.dissect,
             run'.pc = "try" =>
               /\ step # None /\ record # None
               /\ run'.todo \subseteq Goals /\ run'.at \in Goals \cup {None}
               /\ run'.dissect => parsed'["target"] > 0
               /\ run'.failures = {} => \A l \in Goals : Covered(l)'
      PROVE  StepInv'
  <2>1. run'.pc = "try" => Underway'
    BY <1>0, <1>k DEF Underway
  <2> QED BY <1>0, <1>k, <1>s, <2>1 DEF StepInv
<1>c. ASSUME run'.pc # "completed" PROVE StepCovers'
  BY <1>c DEF StepCovers
<1>1. CASE StepBegin
  <2>1. run.pc = "off" /\ step # None /\ record # None /\ parsed' = parsed
    BY <1>1 DEF StepBegin
  <2>2. run.at = None /\ ~run.dissect
    BY <2>1 DEF CoverInv, StepInv
  <2>3. \/ run' = End("skipped", run)
        \/ run' = [run EXCEPT !.pc = "try", !.todo = Goals]
    BY <1>1 DEF StepBegin, Goals
  <2>4. CASE run' = End("skipped", run)
    <3>1. RunShape' /\ run'.pc = "skipped"
      BY <1>s, <2>4 DEF RunShape, End
    <3> QED BY <1>0, <1>c, <1>s, <2>1, <3>1
  <2>5. CASE run' = [run EXCEPT !.pc = "try", !.todo = Goals]
    <3>1. /\ RunShape' /\ run'.pc = "try" /\ run'.todo = Goals /\ run'.at = run.at
          /\ run'.dissect = run.dissect
      BY <1>s, <2>5 DEF RunShape
    <3>2. \A l \in Goals : Covered(l)'
      BY <3>1 DEF Covered
    <3> QED BY <1>0, <1>c, <1>s, <2>1, <2>2, <3>1, <3>2
  <2> QED BY <2>3, <2>4, <2>5
<1>2. CASE NextLocation
  <2>1. run.pc = "try" /\ run.at = None /\ ~run.dissect /\ parsed' = parsed
    BY <1>2 DEF NextLocation
  <2>2. PICK l \in run.todo :
          run' = [run EXCEPT !.at = l, !.todo = run.todo \ {l}, !.left = Candidates]
    BY <1>2 DEF NextLocation
  <2>3. /\ RunShape' /\ run'.pc = "try" /\ run'.todo = run.todo \ {l} /\ run'.at = l
        /\ run'.dissect = run.dissect /\ run'.failures = run.failures
    BY <1>s, <2>1, <2>2 DEF RunShape
  <2>4. ASSUME NEW m, Covered(m), m # None PROVE Covered(m)'
    BY <2>1, <2>3, <2>4 DEF Covered
  <2>5. run'.failures = {} => \A m \in Goals : Covered(m)'
    BY <1>g, <1>t, <2>1, <2>3, <2>4
  <2> QED BY <1>0, <1>c, <1>s, <1>t, <2>1, <2>3, <2>5
<1>3. CASE SkipCandidate
  <2>1. run.pc = "try" /\ parsed' = parsed
    BY <1>3 DEF SkipCandidate, Trying
  <2>2. PICK x, y : run' = [run EXCEPT !.left = x, !.ran = y]
    BY <1>3 DEF SkipCandidate
  <2>3. /\ RunShape' /\ run'.pc = "try" /\ run'.todo = run.todo /\ run'.at = run.at
        /\ run'.dissect = run.dissect /\ run'.failures = run.failures
    BY <1>s, <2>1, <2>2 DEF RunShape
  <2>4. run'.failures = {} => \A m \in Goals : Covered(m)'
    BY <1>t, <2>1, <2>3 DEF Covered
  <2> QED BY <1>0, <1>c, <1>s, <1>t, <2>1, <2>3, <2>4
<1>4. CASE CandidateCompletes
  <2>1. run.pc = "try" /\ run.at # None /\ Target # {}
    BY <1>4 DEF CandidateCompletes, Trying
  <2>2. parsed' = [x \in Places |-> IF x \in Target THEN parsed[x] + 1 ELSE parsed[x]]
    BY <1>4 DEF CandidateCompletes
  <2>3. /\ parsed' \in [Places -> Nat]
        /\ \A x \in Places : parsed'[x] >= parsed[x]
        /\ \A x \in Places \cap Target : parsed'[x] > 0
    <3>1. \A x \in Places : parsed[x] \in Nat
      BY <1>s
    <3>2. \A x \in Places : parsed'[x] = IF x \in Target THEN parsed[x] + 1 ELSE parsed[x]
      BY <2>2
    <3> QED BY <2>2, <3>1, <3>2
  <2>4. PICK d, y : /\ run' = [run EXCEPT !.at = None, !.left = <<>>, !.dissect = d, !.ran = y]
                    /\ d = (run.dissect \/ Head(run.left) = "dissect")
    BY <1>4 DEF CandidateCompletes
  <2>5. /\ RunShape' /\ run'.pc = "try" /\ run'.todo = run.todo /\ run'.at = None
        /\ run'.dissect = d /\ run'.failures = run.failures
    BY <1>s, <2>1, <2>4 DEF RunShape
  <2>6. Head(run.left) = "dissect" => parsed'["target"] > 0
    <3>1. Head(run.left) = "dissect" => Target = {"target"}
      BY <2>1 DEF Target, Locations
    <3> QED BY <3>1, <2>3, <1>n
  <2>7. run'.dissect => parsed'["target"] > 0
    <3>1. parsed["target"] \in Nat /\ parsed'["target"] \in Nat /\ parsed'["target"] >= parsed["target"]
      BY <1>s, <1>n, <2>3
    <3>2. run.dissect => parsed["target"] > 0
      BY <1>t, <2>1
    <3>3. run.dissect => parsed'["target"] > 0
      BY <3>1, <3>2
    <3> QED BY <2>4, <2>5, <2>6, <3>3
  <2>8. ASSUME NEW l \in Goals, Covered(l) PROVE Covered(l)'
    <3>1. l \in Places \cup {Nowhere}
      BY <1>g, <1>t, <2>1
    <3>2. CASE l \in run.todo
      BY <3>2, <2>5 DEF Covered
    <3>3. CASE parsed["target"] > 0
      <4>1. parsed'["target"] >= parsed["target"] /\ parsed["target"] \in Nat /\ parsed'["target"] \in Nat
        BY <1>s, <1>n, <2>3
      <4>2. parsed'["target"] > 0
        BY <4>1, <3>3
      <4> QED BY <4>2 DEF Covered
    <3>4. CASE l # Nowhere /\ parsed[l] > 0
      <4>1. parsed'[l] >= parsed[l] /\ parsed[l] \in Nat /\ parsed'[l] \in Nat
        BY <1>s, <3>1, <3>4, <2>3
      <4>2. parsed'[l] > 0
        BY <4>1, <3>4
      <4> QED BY <4>2, <3>4 DEF Covered
    <3>5. CASE l = run.at
      <4>1. CASE Head(run.left) = "dissect"
        BY <4>1, <2>6 DEF Covered
      <4>2. CASE Head(run.left) # "dissect"
        <5>1. Target = {run.at} \ {Nowhere}
          BY <4>2 DEF Target
        <5>2. run.at # Nowhere /\ run.at \in Target
          BY <5>1, <2>1
        <5>3. parsed'[l] > 0
          BY <5>2, <3>5, <3>1, <2>3
        <5> QED BY <5>2, <5>3, <3>5 DEF Covered
      <4> QED BY <4>1, <4>2
    <3> QED BY <2>8, <3>2, <3>3, <3>4, <3>5 DEF Covered
  <2> QED BY <1>0, <1>c, <1>t, <2>1, <2>3, <2>5, <2>7, <2>8
<1>5. CASE CandidateFails
  <2>1. run.pc = "try" /\ run.at # None /\ parsed' = parsed
    BY <1>5 DEF CandidateFails, Trying
  <2>2. PICK x, y, r : /\ r = [run EXCEPT !.left = x, !.ran = y]
                       /\ run' = IF step.action
                                 THEN [r EXCEPT !.at = None, !.todo = {}, !.left = <<>>,
                                                !.failures = r.failures \cup {run.at}]
                                 ELSE r
    <3> DEFINE q == [run EXCEPT !.left = Tail(run.left),
                                !.ran = run.ran \cup {Attempt("failed")}]
    <3>1. run' = IF step.action
                 THEN [q EXCEPT !.at = None, !.todo = {}, !.left = <<>>,
                                !.failures = q.failures \cup {run.at}]
                 ELSE q
      BY Zenon, <1>5 DEF CandidateFails
    <3> WITNESS Tail(run.left), run.ran \cup {Attempt("failed")}, q
    <3> HIDE DEF q
    <3> QED BY Zenon, <3>1 DEF q
  <2>3. /\ r.pc = "try" /\ r.todo = run.todo /\ r.at = run.at
        /\ r.dissect = run.dissect /\ r.failures = run.failures
        /\ r = [pc |-> r.pc, todo |-> r.todo, at |-> r.at, left |-> r.left, ran |-> r.ran,
                dissect |-> r.dissect, failures |-> r.failures, attempt |-> r.attempt]
    BY <1>s, <2>1, <2>2 DEF RunShape
  <2>4. run' = IF step.action
               THEN [r EXCEPT !.at = None, !.todo = {}, !.left = <<>>,
                              !.failures = r.failures \cup {run.at}]
               ELSE r
    BY <2>2
  <2>5. CASE step.action
    <3>1. run' = [r EXCEPT !.at = None, !.todo = {}, !.left = <<>>,
                           !.failures = r.failures \cup {run.at}]
      BY <2>4, <2>5
    <3>2. /\ RunShape' /\ run'.pc = "try" /\ run'.todo = {} /\ run'.at = None
          /\ run'.dissect = r.dissect /\ run'.failures = r.failures \cup {run.at}
      BY <2>3, <3>1 DEF RunShape
    <3>3. run'.dissect = run.dissect /\ run'.failures # {}
      BY <2>3, <3>2
    <3> QED BY <1>0, <1>c, <1>s, <1>t, <2>1, <3>2, <3>3
  <2>6. CASE ~step.action
    <3>1. run' = r
      BY <2>4, <2>6
    <3>2. RunShape'
      BY <2>3, <3>1 DEF RunShape
    <3>3. /\ run'.pc = "try" /\ run'.todo = run.todo /\ run'.at = run.at
          /\ run'.dissect = run.dissect /\ run'.failures = run.failures
      BY <2>3, <3>1
    <3>4. run'.failures = {} => \A m \in Goals : Covered(m)'
      BY <1>t, <2>1, <3>3 DEF Covered
    <3> QED BY <1>0, <1>c, <1>s, <1>t, <2>1, <3>2, <3>3, <3>4
  <2> QED BY <2>5, <2>6
<1>6. CASE NoneSucceeded
  <2>1. run.pc = "try" /\ parsed' = parsed
        /\ run' = [run EXCEPT !.at = None, !.failures = run.failures \cup {run.at}]
    BY <1>6 DEF NoneSucceeded
  <2>2. /\ RunShape' /\ run'.pc = "try" /\ run'.todo = run.todo /\ run'.at = None
        /\ run'.dissect = run.dissect /\ run'.failures # {}
    BY <1>s, <2>1 DEF RunShape
  <2> QED BY <1>0, <1>c, <1>s, <1>t, <2>1, <2>2
<1>7. CASE StepEnd
  <2>1. run.pc = "try" /\ run.at = None /\ (run.todo = {} \/ run.dissect) /\ parsed' = parsed
    BY <1>7 DEF StepEnd
  <2>2. PICK v : /\ v = Verdict
                 /\ run' = Off(run.attempt + 1) \/ run' = End(v, run)
    BY <1>7 DEF StepEnd
  <2>3. /\ v \in {"skipped", "failed", "completed"}
        /\ v = "completed" => run.failures = {}
    BY <2>2 DEF Verdict
  <2>4. CASE run' = Off(run.attempt + 1)
    <3>1. RunShape' /\ run'.pc = "off" /\ run'.at = None /\ ~run'.dissect
      BY <2>4 DEF RunShape, Off
    <3> QED BY <1>0, <1>c, <1>s, <2>1, <3>1
  <2>5. CASE run' = End(v, run)
    <3>1. RunShape' /\ run'.pc = v
      BY <1>s, <2>5 DEF RunShape, End
    <3>2. ASSUME v = "completed" PROVE StepCovers'
      <4>1. run.failures = {}
        BY <3>2, <2>3
      <4>2. \A l \in Goals : Covered(l)
        BY <4>1, <1>t, <2>1
      <4>3. None \notin Goals /\ (Nowhere \in Goals => Input = {})
        BY <1>g, <1>t, <2>1
      <4>4. run.dissect => parsed["target"] > 0
        BY <1>t, <2>1
      <4>5. parsed["target"] > 0 \/ \A l \in Goals : l # Nowhere /\ parsed[l] > 0
        BY <4>2, <4>3, <4>4, <2>1 DEF Covered
      <4>6. parsed["target"] > 0 \/ (Input # {} /\ \A l \in Input : parsed[l] > 0)
        BY <4>5 DEF Goals
      <4> QED BY <4>6, <1>k, <2>1 DEF StepCovers
    <3>3. StepCovers'
      BY <3>1, <3>2, <1>c
    <3> QED BY <1>0, <1>s, <2>1, <2>3, <3>1, <3>3
  <2> QED BY <2>2, <2>4, <2>5
<1> QED BY <1>1, <1>2, <1>3, <1>4, <1>5, <1>6, <1>7 DEF StepNext

\* While the preparation writes the record, no step has begun.
LEMMA StepWaits ==
  ASSUME StepInv, run.pc = "off", UNCHANGED stepvars PROVE StepInv'
<1>1. UNCHANGED <<step, engine, outputs, run, parsed>>
  BY DEF stepvars
<1>2. RunShape'
  BY <1>1 DEF StepInv, RunShape
<1>3. StepCovers' /\ (run'.pc = "try" => Underway')
  BY <1>1 DEF StepCovers
<1> QED BY <1>1, <1>2, <1>3 DEF StepInv

\* A stuttering step keeps the invariant.
LEMMA StepStutters ==
  ASSUME StepInv, UNCHANGED vars PROVE StepInv'
<1>1. UNCHANGED <<prepvars, step, engine, avail, outputs, run, parsed>>
  BY DEF vars, stepvars
<1>2. UNCHANGED <<kind, record>>
  BY <1>1 DEF prepvars, evidence
<1>3. Candidates' = Candidates /\ \A s : Locations(s)' = Locations(s)
  BY <1>1, <1>2 DEF Candidates, Locations, OfKind
<1>4. Located' = Located
  BY <1>3 DEF Located
<1>5. Input' = Input /\ Goals' = Goals
  BY <1>1, <1>3, <1>4 DEF Input, Goals
<1>6. RunShape' /\ StepCovers'
  BY <1>1, <1>5 DEF StepInv, RunShape, StepCovers
<1>7. Underway => Underway'
  BY <1>1, <1>2, <1>5 DEF Underway, Covered
<1> QED BY <1>1, <1>6, <1>7 DEF StepInv

\* No step has begun in the first state.
LEMMA StepInitInv == ASSUME Init PROVE StepInv
<1>1. run = Off(1) /\ step \in Steps \cup {None} /\ parsed = [x \in Places |-> 0]
  BY DEF Init, StepInit
<1>2. outputs \subseteq {"output"}
  BY DEF Init, StepInit
<1>3. RunShape /\ run.pc = "off" /\ run.at = None /\ ~run.dissect
  BY <1>1 DEF RunShape, Off
<1> QED BY <1>1, <1>2, <1>3 DEF StepInv, StepCovers

\* A step is completed only when each of its locations was parsed, or the
\* target that holds them all: StepCovers, for every evidence and profile.
THEOREM StepsCover == Spec => []StepCovers
<1>1. Init => StepInv
  BY StepInitInv
<1>2. ASSUME PrepTypeOK, StepInv, [Next]_vars PROVE StepInv'
  <2>1. CASE StepNext
    BY <1>2, <2>1, StepSteps DEF CoverInv
  <2>2. CASE run = Off(1) /\ PrepNext /\ UNCHANGED stepvars
    BY <1>2, <2>2, StepWaits DEF Off
  <2>3. CASE UNCHANGED vars
    BY <1>2, <2>3, StepStutters
  <2> QED BY <1>2, <2>1, <2>2, <2>3 DEF Next
<1>3. StepInv => StepCovers
  BY DEF StepInv
<1> QED BY <1>1, <1>2, <1>3, PreparationTypes, PTL DEF Spec
===============================================================================
