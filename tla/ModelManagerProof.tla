-------------------------- MODULE ModelManagerProof --------------------------
(***************************************************************************)
(* Theorems about the stack of loaded models, for any number of threads and  *)
(* models: what the manager keeps as long as its calls do not overlap.       *)
(***************************************************************************)
EXTENDS ModelManager, WellFoundedInduction, SequenceTheorems, TLAPS

-----------------------------------------------------------------------------
(* Sequences *)

\* Of the places that hold an element RemoveFirst takes one out.
LEMMA RemoveFirstTakes ==
  ASSUME NEW S, NEW s \in Seq(S), NEW e, e \in ToSet(s)
  PROVE  \E k \in 1..Len(s) :
            /\ s[k] = e
            /\ RemoveFirst(s, e) \in Seq(S)
            /\ Len(RemoveFirst(s, e)) = Len(s) - 1
            /\ \A i \in 1..(Len(s) - 1) :
                  RemoveFirst(s, e)[i] = IF i < k THEN s[i] ELSE s[i + 1]
<1> DEFINE I == {i \in 1..Len(s) : s[i] = e}
<1>0. Len(s) \in Nat /\ DOMAIN s = 1..Len(s)
  BY LenProperties
<1>1. I \in SUBSET Nat /\ I # {}
  BY <1>0 DEF ToSet
<1>2. PICK i \in I : \A j \in I : <<j, i>> \notin OpToRel(<, Nat)
  BY <1>1, WFMin, NatLessThanWellFounded
<1>3. ASSUME NEW j \in I PROVE i =< j
  <2>1. <<j, i>> \in Nat \X Nat /\ <<j, i>>[1] = j /\ <<j, i>>[2] = i
    BY <1>1
  <2>2. ~(<<j, i>>[1] < <<j, i>>[2])
    BY <1>2, <2>1 DEF OpToRel
  <2> QED
    BY <1>1, <2>1, <2>2
<1>4. Min(I) \in I
  BY <1>3 DEF Min
<1>5. RemoveFirst(s, e) = RemoveAt(s, Min(I))
  BY <1>1 DEF RemoveFirst, SelectInSeq
<1> HIDE DEF I
<1> DEFINE k == Min(I)
<1>6. k \in 1..Len(s) /\ s[k] = e
  BY <1>4 DEF I
<1> HIDE DEF k
<1> DEFINE a == SubSeq(s, 1, k - 1)
           b == SubSeq(s, k + 1, Len(s))
<1>7. a \in Seq(S) /\ Len(a) = k - 1 /\ \A n \in 1..(k - 1) : a[n] = s[n]
  BY <1>0, <1>6
<1>8. b \in Seq(S) /\ Len(b) = Len(s) - k /\ \A n \in 1..(Len(s) - k) : b[n] = s[k + n]
  <2>1. k + 1 \in Int /\ Len(s) \in Int /\ \A n \in (k + 1)..Len(s) : s[n] \in S
    BY <1>0, <1>6, ElementOfSeq
  <2>2. /\ b \in Seq(S) /\ Len(b) = IF k + 1 =< Len(s) THEN Len(s) - (k + 1) + 1 ELSE 0
        /\ \A n \in 1..(Len(s) - (k + 1) + 1) : b[n] = s[(k + 1) + n - 1]
    BY <2>1, SubSeqProperties
  <2> HIDE DEF b
  <2>3. \A n \in 1..(Len(s) - k) : n \in 1..(Len(s) - (k + 1) + 1) /\ (k + 1) + n - 1 = k + n
    BY <1>0, <1>6
  <2>4. \A n \in 1..(Len(s) - k) : b[n] = s[k + n]
    <3> SUFFICES ASSUME NEW n \in 1..(Len(s) - k) PROVE b[n] = s[k + n]
      OBVIOUS
    <3>1. b[n] = s[(k + 1) + n - 1]
      BY <2>2, <2>3
    <3> QED
      BY <2>3, <3>1
  <2>5. Len(b) = Len(s) - k
    <3>1. k \in Int /\ Len(s) \in Int /\ k =< Len(s)
      BY <1>0, <1>6
    <3>2. CASE k + 1 =< Len(s)
      BY <2>2, <3>1, <3>2
    <3>3. CASE ~(k + 1 =< Len(s))
      <4>1. k = Len(s)
        BY <3>1, <3>3
      <4> QED
        BY <2>2, <3>1, <3>3, <4>1
    <3> QED
      BY <3>2, <3>3
  <2> QED
    BY <2>2, <2>4, <2>5
<1>9. RemoveFirst(s, e) = a \o b
  BY <1>5 DEF RemoveAt, k
<1> HIDE DEF a, b
<1>10. /\ a \o b \in Seq(S) /\ Len(a \o b) = Len(s) - 1
       /\ \A n \in 1..(Len(s) - 1) : (a \o b)[n] = IF n < k THEN s[n] ELSE s[n + 1]
  <2>1. a \o b \in Seq(S) /\ Len(a \o b) = Len(s) - 1
    <3>1. a \o b \in Seq(S) /\ Len(a \o b) = Len(a) + Len(b)
      BY <1>7, <1>8, ConcatProperties
    <3> QED
      BY <1>0, <1>6, <1>7, <1>8, <3>1
  <2>2. ASSUME NEW n \in 1..(Len(s) - 1)
        PROVE  (a \o b)[n] = IF n < k THEN s[n] ELSE s[n + 1]
    <3>1. CASE n < k
      <4>1. n \in 1..Len(a) /\ n \in 1..(k - 1)
        BY <1>0, <1>6, <1>7, <3>1
      <4> QED
        BY <1>7, <1>8, <3>1, <4>1, ConcatProperties
    <3>2. CASE ~(n < k)
      <4>1. /\ n \in (Len(a) + 1)..(Len(a) + Len(b)) /\ n - Len(a) \in 1..(Len(s) - k)
            /\ k + (n - Len(a)) = n + 1
        BY <1>0, <1>6, <1>7, <1>8, <3>2
      <4>2. (a \o b)[n] = b[n - Len(a)]
        BY <1>0, <1>6, <1>7, <1>8, <4>1
      <4> QED
        BY <1>8, <3>2, <4>1, <4>2
    <3> QED
      BY <3>1, <3>2
  <2> QED
    BY <2>1, <2>2
<1> QED
  BY <1>6, <1>9, <1>10

\* What is not there stays away: the sequence is as it was.
LEMMA RemoveFirstMissing ==
  ASSUME NEW S, NEW s \in Seq(S), NEW e, e \notin ToSet(s)
  PROVE  RemoveFirst(s, e) = s
<1>1. ~ \E i \in 1..Len(s) : s[i] = e
  BY LenProperties DEF ToSet
<1> QED
  BY <1>1 DEF RemoveFirst

\* The elements from the smallest to the largest.
Ordered(s) == \A i, j \in DOMAIN s : i < j => s[i] < s[j]

\* A model that is in the ordered stack is there once.
LEMMA RemoveFromOrdered ==
  ASSUME NEW N \in Nat, NEW s \in Seq(1..N), Ordered(s), NEW e \in ToSet(s)
  PROVE  /\ RemoveFirst(s, e) \in Seq(1..N) /\ Ordered(RemoveFirst(s, e))
         /\ ToSet(RemoveFirst(s, e)) = ToSet(s) \ {e}
<1>1. PICK k \in 1..Len(s) :
         /\ s[k] = e
         /\ RemoveFirst(s, e) \in Seq(1..N)
         /\ Len(RemoveFirst(s, e)) = Len(s) - 1
         /\ \A i \in 1..(Len(s) - 1) :
               RemoveFirst(s, e)[i] = IF i < k THEN s[i] ELSE s[i + 1]
  BY RemoveFirstTakes
<1> DEFINE r == RemoveFirst(s, e)
<1>2. /\ Len(s) \in Nat /\ DOMAIN s = 1..Len(s) /\ \A i \in 1..Len(s) : s[i] \in 1..N
      /\ DOMAIN r = 1..(Len(s) - 1)
  BY <1>1, LenProperties, ElementOfSeq
<1> HIDE DEF r
<1>3. \A i \in 1..(Len(s) - 1) : r[i] = IF i < k THEN s[i] ELSE s[i + 1]
  BY <1>1 DEF r
<1>4. Ordered(r)
  <2> SUFFICES ASSUME NEW i \in 1..(Len(s) - 1), NEW j \in 1..(Len(s) - 1), i < j
               PROVE  r[i] < r[j]
    BY <1>2 DEF Ordered
  <2>1. \A p, q \in 1..Len(s) : p < q => s[p] < s[q]
    BY <1>2 DEF Ordered
  <2> DEFINE p == IF i < k THEN i ELSE i + 1
             q == IF j < k THEN j ELSE j + 1
  <2>2. p \in 1..Len(s) /\ q \in 1..Len(s) /\ p < q
    BY <1>2
  <2>3. r[i] = s[p] /\ r[j] = s[q]
    BY <1>3
  <2> QED
    BY <2>1, <2>2, <2>3
<1>5. \A i \in 1..Len(s) : s[i] = e => i = k
  <2> SUFFICES ASSUME NEW i \in 1..Len(s), s[i] = e, i # k PROVE FALSE
    OBVIOUS
  <2>1. \A p, q \in 1..Len(s) : p < q => s[p] < s[q]
    BY <1>2 DEF Ordered
  <2>2. i < k \/ k < i
    BY <1>2
  <2>3. s[i] < s[k] \/ s[k] < s[i]
    BY <2>1, <2>2
  <2>4. s[k] = e /\ e \in 1..N
    BY <1>1, <1>2
  <2> QED
    BY <2>3, <2>4
<1>6. ToSet(r) \subseteq ToSet(s) \ {e}
  <2> SUFFICES ASSUME NEW i \in 1..(Len(s) - 1) PROVE r[i] \in ToSet(s) \ {e}
    BY <1>2 DEF ToSet
  <2>1. CASE i < k
    <3>1. i \in 1..Len(s) /\ i # k /\ r[i] = s[i]
      BY <1>2, <1>3, <2>1
    <3> QED
      BY <1>2, <1>5, <3>1 DEF ToSet
  <2>2. CASE ~(i < k)
    <3>1. i + 1 \in 1..Len(s) /\ i + 1 # k /\ r[i] = s[i + 1]
      BY <1>2, <1>3, <2>2
    <3> QED
      BY <1>2, <1>5, <3>1 DEF ToSet
  <2> QED
    BY <2>1, <2>2
<1>7. ToSet(s) \ {e} \subseteq ToSet(r)
  <2> SUFFICES ASSUME NEW i \in 1..Len(s), s[i] # e PROVE s[i] \in ToSet(r)
    BY <1>2 DEF ToSet
  <2>1. CASE i < k
    <3>1. i \in 1..(Len(s) - 1) /\ r[i] = s[i]
      BY <1>2, <1>3, <2>1
    <3> QED
      BY <1>2, <3>1 DEF ToSet
  <2>2. CASE ~(i < k)
    <3>1. i # k
      BY <1>1
    <3>2. i - 1 \in 1..(Len(s) - 1) /\ ~(i - 1 < k) /\ (i - 1) + 1 = i
      BY <1>2, <2>2, <3>1
    <3>3. r[i - 1] = s[i]
      BY <1>3, <3>2
    <3> QED
      BY <1>2, <3>2, <3>3 DEF ToSet
  <2> QED
    BY <2>1, <2>2
<1> QED
  BY <1>1, <1>4, <1>6, <1>7 DEF r

\* The newest model goes on top.
LEMMA AppendToOrdered ==
  ASSUME NEW N \in Nat, NEW s \in Seq(1..(N - 1)), Ordered(s), N >= 1
  PROVE  /\ Append(s, N) \in Seq(1..N) /\ Ordered(Append(s, N))
         /\ ToSet(Append(s, N)) = ToSet(s) \cup {N}
<1>1. /\ Len(s) \in Nat /\ DOMAIN s = 1..Len(s) /\ \A i \in 1..Len(s) : s[i] \in 1..(N - 1)
  BY LenProperties, ElementOfSeq
<1>2. /\ Append(s, N) \in Seq(1..N) /\ DOMAIN Append(s, N) = 1..(Len(s) + 1)
      /\ Append(s, N)[Len(s) + 1] = N
      /\ \A i \in 1..Len(s) : Append(s, N)[i] = s[i]
  <2>1. s \in Seq(1..N)
    BY <1>1
  <2> QED
    BY <2>1
<1>3. Ordered(Append(s, N))
  BY <1>1, <1>2 DEF Ordered
<1>4. ToSet(Append(s, N)) = ToSet(s) \cup {N}
  BY <1>1, <1>2 DEF ToSet
<1> QED
  BY <1>2, <1>3, <1>4

-----------------------------------------------------------------------------
(* Types *)

\* A step of the manager keeps the types of its variables, whoever is inside.
LEMMA TypeStep ==
  ASSUME MaxModels \in Nat, None \notin Nat, TypeOK, [Next]_vars
  PROVE  TypeOK'
<1>0. /\ made \in Nat /\ made =< MaxModels /\ 1..made \subseteq Models
      /\ loaded \in Seq(1..made \cup {None})
  BY DEF TypeOK, Models
<1> DEFINE Labels == {"idle", "append", "diff", "test", "remove", "dereference", "close"}
<1>1. ASSUME NEW t \in Threads, NEW l \in Labels, Enter(t, l)
      PROVE  pc' \in [Threads -> Labels] /\ overlapped' \in BOOLEAN
  BY <1>1 DEF TypeOK, Enter
<1>2. ASSUME NEW t \in Threads, Leave(t), made' = made
      PROVE  /\ pc' \in [Threads -> Labels] /\ arg' \in [Threads -> 1..made' \cup {None}]
             /\ pair' \in [Threads -> SUBSET (1..made' \cup {None})]
             /\ \A u \in Threads :
                   pc'[u] \in {"test", "remove", "dereference", "close"} => arg'[u] # None
             /\ overlapped' \in BOOLEAN
  BY <1>2 DEF TypeOK, Leave
<1>3. ASSUME MakeCurrent
      PROVE  /\ made' \in 0..MaxModels /\ current' \in 1..made' \cup {None}
             /\ 1..made \subseteq 1..made'
             /\ Seq(1..made \cup {None}) \subseteq Seq(1..made' \cup {None})
  <2>1. made' = made + 1 /\ current' = made + 1 /\ made' =< MaxModels
    BY <1>0, <1>3 DEF MakeCurrent
  <2>2. 1..made \cup {None} \subseteq 1..made' \cup {None}
    BY <1>0, <2>1
  <2> QED
    BY <1>0, <2>1, <2>2
<1>4. ASSUME NEW t \in Threads, Load(t)
      PROVE  TypeOK'
  <2>1. pc' \in [Threads -> Labels] /\ overlapped' \in BOOLEAN
    BY <1>1, <1>4 DEF Load
  <2>2. \A u \in Threads :
           pc'[u] \in {"test", "remove", "dereference", "close"} => arg'[u] # None
    BY <1>4 DEF Load, Enter, TypeOK
  <2> QED
    BY <1>0, <1>3, <1>4, <2>1, <2>2 DEF Load, TypeOK
<1>5. ASSUME NEW t \in Threads, CompareDTSes(t)
      PROVE  TypeOK'
  <2>1. pc' \in [Threads -> Labels] /\ overlapped' \in BOOLEAN
    BY <1>1, <1>5 DEF CompareDTSes
  <2>2. \A u \in Threads :
           pc'[u] \in {"test", "remove", "dereference", "close"} => arg'[u] # None
    BY <1>5 DEF CompareDTSes, Enter, TypeOK
  <2>3. Len(loaded) \in 1..Len(loaded) /\ Len(loaded) - 1 \in 1..Len(loaded)
    BY <1>0, <1>5, LenProperties DEF CompareDTSes
  <2>4. {loaded[Len(loaded) - 1], loaded[Len(loaded)]} \subseteq 1..made \cup {None}
    BY <1>0, <2>3, ElementOfSeq
  <2>5. pair' \in [Threads -> SUBSET (1..made' \cup {None})]
    BY <1>3, <1>5, <2>4 DEF CompareDTSes, TypeOK
  <2> QED
    BY <1>0, <1>3, <1>5, <2>1, <2>2, <2>5 DEF CompareDTSes, TypeOK
<1>6. ASSUME NEW t \in Threads, AppendCurrent(t)
      PROVE  TypeOK'
  <2>1. loaded' \in Seq(1..made' \cup {None})
    BY <1>0, <1>6 DEF AppendCurrent, TypeOK
  <2>2. CASE pair[t] = {}
    BY <1>2, <1>6, <2>1, <2>2 DEF AppendCurrent, TypeOK
  <2>3. CASE pair[t] # {}
    BY <1>6, <2>1, <2>3 DEF AppendCurrent, TypeOK
  <2> QED
    BY <2>2, <2>3
<1>7. ASSUME NEW t \in Threads, DiffDTSes(t)
      PROVE  TypeOK'
  <2>1. compared' \in [Models -> SUBSET (1..made')]
    <3>1. pair[t] \ {None} \subseteq 1..made
      BY DEF TypeOK
    <3> QED
      BY <1>0, <1>7, <3>1 DEF DiffDTSes, TypeOK
  <2> QED
    BY <1>2, <1>7, <2>1 DEF DiffDTSes, TypeOK
<1>8. ASSUME NEW t \in Threads, DiffFails(t)
      PROVE  TypeOK'
  BY <1>2, <1>8 DEF DiffFails, TypeOK
<1>9. ASSUME NEW t \in Threads, NEW m \in ToSet(loaded) \cup {current}, Close(t, m)
      PROVE  TypeOK'
  <2>1. pc' \in [Threads -> Labels] /\ overlapped' \in BOOLEAN
    BY <1>1, <1>9 DEF Close
  <2>2. m \in 1..made \cup {None}
    BY <1>0, LenProperties, ElementOfSeq DEF ToSet, TypeOK
  <2> QED
    BY <1>9, <2>1, <2>2 DEF Close, Enter, TypeOK
<1>10. ASSUME NEW t \in Threads, TestLoaded(t)
       PROVE  TypeOK'
  BY <1>10 DEF TestLoaded, TypeOK
<1>11. ASSUME NEW t \in Threads, RemoveLoaded(t)
       PROVE  TypeOK'
  <2>1. loaded' \in Seq(1..made' \cup {None})
    BY <1>0, <1>11, RemoveFirstTakes, RemoveFirstMissing DEF RemoveLoaded
  <2>2. CASE arg[t] \in ToSet(loaded)
    BY <1>11, <2>1, <2>2 DEF RemoveLoaded, TypeOK
  <2>3. CASE arg[t] \notin ToSet(loaded)
    BY <1>2, <1>11, <2>1, <2>3 DEF RemoveLoaded, TypeOK
  <2> QED
    BY <2>2, <2>3
<1>12. ASSUME NEW t \in Threads, Dereference(t)
       PROVE  TypeOK'
  <2>1. loaded = <<>> \/ Head(loaded) \in 1..made \cup {None}
    BY <1>0
  <2> QED
    BY <1>12, <2>1 DEF Dereference, TypeOK
<1>13. ASSUME NEW t \in Threads, CloseModel(t)
       PROVE  TypeOK'
  <2>1. arg[t] \in 1..made
    BY <1>13 DEF CloseModel, TypeOK
  <2>2. Closing(arg[t]) \subseteq 1..made
    BY <1>0, <2>1 DEF Closing, TypeOK
  <2> QED
    BY <1>2, <1>13, <2>2 DEF CloseModel, TypeOK
<1>14. ASSUME NEW t \in Threads, loaded # <<>>, CloseDirectly(t, Last(loaded))
       PROVE  TypeOK'
  <2>1. Last(loaded) \in 1..made
    BY <1>0, <1>14, LenProperties, EmptySeq, ElementOfSeq DEF CloseDirectly, Last
  <2>2. Closing(Last(loaded)) \subseteq 1..made
    BY <1>0, <2>1 DEF Closing, TypeOK
  <2> QED
    BY <1>14, <2>2 DEF CloseDirectly, TypeOK
<1>15. CASE UNCHANGED vars
  BY <1>15 DEF vars, TypeOK
<1> QED
  BY <1>4, <1>5, <1>6, <1>7, <1>8, <1>9, <1>10, <1>11, <1>12, <1>13, <1>14, <1>15 DEF Next

-----------------------------------------------------------------------------
(* The stack of loaded models *)

\* The models that are open.
Standing == 1..made \ closed

CurrentStacked == current \in ToSet(loaded) \/ (loaded = <<>> /\ current = None)

\* What the manager leaves behind: the open models, and the current one among them.
Rest == ~bypassed => ToSet(loaded) = Standing /\ CurrentStacked

\* Thread t made a model that the stack does not hold yet.
Appending(t) ==
    pc[t] = "append" =>
        /\ made >= 1 /\ current = made /\ loaded \in Seq(1..(made - 1))
        /\ ~bypassed => made \notin closed /\ ToSet(loaded) = Standing \ {made}

\* Thread t closes a model: up to the loop's end it may be on the stack, then it is
\* open but off the stack, and at last not current.
ClosingOne(t) ==
    /\ pc[t] \in {"test", "remove", "dereference", "close"} /\ ~bypassed =>
         ToSet(loaded) \ {arg[t]} = Standing \ {arg[t]}
    /\ pc[t] \in {"test", "remove", "dereference"} /\ ~bypassed =>
         current \in ToSet(loaded) \cup {arg[t]}
    /\ pc[t] = "remove" => arg[t] \in ToSet(loaded)
    /\ pc[t] \in {"dereference", "close"} => arg[t] \notin ToSet(loaded)
    /\ pc[t] = "close" /\ ~bypassed => CurrentStacked

Alone == \A t, u \in Inside : t = u

StackInv ==
    ~overlapped =>
        /\ Alone
        /\ loaded \in Seq(1..made) /\ Ordered(loaded)
        /\ \A t \in Threads : Appending(t) /\ ClosingOne(t) /\ (pc[t] = "diff" => Rest)
        /\ Inside = {} => Rest

\* The only thread inside moves on within the manager, or leaves it.
LEMMA AloneStep ==
  ASSUME NEW L, pc \in [Threads -> L], Alone,
         NEW t \in Inside, NEW l, pc' = [pc EXCEPT ![t] = l]
  PROVE  /\ Alone' /\ pc'[t] = l /\ \A u \in Threads : u # t => pc[u] = "idle" /\ pc'[u] = "idle"
         /\ Inside' = IF l = "idle" THEN {} ELSE {t}
<1>1. t \in Threads /\ \A u \in Threads : u # t => pc[u] = "idle" /\ pc'[u] = "idle"
  BY DEF Alone, Inside
<1>2. pc'[t] = l
  BY <1>1
<1>3. Inside' = IF l = "idle" THEN {} ELSE {t}
  BY <1>1, <1>2 DEF Inside
<1>4. Alone'
  BY <1>3 DEF Alone
<1> QED
  BY <1>1, <1>2, <1>3, <1>4

\* A thread enters while no other is inside, or the calls overlap.
LEMMA EnterAlone ==
  ASSUME NEW L, pc \in [Threads -> L], NEW t \in Threads, NEW l, l # "idle",
         Enter(t, l), ~overlapped'
  PROVE  /\ ~overlapped /\ Inside = {} /\ Alone' /\ Inside' = {t} /\ pc'[t] = l
         /\ \A u \in Threads : u # t => pc'[u] = "idle"
<1>1. ~overlapped /\ Inside = {}
  BY DEF Enter
<1>2. pc'[t] = l /\ \A u \in Threads : u # t => pc'[u] = "idle"
  BY <1>1 DEF Enter, Inside
<1>3. Inside' = {t}
  BY <1>2 DEF Inside
<1> QED
  BY <1>1, <1>2, <1>3 DEF Alone

\* A step of the manager keeps the stack's invariant.
LEMMA StackStep ==
  ASSUME MaxModels \in Nat, None \notin Nat, TypeOK, TypeOK', StackInv, [Next]_vars
  PROVE  StackInv'
<1> SUFFICES ASSUME ~overlapped'
             PROVE  /\ Alone'
                    /\ (loaded \in Seq(1..made))' /\ Ordered(loaded)'
                    /\ \A u \in Threads : /\ Appending(u)' /\ ClosingOne(u)'
                                          /\ (pc[u] = "diff" => Rest)'
                    /\ (Inside = {} => Rest)'
  BY DEF StackInv
<1> DEFINE Goal == /\ Alone'
                   /\ (loaded \in Seq(1..made))' /\ Ordered(loaded)'
                   /\ \A u \in Threads : /\ Appending(u)' /\ ClosingOne(u)'
                                         /\ (pc[u] = "diff" => Rest)'
                   /\ (Inside = {} => Rest)'
<1>0. /\ made \in Nat /\ 1..made \subseteq Models /\ closed \subseteq 1..made
      /\ pc \in [Threads -> {"idle", "append", "diff", "test", "remove", "dereference", "close"}]
  BY DEF TypeOK, Models
<1>1. ASSUME NEW t \in Threads, MakeCurrent, Enter(t, "append"), UNCHANGED <<loaded, closed, bypassed>>
      PROVE  Goal
  <2>1. /\ ~overlapped /\ Inside = {} /\ Alone' /\ Inside' = {t} /\ pc'[t] = "append"
        /\ \A u \in Threads : u # t => pc'[u] = "idle"
    BY <1>0, <1>1, EnterAlone
  <2>2. loaded \in Seq(1..made) /\ Ordered(loaded) /\ Rest
    BY <2>1 DEF StackInv
  <2>3. /\ made' = made + 1 /\ current' = made' /\ made' - 1 = made /\ made' >= 1
        /\ 1..made \subseteq 1..made' /\ 1..made' \ {made'} = 1..made /\ made' \notin 1..made
    BY <1>0, <1>1 DEF MakeCurrent
  <2>4. loaded' \in Seq(1..made') /\ Ordered(loaded)'
    BY <1>1, <2>2, <2>3 DEF Ordered
  <2>5. Appending(t)'
    <3>1. ~bypassed => ToSet(loaded) = 1..made \ closed
      BY <2>2 DEF Rest, Standing
    <3>2. (1..made' \ closed) \ {made'} = 1..made \ closed /\ made' \notin closed
      BY <1>0, <2>3
    <3>3. loaded' = loaded /\ closed' = closed /\ bypassed' = bypassed
      BY <1>1
    <3> QED
      BY <2>2, <2>3, <3>1, <3>2, <3>3 DEF Appending, Standing
  <2>6. ASSUME NEW u \in Threads
        PROVE  Appending(u)' /\ ClosingOne(u)' /\ (pc[u] = "diff" => Rest)'
    BY <2>1, <2>5 DEF Appending, ClosingOne
  <2> QED
    BY <2>1, <2>4, <2>6
<1>2. ASSUME NEW t \in Threads, AppendCurrent(t)
      PROVE  Goal
  <2>1. /\ ~overlapped /\ t \in Inside /\ Alone /\ Appending(t) /\ pc[t] = "append"
        /\ Ordered(loaded)
    BY <1>2 DEF AppendCurrent, Leave, StackInv, Inside
  <2>2. PICK l \in {"idle", "diff"} : pc' = [pc EXCEPT ![t] = l]
    BY <1>2 DEF AppendCurrent, Leave
  <2>3. /\ Alone' /\ pc'[t] = l
        /\ \A u \in Threads : u # t => pc'[u] = "idle"
    BY <1>0, <2>1, <2>2, AloneStep
  <2>4. /\ made >= 1 /\ loaded \in Seq(1..(made - 1)) /\ current = made
        /\ ~bypassed => made \notin closed /\ ToSet(loaded) = Standing \ {made}
    BY <2>1 DEF Appending
  <2>5. loaded' = Append(loaded, made) /\ made' = made /\ UNCHANGED <<current, closed, bypassed>>
    BY <1>2, <2>4 DEF AppendCurrent
  <2>6. /\ loaded' \in Seq(1..made') /\ Ordered(loaded)'
        /\ ToSet(loaded') = ToSet(loaded) \cup {made}
    BY <1>0, <2>1, <2>4, <2>5, AppendToOrdered DEF Ordered
  <2>7. Rest'
    BY <1>0, <2>4, <2>5, <2>6 DEF Rest, Standing, CurrentStacked
  <2>8. ASSUME NEW u \in Threads
        PROVE  Appending(u)' /\ ClosingOne(u)' /\ (pc[u] = "diff" => Rest)'
    BY <2>2, <2>3, <2>7 DEF Appending, ClosingOne
  <2> QED
    BY <2>3, <2>6, <2>7, <2>8
<1>3. ASSUME NEW t \in Threads, pc[t] = "diff", Leave(t),
             UNCHANGED <<loaded, current, made, closed, bypassed>>
      PROVE  Goal
  <2>1. ~overlapped /\ t \in Inside /\ Alone /\ Rest /\ Ordered(loaded) /\ loaded \in Seq(1..made)
    BY <1>3 DEF Leave, StackInv, Inside
  <2>2. pc' = [pc EXCEPT ![t] = "idle"]
    BY <1>3 DEF Leave
  <2>3. Alone' /\ \A u \in Threads : pc'[u] = "idle"
    BY <1>0, <2>1, <2>2, AloneStep
  <2>4. Rest' /\ Ordered(loaded)' /\ (loaded \in Seq(1..made))'
    BY <1>3, <2>1 DEF Rest, Standing, CurrentStacked, Ordered
  <2> QED
    BY <2>3, <2>4 DEF Appending, ClosingOne
<1>4. ASSUME NEW t \in Threads, NEW m \in ToSet(loaded) \cup {current}, Close(t, m)
      PROVE  Goal
  <2>1. /\ ~overlapped /\ Inside = {} /\ Alone' /\ Inside' = {t} /\ pc'[t] = "test"
        /\ \A u \in Threads : u # t => pc'[u] = "idle"
    BY <1>0, <1>4, EnterAlone DEF Close
  <2>2. /\ loaded \in Seq(1..made) /\ Ordered(loaded)
        /\ ~bypassed => ToSet(loaded) = Standing /\ CurrentStacked
    BY <2>1 DEF StackInv, Rest
  <2>3. /\ arg'[t] = m /\ m # None
        /\ UNCHANGED <<loaded, current, made, closed, bypassed>>
    BY <1>4 DEF Close, TypeOK
  <2>4. Standing' = Standing
    BY <2>3 DEF Standing
  <2>5. ~bypassed => current \in ToSet(loaded) \cup {m}
    <3>1. loaded = <<>> => ToSet(loaded) = {}
      BY DEF ToSet
    <3> QED
      BY <2>2, <2>3, <3>1 DEF CurrentStacked
  <2>6. ClosingOne(t)'
    BY <2>1, <2>2, <2>3, <2>4, <2>5 DEF ClosingOne
  <2>7. ASSUME NEW u \in Threads
        PROVE  Appending(u)' /\ ClosingOne(u)' /\ (pc[u] = "diff" => Rest)'
    BY <2>1, <2>6 DEF Appending, ClosingOne
  <2> QED
    BY <2>1, <2>2, <2>3, <2>7 DEF Ordered
<1>5. ASSUME NEW t \in Threads, TestLoaded(t)
      PROVE  Goal
  <2>1. /\ ~overlapped /\ t \in Inside /\ Alone /\ ClosingOne(t) /\ pc[t] = "test"
        /\ Ordered(loaded) /\ loaded \in Seq(1..made)
    BY <1>5 DEF TestLoaded, StackInv, Inside
  <2> DEFINE l == IF arg[t] \in ToSet(loaded) THEN "remove" ELSE "dereference"
  <2>2. /\ pc' = [pc EXCEPT ![t] = l]
        /\ UNCHANGED <<loaded, current, made, closed, bypassed, arg>>
    BY <1>5 DEF TestLoaded
  <2> HIDE DEF l
  <2>3. /\ Alone' /\ pc'[t] = l /\ (\A u \in Threads : u # t => pc'[u] = "idle")
        /\ Inside' = IF l = "idle" THEN {} ELSE {t}
    BY <1>0, <2>1, <2>2, AloneStep
  <2>4. ClosingOne(t)'
    BY <2>1, <2>2, <2>3 DEF ClosingOne, Standing, l
  <2>5. ASSUME NEW u \in Threads
        PROVE  Appending(u)' /\ ClosingOne(u)' /\ (pc[u] = "diff" => Rest)'
    BY <2>3, <2>4 DEF Appending, ClosingOne, l
  <2>6. Inside' # {}
    BY <2>3 DEF l
  <2> QED
    BY <2>1, <2>2, <2>3, <2>5, <2>6 DEF Ordered
<1>6. ASSUME NEW t \in Threads, RemoveLoaded(t)
      PROVE  Goal
  <2>1. /\ ~overlapped /\ t \in Inside /\ Alone /\ ClosingOne(t) /\ pc[t] = "remove"
        /\ Ordered(loaded) /\ loaded \in Seq(1..made) /\ arg[t] \in ToSet(loaded)
    BY <1>6 DEF RemoveLoaded, Leave, StackInv, Inside, ClosingOne
  <2>2. /\ pc' = [pc EXCEPT ![t] = "test"] /\ loaded' = RemoveFirst(loaded, arg[t])
        /\ UNCHANGED <<current, made, closed, bypassed, arg>>
    BY <1>6, <2>1 DEF RemoveLoaded
  <2>3. /\ Alone' /\ pc'[t] = "test" /\ (\A u \in Threads : u # t => pc'[u] = "idle")
        /\ Inside' = {t}
    BY <1>0, <2>1, <2>2, AloneStep
  <2>4. /\ loaded' \in Seq(1..made) /\ Ordered(loaded)'
        /\ ToSet(loaded') = ToSet(loaded) \ {arg[t]}
    BY <1>0, <2>1, <2>2, RemoveFromOrdered DEF Ordered
  <2>5. ClosingOne(t)'
    BY <2>1, <2>2, <2>3, <2>4 DEF ClosingOne, Standing
  <2>6. ASSUME NEW u \in Threads
        PROVE  Appending(u)' /\ ClosingOne(u)' /\ (pc[u] = "diff" => Rest)'
    BY <2>3, <2>5 DEF Appending, ClosingOne
  <2> QED
    BY <2>2, <2>3, <2>4, <2>6
<1>7. ASSUME NEW t \in Threads, Dereference(t)
      PROVE  Goal
  <2>1. /\ ~overlapped /\ t \in Inside /\ Alone /\ ClosingOne(t) /\ pc[t] = "dereference"
        /\ Ordered(loaded) /\ loaded \in Seq(1..made) /\ arg[t] \notin ToSet(loaded)
    BY <1>7 DEF Dereference, StackInv, Inside, ClosingOne
  <2>2. /\ pc' = [pc EXCEPT ![t] = "close"]
        /\ current' = IF arg[t] # current THEN current
                      ELSE IF loaded = <<>> THEN None ELSE Head(loaded)
        /\ UNCHANGED <<loaded, made, closed, bypassed, arg>>
    BY <1>7 DEF Dereference
  <2>3. /\ Alone' /\ pc'[t] = "close" /\ (\A u \in Threads : u # t => pc'[u] = "idle")
        /\ Inside' = {t}
    BY <1>0, <2>1, <2>2, AloneStep
  <2>4. loaded = <<>> \/ Head(loaded) \in ToSet(loaded)
    <3>1. loaded # <<>> => 1 \in DOMAIN loaded /\ Head(loaded) = loaded[1]
      BY <2>1, LenProperties, EmptySeq
    <3> QED
      BY <3>1 DEF ToSet
  <2>5. ~bypassed => CurrentStacked'
    <3>1. ~bypassed => current \in ToSet(loaded) \cup {arg[t]}
      BY <2>1 DEF ClosingOne
    <3> QED
      BY <2>2, <2>4, <3>1 DEF CurrentStacked
  <2>6. ClosingOne(t)'
    BY <2>1, <2>2, <2>3, <2>5 DEF ClosingOne, Standing
  <2>7. ASSUME NEW u \in Threads
        PROVE  Appending(u)' /\ ClosingOne(u)' /\ (pc[u] = "diff" => Rest)'
    BY <2>3, <2>6 DEF Appending, ClosingOne
  <2> QED
    BY <2>1, <2>2, <2>3, <2>7 DEF Ordered
<1>8. ASSUME NEW t \in Threads, CloseModel(t)
      PROVE  Goal
  <2>1. /\ ~overlapped /\ t \in Inside /\ Alone /\ ClosingOne(t) /\ pc[t] = "close"
        /\ Ordered(loaded) /\ loaded \in Seq(1..made) /\ arg[t] \notin ToSet(loaded)
    BY <1>8 DEF CloseModel, Leave, StackInv, Inside, ClosingOne
  <2>2. /\ pc' = [pc EXCEPT ![t] = "idle"] /\ closed' = closed \cup Closing(arg[t])
        /\ bypassed' = (bypassed \/ \E m \in Closing(arg[t]) : m # arg[t])
        /\ UNCHANGED <<loaded, current, made>>
    BY <1>8 DEF CloseModel, Leave
  <2>3. Alone' /\ \A u \in Threads : pc'[u] = "idle"
    BY <1>0, <2>1, <2>2, AloneStep
  <2>4. Rest'
    <3> SUFFICES ASSUME ~bypassed' PROVE ToSet(loaded) = Standing' /\ CurrentStacked
      BY <2>2 DEF Rest, CurrentStacked
    <3>1. ~bypassed /\ Closing(arg[t]) \subseteq {arg[t]}
      BY <2>2
    <3>2. ToSet(loaded) = Standing \ {arg[t]} /\ CurrentStacked
      BY <2>1, <3>1 DEF ClosingOne
    <3>3. arg[t] \in closed'
      BY <2>2 DEF Closing
    <3> QED
      BY <2>2, <3>1, <3>2, <3>3 DEF Standing
  <2> QED
    BY <2>1, <2>2, <2>3, <2>4 DEF Appending, ClosingOne, Ordered
<1>9. ASSUME NEW t \in Threads, NEW m, CloseDirectly(t, m)
      PROVE  Goal
  <2>1. ~overlapped /\ bypassed' /\ UNCHANGED <<loaded, current, made, pc, arg, overlapped>>
    BY <1>9 DEF CloseDirectly
  <2>2. Alone' /\ Rest' /\ Inside' = Inside
    BY <2>1 DEF StackInv, Alone, Inside, Rest
  <2>3. loaded' \in Seq(1..made') /\ Ordered(loaded)'
    BY <2>1 DEF StackInv, Ordered
  <2>4. ASSUME NEW u \in Threads
        PROVE  Appending(u)' /\ ClosingOne(u)' /\ (pc[u] = "diff" => Rest)'
    BY <2>1, <2>2 DEF StackInv, Appending, ClosingOne
  <2> QED
    BY <2>2, <2>3, <2>4
<1>10. CASE UNCHANGED vars
  <2>1. UNCHANGED <<loaded, current, made, closed, bypassed, pc, arg, overlapped>>
    BY <1>10 DEF vars
  <2> QED
    BY <2>1 DEF StackInv, Alone, Inside, Ordered, Appending, ClosingOne, Rest, Standing,
                CurrentStacked
<1>11. ASSUME NEW t \in Threads, Load(t) \/ CompareDTSes(t) PROVE Goal
  BY <1>1, <1>11 DEF Load, CompareDTSes
<1>12. ASSUME NEW t \in Threads, DiffDTSes(t) \/ DiffFails(t) PROVE Goal
  BY <1>3, <1>12 DEF DiffDTSes, DiffFails
<1> HIDE DEF Goal
<1>13. ASSUME Next PROVE Goal
  <2>1. PICK t \in Threads :
           \/ Load(t) \/ CompareDTSes(t) \/ AppendCurrent(t) \/ DiffDTSes(t) \/ DiffFails(t)
           \/ \E m \in ToSet(loaded) \cup {current} : Close(t, m)
           \/ TestLoaded(t) \/ RemoveLoaded(t) \/ Dereference(t) \/ CloseModel(t)
           \/ loaded # <<>> /\ CloseDirectly(t, Last(loaded))
    BY <1>13 DEF Next
  <2> QED
    BY <1>2, <1>4, <1>5, <1>6, <1>7, <1>8, <1>9, <1>11, <1>12, <2>1
<1> QED
  BY <1>10, <1>13 DEF Goal

\* As long as no two calls of the manager overlap, between the calls loadedModelXbrls is
\* in the order of loading and holds the open models, each once, with self.modelXbrl
\* among them: load, create, compareDTSes and close lose no model and keep none that
\* was closed, whatever the calls' order and number (but for a model closed behind the
\* manager's back).  What the manager refers to was made before, always.
THEOREM StackHoldsTheOpenModels ==
  ASSUME MaxModels \in Nat, None \notin Nat
  PROVE  Spec => [](TypeOK /\ StackConsistent)
<1>1. Init => TypeOK /\ StackInv
  <2> SUFFICES ASSUME Init PROVE TypeOK /\ StackInv
    OBVIOUS
  <2>1. TypeOK
    <3>1. made = 0 /\ 1..made = {} /\ loaded \in Seq(1..made \cup {None})
      BY DEF Init
    <3>2. /\ compared \in [Models -> SUBSET (1..made)]
          /\ arg \in [Threads -> 1..made \cup {None}]
          /\ pair \in [Threads -> SUBSET (1..made \cup {None})]
      BY <3>1 DEF Init
    <3>3. \A t \in Threads : pc[t] = "idle"
      BY DEF Init
    <3>4. /\ made \in 0..MaxModels /\ current \in 1..made \cup {None} /\ closed \subseteq 1..made
          /\ overlapped \in BOOLEAN /\ bypassed \in BOOLEAN
      <4>1. made \in 0..MaxModels
        BY <3>1
      <4>2. overlapped \in BOOLEAN /\ bypassed \in BOOLEAN
        BY Zenon DEF Init
      <4> QED
        BY <4>1, <4>2 DEF Init
    <3>5. pc \in [Threads -> {"idle", "append", "diff", "test", "remove", "dereference", "close"}]
      BY DEF Init
    <3> QED
      BY <3>1, <3>2, <3>3, <3>4, <3>5 DEF TypeOK
  <2>2. ToSet(loaded) = {} /\ Standing = {} /\ Ordered(loaded) /\ loaded \in Seq(1..made)
    BY DEF Init, ToSet, Standing, Ordered
  <2>3. Inside = {}
    BY DEF Init, Inside
  <2> QED
    BY <2>1, <2>2, <2>3
       DEF Init, StackInv, Alone, Appending, ClosingOne, Rest, CurrentStacked
<1>2. TypeOK /\ StackInv /\ [Next]_vars => TypeOK' /\ StackInv'
  BY TypeStep, StackStep
<1>3. StackInv => StackConsistent
  BY DEF StackInv, StackConsistent, Quiet, Ordered, Rest, Standing, CurrentStacked
<1> QED
  BY <1>1, <1>2, <1>3, PTL DEF Spec

=============================================================================
