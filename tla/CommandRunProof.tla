-------------------------- MODULE CommandRunProof ---------------------------
(***************************************************************************)
(* Theorems about the runs of one thread, one after the other, for any       *)
(* requests, entry points, further targets and number of runs; and of the    *)
(* manager of a GUI next to them.                                            *)
(***************************************************************************)
EXTENDS ManagerUses, WellFoundedInduction, SequenceTheorems, FiniteSetTheorems, TLAPS

\* A Session, the command line, and the default web server.
OneThread == \A v, w \in Workers : v = w

-----------------------------------------------------------------------------
(* Sequences *)

\* The sequence of a finite set holds its elements.
LEMMA SetToSeqProperties ==
  ASSUME NEW S, IsFiniteSet(S)
  PROVE  SetToSeq(S) \in Seq(S) /\ Range(SetToSeq(S)) = S
<1> DEFINE n == Cardinality(S)
<1> DEFINE f == SetToSeq(S)
<1>1. n \in Nat /\ ExistsBijection(1..n, S)
  BY FS_CardinalityType
<1>2. \E g \in [1..n -> S] : IsInjective(g)
  BY <1>1 DEF ExistsBijection, Bijection, Injection
<1>3. f \in [1..n -> S] /\ IsInjective(f)
  BY <1>2 DEF SetToSeq
<1>4. f \in Injection(1..n, S)
  BY <1>3 DEF Injection
<1>5. IsFiniteSet(1..n) /\ Cardinality(1..n) = n
  BY <1>1, FS_Interval
<1>6. f \in Surjection(1..n, S)
  BY <1>4, <1>5, FS_Injection
<1>7. Range(f) = S
  BY <1>3, <1>6 DEF Range, Surjection
<1>8. f \in Seq(S)
  BY <1>1, <1>3
<1> QED
  BY <1>7, <1>8

\* Of the places that hold an element RemoveFirst takes one out.
LEMMA RemoveFirstTakes ==
  ASSUME NEW S, NEW s \in Seq(S), NEW e, e \in Range(s)
  PROVE  \E k \in 1..Len(s) :
            /\ s[k] = e
            /\ RemoveFirst(s, e) \in Seq(S)
            /\ Len(RemoveFirst(s, e)) = Len(s) - 1
            /\ \A i \in 1..(Len(s) - 1) :
                  RemoveFirst(s, e)[i] = IF i < k THEN s[i] ELSE s[i + 1]
<1> DEFINE I == {i \in 1..Len(s) : s[i] = e}
<1>0. Len(s) \in Nat /\ DOMAIN s = 1..Len(s)
  BY LenProperties
<1>1. I \in SUBSET Nat /\ I # {}
  BY <1>0 DEF Range
<1>2. PICK i \in I : \A j \in I : <<j, i>> \notin OpToRel(<, Nat)
  BY <1>1, WFMin, NatLessThanWellFounded
<1>3. ASSUME NEW j \in I PROVE i =< j
  <2>1. <<j, i>> \in Nat \X Nat /\ <<j, i>>[1] = j /\ <<j, i>>[2] = i
    BY <1>1
  <2>2. ~(<<j, i>>[1] < <<j, i>>[2])
    BY <1>2, <2>1 DEF OpToRel
  <2> QED
    BY <1>1, <2>1, <2>2
<1>4. Min(I) \in I
  BY <1>3 DEF Min
<1>5. RemoveFirst(s, e) = RemoveAt(s, Min(I))
  BY <1>1 DEF RemoveFirst, SelectInSeq
<1> HIDE DEF I
<1> DEFINE k == Min(I)
<1>6. k \in 1..Len(s) /\ s[k] = e
  BY <1>4 DEF I
<1> HIDE DEF k
<1> DEFINE a == SubSeq(s, 1, k - 1)
           b == SubSeq(s, k + 1, Len(s))
<1>7. a \in Seq(S) /\ Len(a) = k - 1 /\ \A n \in 1..(k - 1) : a[n] = s[n]
  BY <1>0, <1>6
<1>8. b \in Seq(S) /\ Len(b) = Len(s) - k /\ \A n \in 1..(Len(s) - k) : b[n] = s[k + n]
  <2>1. k + 1 \in Int /\ Len(s) \in Int /\ \A n \in (k + 1)..Len(s) : s[n] \in S
    BY <1>0, <1>6, ElementOfSeq
  <2>2. /\ b \in Seq(S) /\ Len(b) = IF k + 1 =< Len(s) THEN Len(s) - (k + 1) + 1 ELSE 0
        /\ \A n \in 1..(Len(s) - (k + 1) + 1) : b[n] = s[(k + 1) + n - 1]
    BY <2>1, SubSeqProperties
  <2> HIDE DEF b
  <2>3. \A n \in 1..(Len(s) - k) : n \in 1..(Len(s) - (k + 1) + 1) /\ (k + 1) + n - 1 = k + n
    BY <1>0, <1>6
  <2>4. \A n \in 1..(Len(s) - k) : b[n] = s[k + n]
    <3> SUFFICES ASSUME NEW n \in 1..(Len(s) - k) PROVE b[n] = s[k + n]
      OBVIOUS
    <3>1. b[n] = s[(k + 1) + n - 1]
      BY <2>2, <2>3
    <3> QED
      BY <2>3, <3>1
  <2>5. Len(b) = Len(s) - k
    <3>1. k \in Int /\ Len(s) \in Int /\ k =< Len(s)
      BY <1>0, <1>6
    <3>2. CASE k + 1 =< Len(s)
      BY <2>2, <3>1, <3>2
    <3>3. CASE ~(k + 1 =< Len(s))
      <4>1. k = Len(s)
        BY <3>1, <3>3
      <4> QED
        BY <2>2, <3>1, <3>3, <4>1
    <3> QED
      BY <3>2, <3>3
  <2> QED
    BY <2>2, <2>4, <2>5
<1>9. RemoveFirst(s, e) = a \o b
  BY <1>5 DEF RemoveAt, k
<1> HIDE DEF a, b
<1>10. /\ a \o b \in Seq(S) /\ Len(a \o b) = Len(s) - 1
       /\ \A n \in 1..(Len(s) - 1) : (a \o b)[n] = IF n < k THEN s[n] ELSE s[n + 1]
  <2>1. a \o b \in Seq(S) /\ Len(a \o b) = Len(s) - 1
    <3>1. a \o b \in Seq(S) /\ Len(a \o b) = Len(a) + Len(b)
      BY <1>7, <1>8, ConcatProperties
    <3> QED
      BY <1>0, <1>6, <1>7, <1>8, <3>1
  <2>2. ASSUME NEW n \in 1..(Len(s) - 1)
        PROVE  (a \o b)[n] = IF n < k THEN s[n] ELSE s[n + 1]
    <3>1. CASE n < k
      <4>1. n \in 1..Len(a) /\ n \in 1..(k - 1)
        BY <1>0, <1>6, <1>7, <3>1
      <4> QED
        BY <1>7, <1>8, <3>1, <4>1, ConcatProperties
    <3>2. CASE ~(n < k)
      <4>1. /\ n \in (Len(a) + 1)..(Len(a) + Len(b)) /\ n - Len(a) \in 1..(Len(s) - k)
            /\ k + (n - Len(a)) = n + 1
        BY <1>0, <1>6, <1>7, <1>8, <3>2
      <4>2. (a \o b)[n] = b[n - Len(a)]
        BY <1>0, <1>6, <1>7, <1>8, <4>1
      <4> QED
        BY <1>8, <3>2, <4>1, <4>2
    <3> QED
      BY <3>1, <3>2
  <2> QED
    BY <2>1, <2>2
<1> QED
  BY <1>6, <1>9, <1>10

\* What is not there stays away: the sequence is as it was.
LEMMA RemoveFirstMissing ==
  ASSUME NEW S, NEW s \in Seq(S), NEW e, e \notin Range(s)
  PROVE  RemoveFirst(s, e) = s
<1>1. ~ \E i \in 1..Len(s) : s[i] = e
  BY LenProperties DEF Range
<1> QED
  BY <1>1 DEF RemoveFirst

\* A sequence without one of its elements is one; what was there once is gone.
LEMMA RemoveFirstRange ==
  ASSUME NEW S, NEW s \in Seq(S), NEW e
  PROVE  /\ RemoveFirst(s, e) \in Seq(S) /\ Range(RemoveFirst(s, e)) \subseteq Range(s)
         /\ (\A i, j \in 1..Len(s) : s[i] = e /\ s[j] = e => i = j)
              => e \notin Range(RemoveFirst(s, e))
<1>1. CASE e \notin Range(s)
  BY <1>1, RemoveFirstMissing
<1>2. CASE e \in Range(s)
  <2> DEFINE r == RemoveFirst(s, e)
  <2>1. PICK k \in 1..Len(s) :
           /\ s[k] = e /\ r \in Seq(S) /\ Len(r) = Len(s) - 1
           /\ \A i \in 1..(Len(s) - 1) : r[i] = IF i < k THEN s[i] ELSE s[i + 1]
    BY <1>2, RemoveFirstTakes
  <2> HIDE DEF r
  <2>2. /\ DOMAIN r = 1..(Len(s) - 1) /\ DOMAIN s = 1..Len(s) /\ Len(s) \in Nat
    BY <2>1, LenProperties
  <2>3. ASSUME NEW i \in 1..(Len(s) - 1)
        PROVE  \E n \in 1..Len(s) : n # k /\ r[i] = s[n]
    <3>1. CASE i < k
      BY <2>1, <2>2, <3>1
    <3>2. CASE ~(i < k)
      <4>1. i + 1 \in 1..Len(s) /\ i + 1 # k
        BY <2>2, <3>2
      <4> QED
        BY <2>1, <3>2, <4>1
    <3> QED
      BY <3>1, <3>2
  <2>4. Range(r) \subseteq Range(s)
    BY <2>2, <2>3 DEF Range
  <2>5. (\A i, j \in 1..Len(s) : s[i] = e /\ s[j] = e => i = j) => e \notin Range(r)
    BY <2>1, <2>2, <2>3 DEF Range
  <2> QED
    BY <2>1, <2>4, <2>5 DEF r
<1> QED
  BY <1>1, <1>2

\* What is put behind a sequence comes to be its end.
LEMMA LastConcat ==
  ASSUME NEW S, NEW s \in Seq(S), NEW t \in Seq(S), t # <<>>
  PROVE  /\ s \o t \in Seq(S) /\ s \o t # <<>> /\ Last(s \o t) = Last(t)
         /\ Last(t) \in Range(t) /\ Range(s \o t) = Range(s) \cup Range(t)
<1>1. Len(s) \in Nat /\ Len(t) \in Nat /\ Len(t) \in 1..Len(t)
  BY LenProperties, EmptySeq
<1>2. /\ s \o t \in Seq(S) /\ Len(s \o t) = Len(s) + Len(t)
      /\ (s \o t)[Len(s) + Len(t)] = t[Len(t)]
  BY <1>1, ConcatProperties
<1>3. DOMAIN t = 1..Len(t)
  BY LenProperties
<1>4. s \o t # <<>>
  BY <1>1, <1>2
<1>5. Last(s \o t) = Last(t)
  BY <1>2 DEF Last
<1>6. Last(t) \in Range(t)
  BY <1>1, <1>3 DEF Last, Range
<1> QED
  BY <1>2, <1>4, <1>5, <1>6, RangeConcatenation

\* The end of a sequence is one of its elements.
LEMMA LastIn ==
  ASSUME NEW S, NEW s \in Seq(S), s # <<>>
  PROVE  Last(s) \in S /\ Last(s) \in Range(s)
<1>1. Len(s) \in 1..Len(s) /\ DOMAIN s = 1..Len(s) /\ s \in [1..Len(s) -> S]
  BY LenProperties, EmptySeq
<1> QED
  BY <1>1 DEF Last, Range

\* The elements of a sequence are its first and those after it.
LEMMA HeadTailRange ==
  ASSUME NEW S, NEW s \in Seq(S), s # <<>>
  PROVE  Range(s) = {Head(s)} \cup Range(Tail(s))
<1>1. s = <<Head(s)>> \o Tail(s) /\ Head(s) \in S /\ Tail(s) \in Seq(S)
  BY HeadTailProperties, HeadTailAppend
<1>2. <<Head(s)>> \in Seq(S) /\ Range(<<Head(s)>>) = {Head(s)}
  BY <1>1 DEF Range
<1> DEFINE q == <<Head(s)>>
           t == Tail(s)
<1>3. q \in Seq(S) /\ t \in Seq(S) /\ Range(q) = {Head(s)} /\ s = q \o t
  BY <1>1, <1>2
<1> HIDE DEF q
<1>4. Range(q \o t) = Range(q) \cup Range(t)
  BY <1>3, RangeConcatenation
<1>5. Range(s) = Range(q \o t)
  BY <1>3, Zenon
<1> QED
  BY <1>3, <1>4, <1>5

\* The range of a sequence is finite.
LEMMA RangeFinite ==
  ASSUME NEW S, NEW q \in Seq(S)
  PROVE  IsFiniteSet(Range(q))
<1>1. Len(q) \in Nat /\ Range(q) = {q[i] : i \in 1..Len(q)}
  BY LenProperties, RangeEquality
<1>2. q \in Surjection(1..Len(q), Range(q))
  BY <1>1, LenProperties DEF Surjection
<1>3. IsFiniteSet(1..Len(q))
  BY <1>1, FS_Interval
<1> QED
  BY <1>2, <1>3, FS_Surjection

-----------------------------------------------------------------------------
(* Types *)

\* What a thread's run keeps.
Locals == [id : 0..made, request : Requests \cup {None}, todo : Seq(Files),
           model : seen \cup {None}, report : seen \cup {None}, queue : Seq(seen),
           success : BOOLEAN, invalid : BOOLEAN, carried : SUBSET said]

ManagerTyped ==
    /\ stack \in Seq(seen) /\ current \in seen \cup {None}
    /\ closed \subseteq seen /\ inError \subseteq seen
    /\ seen \subseteq Models /\ IsFiniteSet(seen)
    /\ \A p \in pairs : p.from \in seen /\ p.to \in seen

LogTyped ==
    /\ errors \subseteq Ids /\ settings \in Settings
    /\ log \subseteq said /\ said \subseteq Messages
    /\ made \in 0..MaxRuns

RunsTyped ==
    /\ pc \in [Workers -> Steps] /\ run \in [Workers -> Locals]

\* What is there when a run comes to a step.
AtStep(w) ==
    /\ pc[w] # "idle" => run[w].id # 0 /\ run[w].request \in Requests
    /\ pc[w] \in {"loaded", "diff", "select", "use", "close"} =>
         run[w].todo # <<>> /\ run[w].model \in seen
    /\ pc[w] = "use" => run[w].queue # <<>>
    /\ pc[w] \in {"loaded", "diff"} => stack # <<>>
    /\ pc[w] = "diff" => run[w].request.diff \in Files

Typed == ManagerTyped /\ LogTyped /\ RunsTyped /\ \A w \in Workers : AtStep(w)

\* What is pushed is seen, and comes to be current and on top.
LEMMA PushTyped ==
  ASSUME ManagerTyped, NEW models \in Seq(Models), models # <<>>, Push(models)
  PROVE  /\ stack' \in Seq(seen') /\ stack' # <<>> /\ Last(stack') = Last(models)
         /\ current' = Last(models) /\ Last(models) \in seen'
         /\ seen' = seen \cup Range(models) /\ seen' \subseteq Models
         /\ IsFiniteSet(seen')
<1>1. Range(models) \subseteq Models /\ IsFiniteSet(Range(models))
  BY RangeOfSeq, RangeFinite
<1>2. seen' = seen \cup Range(models) /\ stack' = stack \o models
      /\ current' = Last(models)
  BY DEF Push
<1>3. IsFiniteSet(seen') /\ seen' \subseteq Models
  BY <1>1, <1>2, FS_Union DEF ManagerTyped
<1>4. stack \in Seq(seen')
  BY <1>2, SeqMonotonic DEF ManagerTyped
<1>5. models \in Seq(seen')
  BY <1>2, SeqOfRange, SeqMonotonic
<1>6. /\ stack' \in Seq(seen') /\ stack' # <<>> /\ Last(stack') = Last(models)
      /\ Last(models) \in Range(models)
  BY <1>2, <1>4, <1>5, LastConcat
<1> QED
  BY <1>2, <1>3, <1>6

\* What a run keeps stays what it was when more is seen and said.
LEMMA LocalsGrow ==
  ASSUME seen \subseteq seen', said \subseteq said', made \in Nat, made' \in Nat,
         made =< made'
  PROVE  Locals \subseteq Locals'
<1>1. ASSUME NEW q \in Seq(seen) PROVE q \in Seq(seen')
  BY SeqMonotonic
<1>2. 0..made \subseteq 0..made'
  OBVIOUS
<1> QED
  BY <1>1, <1>2 DEF Locals

\* A step replaces what one run keeps.
LEMMA RunsTypedStep ==
  ASSUME RunsTyped, Locals \subseteq Locals', NEW w \in Workers, NEW locals \in Locals',
         NEW step \in Steps, run' = [run EXCEPT ![w] = locals], GoTo(w, step)
  PROVE  /\ RunsTyped' /\ pc'[w] = step /\ run'[w] = locals
         /\ DOMAIN pc' = Workers /\ DOMAIN run' = Workers
  BY DEF RunsTyped, GoTo

\* What a run keeps has the fields it should have.
LEMMA LocalsOf ==
  ASSUME RunsTyped, NEW w \in Workers
  PROVE  /\ run[w] \in Locals /\ run[w].id \in 0..made /\ run[w].todo \in Seq(Files)
         /\ run[w].request \in Requests \cup {None}
         /\ run[w].model \in seen \cup {None} /\ run[w].report \in seen \cup {None}
         /\ run[w].queue \in Seq(seen) /\ run[w].success \in BOOLEAN
         /\ run[w].invalid \in BOOLEAN /\ run[w].carried \subseteq said
         /\ pc[w] \in Steps
  BY DEF RunsTyped, Locals

\* A request is what it is assumed to be.
LEMMA RequestTyped ==
  ASSUME NEW r \in Requests
  PROVE  /\ r.files \in Seq(Files) /\ r.diff \in Files \cup {None}
         /\ r.utr \in BOOLEAN /\ r.validate \in BOOLEAN /\ r.exitCode \in BOOLEAN
         /\ r.imports \in BOOLEAN /\ r.clear \in BOOLEAN
         /\ r.calcs \in Modes \cup {"misspelt"} /\ r.answer \in Answers
         /\ r.diff # None => Len(r.files) = 1
         /\ None \notin Files /\ None \notin Targets /\ IsFiniteSet(Targets)
  BY RequestsAssumption DEF RequestOK

\* What is said is a message of the run.
LEMMA SayTyped ==
  ASSUME LogTyped, NEW w \in Workers, run[w].id \in 0..made, run[w].id # 0,
         NEW about \in Files \cup {"report", None},
         NEW what \in {"loaded", "found", "invalid", "failed"}, Say(w, about, what)
  PROVE  log' \subseteq said' /\ said' \subseteq Messages /\ said \subseteq said'
  BY RequestsAssumption DEF LogTyped, Say, Messages, Ids

\* Of a run that is under way, these are its models.
LEMMA ModelOfTyped ==
  ASSUME LogTyped, NEW w \in Workers, run[w].id \in 0..made, run[w].id # 0,
         NEW f \in Files \cup {"report"}
  PROVE  /\ ModelOf(w, f) \in Models
         /\ \A targets \in SUBSET Targets :
              Others(ModelOf(w, f), targets) \subseteq Models
  BY RequestsAssumption DEF LogTyped, ModelOf, Models, Others, Ids

\* It is typed when the controller is new.
LEMMA TypedInit == Init => Typed
<1> SUFFICES ASSUME Init PROVE Typed
  OBVIOUS
<1>1. ManagerTyped
  BY FS_EmptySet DEF Init, ManagerTyped
<1>2. LogTyped
  BY RequestsAssumption DEF Init, LogTyped, Settings, Modes
<1>3. Idle \in Locals
  BY RequestsAssumption DEF Init, Locals, Idle
<1>4. RunsTyped
  BY <1>3 DEF Init, RunsTyped, Steps
<1>5. ASSUME NEW w \in Workers PROVE AtStep(w)
  BY DEF Init, AtStep
<1> QED
  BY <1>1, <1>2, <1>4, <1>5 DEF Typed

\* Of one thread, types are kept if they are for the run that makes the step.
LEMMA OneRunTyped ==
  ASSUME OneThread, ManagerTyped', LogTyped', RunsTyped, Locals \subseteq Locals',
         NEW w \in Workers, NEW locals \in Locals', NEW step \in Steps,
         run' = [run EXCEPT ![w] = locals], GoTo(w, step),
         /\ step # "idle" => locals.id # 0 /\ locals.request \in Requests
         /\ step \in {"loaded", "diff", "select", "use", "close"} =>
              locals.todo # <<>> /\ locals.model \in seen'
         /\ step = "use" => locals.queue # <<>>
         /\ step \in {"loaded", "diff"} => stack' # <<>>
         /\ step = "diff" => locals.request.diff \in Files
  PROVE  Typed'
<1>1. /\ RunsTyped' /\ pc'[w] = step /\ run'[w] = locals
  BY RunsTypedStep
<1>2. AtStep(w)'
  BY <1>1 DEF AtStep
<1>3. \A v \in Workers : v = w
  BY DEF OneThread
<1> QED
  BY <1>1, <1>2, <1>3 DEF Typed

\* Idle is what any run may keep.
LEMMA IdleTyped ==
  ASSUME LogTyped PROVE Idle \in Locals
  BY RequestsAssumption DEF LogTyped, Locals, Idle

LEMMA BeginTyped ==
  ASSUME Typed, OneThread, NEW w \in Workers, NEW r \in Requests, Begin(w, r)
  PROVE  Typed'
<1> DEFINE locals == [Idle EXCEPT !.id = made + 1, !.request = r, !.todo = r.files]
<1> USE DEF Begin
<1>1. ManagerTyped'
  BY DEF Typed, ManagerTyped, manager, history
<1>2. made \in 0..MaxRuns /\ made + 1 \in 0..MaxRuns /\ made' = made + 1
  BY RequestsAssumption DEF Typed, LogTyped
<1>3. LogTyped'
  BY <1>2 DEF Typed, LogTyped, history
<1>4. Locals \subseteq Locals'
  <2>1. seen' = seen /\ said' = said /\ made \in Nat /\ made' \in Nat /\ made =< made'
    BY <1>2 DEF manager, history
  <2> QED
    BY <2>1, LocalsGrow
<1>5. Idle \in Locals' /\ r.files \in Seq(Files)
  BY <1>4, IdleTyped, RequestTyped DEF Typed
<1>6. run' = [run EXCEPT ![w] = locals] /\ GoTo(w, "settings") /\ "settings" \in Steps
  BY DEF Steps
<1> HIDE DEF Begin
<1>7. [Idle EXCEPT !.id = made + 1] \in Locals'
  <2>1. made \in Nat
    BY <1>2, RequestsAssumption
  <2>2. made + 1 \in 0..made'
    BY <1>2, <2>1
  <2> QED
    BY <1>5, <2>2 DEF Locals
<1>8. [[Idle EXCEPT !.id = made + 1] EXCEPT !.request = r] \in Locals'
  BY <1>7 DEF Locals
<1>9. locals \in Locals'
  BY <1>5, <1>8 DEF Locals
<1>10. locals.id # 0 /\ locals.request \in Requests
  BY <1>2, RequestsAssumption DEF Idle
<1> HIDE DEF locals
<1> QED
  BY <1>1, <1>3, <1>4, <1>6, <1>9, <1>10, OneRunTyped DEF Typed

\* What a run under way has.
LEMMA Running ==
  ASSUME Typed, NEW w \in Workers, pc[w] # "idle"
  PROVE  /\ ManagerTyped /\ LogTyped /\ RunsTyped /\ AtStep(w)
         /\ run[w] \in Locals /\ run[w].id \in 0..made /\ run[w].id # 0
         /\ run[w].todo \in Seq(Files) /\ Ask(w) = run[w].request /\ Ask(w) \in Requests
         /\ run[w].model \in seen \cup {None} /\ run[w].report \in seen \cup {None}
         /\ run[w].queue \in Seq(seen) /\ run[w].success \in BOOLEAN
         /\ run[w].invalid \in BOOLEAN /\ run[w].carried \subseteq said
  BY LocalsOf DEF Typed, AtStep, Ask

\* While no run begins, what may be kept is what might be before.
LEMMA LocalsKept ==
  ASSUME LogTyped, seen \subseteq seen', said \subseteq said', made' = made
  PROVE  Locals \subseteq Locals'
<1>1. made \in Nat /\ made' \in Nat /\ made =< made'
  BY RequestsAssumption DEF LogTyped
<1> QED
  BY <1>1, LocalsGrow

\* The next entry point is taken up with what a run may keep.
LEMMA NextEntryTyped ==
  ASSUME OneThread, RunsTyped, Locals \subseteq Locals', ManagerTyped', LogTyped',
         NEW w \in Workers, NEW locals \in Locals', NextEntry(w, locals),
         locals.id # 0, locals.request \in Requests, locals.todo # <<>>
  PROVE  Typed'
<1> DEFINE next == [locals EXCEPT !.todo = Tail(@), !.model = None,
                                  !.report = None, !.queue = <<>>]
<1>1. Tail(locals.todo) \in Seq(Files)
  BY HeadTailProperties DEF Locals
<1>2. [locals EXCEPT !.todo = Tail(@)] \in Locals'
  BY <1>1 DEF Locals
<1>3. [[locals EXCEPT !.todo = Tail(@)] EXCEPT !.model = None] \in Locals'
  BY <1>2 DEF Locals
<1>4. [[[locals EXCEPT !.todo = Tail(@)] EXCEPT !.model = None] EXCEPT !.report = None]
        \in Locals'
  BY <1>3 DEF Locals
<1>5. next \in Locals'
  <2>1. <<>> \in Seq(seen')
    BY EmptySeq
  <2> QED
    BY <1>4, <2>1 DEF Locals
<1>6. next.id # 0 /\ next.request \in Requests
  BY DEF Locals
<1>7. run' = [run EXCEPT ![w] = next] /\ GoTo(w, "load") /\ "load" \in Steps
  BY DEF NextEntry, Steps
<1> HIDE DEF next
<1> QED
  BY <1>5, <1>6, <1>7, OneRunTyped

LEMMA ConfigureTyped ==
  ASSUME Typed, OneThread, NEW w \in Workers, Configure(w)
  PROVE  Typed'
<1> USE DEF Configure
<1>1. pc[w] # "idle"
  OBVIOUS
<1>2. settings' \in Settings
  BY <1>1, Running, RequestTyped DEF LogTyped, Settings, Modes
<1>3. ManagerTyped' /\ LogTyped'
  BY <1>1, <1>2, Running DEF ManagerTyped, LogTyped, manager, history
<1>4. Locals \subseteq Locals'
  BY <1>1, Running, LocalsKept DEF manager, history
<1>5. run' = [run EXCEPT ![w] = run[w]] /\ GoTo(w, "parse") /\ "parse" \in Steps
  BY <1>1, Running DEF RunsTyped, Steps
<1> HIDE DEF Configure
<1> QED
  BY <1>1, <1>3, <1>4, <1>5, Running, OneRunTyped DEF Ask

LEMMA ParseTyped ==
  ASSUME Typed, OneThread, NEW w \in Workers, Parse(w)
  PROVE  Typed'
<1>1. pc[w] # "idle"
  BY DEF Parse
<1>2. ManagerTyped'
  BY <1>1, Running DEF Parse, ManagerTyped, manager
<1>3. LogTyped' /\ said \subseteq said'
  <2>1. CASE UNCHANGED <<errors, log, said>>
    BY <1>1, <2>1, Running DEF Parse, LogTyped
  <2>2. CASE errors' = errors \cup {run[w].id} /\ Say(w, None, "invalid")
    <3>1. log' \subseteq said' /\ said' \subseteq Messages /\ said \subseteq said'
      BY <1>1, <2>2, Running, SayTyped
    <3>2. errors' \subseteq Ids
      BY <1>1, <2>2, Running, RequestsAssumption DEF LogTyped, Ids
    <3> QED
      BY <1>1, <3>1, <3>2, Running DEF Parse, LogTyped
  <2>3. CASE errors' = errors /\ Say(w, None, "failed")
    <3>1. log' \subseteq said' /\ said' \subseteq Messages /\ said \subseteq said'
      BY <1>1, <2>3, Running, SayTyped
    <3> QED
      BY <1>1, <2>3, <3>1, Running DEF Parse, LogTyped
  <2> QED
    BY <2>1, <2>2, <2>3 DEF Parse
<1>4. Locals \subseteq Locals'
  BY <1>1, <1>3, Running, LocalsKept DEF Parse, manager
<1>5. \E success \in BOOLEAN, step \in {"answer", "load"} :
        /\ run' = [run EXCEPT ![w].success = success] /\ GoTo(w, step)
  <2>1. run = [run EXCEPT ![w].success = run[w].success] /\ run[w].success \in BOOLEAN
    BY <1>1, Running DEF RunsTyped, Locals
  <2> QED
    BY <2>1 DEF Parse, Return
<1>6. PICK success \in BOOLEAN, step \in {"answer", "load"} :
        /\ run' = [run EXCEPT ![w].success = success] /\ GoTo(w, step)
  BY <1>5
<1> DEFINE locals == [run[w] EXCEPT !.success = success]
<1>7. locals \in Locals' /\ run' = [run EXCEPT ![w] = locals] /\ step \in Steps
  BY <1>1, <1>4, <1>6, Running DEF Locals, Steps
<1>8. locals.id # 0 /\ locals.request \in Requests
  BY <1>1, Running DEF Ask, Locals
<1> HIDE DEF locals
<1> QED
  BY <1>1, <1>2, <1>3, <1>4, <1>6, <1>7, <1>8, Running, OneRunTyped

LEMMA LoadRaisesTyped ==
  ASSUME Typed, OneThread, NEW w \in Workers, LoadRaises(w)
  PROVE  Typed'
<1>1. pc[w] # "idle" /\ run[w].todo # <<>>
  BY DEF LoadRaises
<1>2. ManagerTyped'
  BY <1>1, Running DEF LoadRaises, ManagerTyped, manager
<1>3. Entry(w) \in Files
  BY <1>1, Running, HeadTailProperties DEF Entry
<1>4. log' \subseteq said' /\ said' \subseteq Messages /\ said \subseteq said'
  BY <1>1, <1>3, Running, SayTyped DEF LoadRaises
<1>5. LogTyped' /\ Locals \subseteq Locals'
  BY <1>1, <1>4, Running, LocalsKept DEF LoadRaises, LogTyped, manager
<1> DEFINE locals == [run[w] EXCEPT !.success = FALSE]
<1>6. locals \in Locals' /\ NextEntry(w, locals)
  BY <1>1, <1>5, Running DEF LoadRaises, Locals
<1>7. locals.id # 0 /\ locals.request \in Requests /\ locals.todo # <<>>
  BY <1>1, Running DEF Ask, Locals
<1> HIDE DEF locals
<1> QED
  BY <1>1, <1>2, <1>5, <1>6, <1>7, Running, NextEntryTyped

LEMMA LoadNothingTyped ==
  ASSUME Typed, OneThread, NEW w \in Workers, LoadNothing(w)
  PROVE  Typed'
<1> DEFINE m == ModelOf(w, Entry(w))
<1>1. pc[w] # "idle" /\ run[w].todo # <<>>
  BY DEF LoadNothing
<1>2. Entry(w) \in Files
  BY <1>1, Running, HeadTailProperties DEF Entry
<1>3. m \in Models /\ <<m>> \in Seq(Models) /\ <<m>> # <<>> /\ Last(<<m>>) = m
  BY <1>1, <1>2, Running, ModelOfTyped DEF Last
<1>4. Push(<<m>>) /\ inError' = inError \cup {m} /\ Say(w, Entry(w), "found")
  BY DEF LoadNothing
<1> HIDE DEF m
<1>5. /\ stack' \in Seq(seen') /\ current' = m /\ m \in seen' /\ seen \subseteq seen'
      /\ seen' \subseteq Models /\ IsFiniteSet(seen')
  BY <1>1, <1>3, <1>4, Running, PushTyped
<1>6. ManagerTyped'
  BY <1>1, <1>4, <1>5, Running DEF LoadNothing, ManagerTyped
<1>7. log' \subseteq said' /\ said' \subseteq Messages /\ said \subseteq said'
  BY <1>1, <1>2, <1>4, Running, SayTyped
<1>8. LogTyped' /\ Locals \subseteq Locals'
  BY <1>1, <1>5, <1>7, Running, LocalsKept DEF LoadNothing, LogTyped
<1> DEFINE locals == [[run[w] EXCEPT !.model = m] EXCEPT !.success = FALSE]
<1>9. [run[w] EXCEPT !.model = m] \in Locals'
  BY <1>1, <1>5, <1>8, Running DEF Locals
<1>10. locals \in Locals'
  BY <1>9 DEF Locals
<1>11. run' = [run EXCEPT ![w] = locals] /\ GoTo(w, "close") /\ "close" \in Steps
  BY <1>1, Running DEF LoadNothing, Steps, RunsTyped, m
<1>12. /\ locals.id # 0 /\ locals.request \in Requests /\ locals.todo # <<>>
       /\ locals.model \in seen'
  BY <1>1, <1>5, Running DEF Ask, Locals
<1> HIDE DEF locals
<1> QED
  BY <1>1, <1>6, <1>8, <1>10, <1>11, <1>12, Running, OneRunTyped

\* The models that a document set stacks, in a sequence.
LEMMA OthersTyped ==
  ASSUME LogTyped, NEW w \in Workers, run[w].id \in 0..made, run[w].id # 0,
         NEW f \in Files \cup {"report"}, NEW targets \in SUBSET Targets
  PROVE  LET others == Others(ModelOf(w, f), targets) IN
         SetToSeq(others) \in Seq(Models) /\ Range(SetToSeq(others)) = others
<1> DEFINE m == ModelOf(w, f)
           others == Others(m, targets)
           g == [t \in targets |-> [m EXCEPT !.target = t]]
<1>1. IsFiniteSet(targets)
  BY FS_Subset, RequestsAssumption
<1>2. g \in Surjection(targets, others)
  BY DEF Surjection, Others
<1>3. IsFiniteSet(others)
  BY <1>1, <1>2, FS_Surjection
<1>4. others \subseteq Models
  BY ModelOfTyped
<1>5. SetToSeq(others) \in Seq(others) /\ Range(SetToSeq(others)) = others
  BY <1>3, SetToSeqProperties
<1>6. SetToSeq(others) \in Seq(Models)
  BY <1>4, <1>5, SeqMonotonic
<1> QED
  BY <1>5, <1>6

\* What a load stacks: the models of further targets and, on top, the one of the
\* entry point.
LEMMA LoadPushes ==
  ASSUME Typed, NEW w \in Workers, NEW targets \in SUBSET Targets, Load(w, targets)
  PROVE  LET m == ModelOf(w, Entry(w)) IN
         /\ Entry(w) \in Files /\ m \in Models /\ m \in seen'
         /\ stack' \in Seq(seen') /\ stack' # <<>> /\ Last(stack') = m /\ current' = m
         /\ seen' = seen \cup Others(m, targets) \cup {m}
         /\ seen' \subseteq Models /\ IsFiniteSet(seen')
<1> DEFINE m == ModelOf(w, Entry(w))
           others == Others(m, targets)
           q == SetToSeq(others)
           t == <<m>>
<1>1. pc[w] # "idle" /\ run[w].todo # <<>>
  BY DEF Load
<1>2. Entry(w) \in Files
  BY <1>1, Running, HeadTailProperties DEF Entry
<1>3. /\ m \in Models /\ t \in Seq(Models) /\ t # <<>> /\ Last(t) = m
      /\ Range(t) = {m}
  BY <1>1, <1>2, Running, ModelOfTyped DEF Last, Range
<1>4. q \in Seq(Models) /\ Range(q) = others
  BY <1>1, <1>2, Running, OthersTyped
<1>5. Push(q \o t)
  BY DEF Load
<1> HIDE DEF m, others, q, t
<1>6. /\ q \o t \in Seq(Models) /\ q \o t # <<>> /\ Last(q \o t) = m
      /\ Range(q \o t) = others \cup {m}
  BY <1>3, <1>4, LastConcat
<1>7. /\ stack' \in Seq(seen') /\ stack' # <<>> /\ Last(stack') = m
      /\ current' = m /\ m \in seen'
      /\ seen' = seen \cup Range(q \o t) /\ seen' \subseteq Models /\ IsFiniteSet(seen')
  BY <1>1, <1>5, <1>6, Running, PushTyped
<1>8. seen' = seen \cup others \cup {m}
  BY <1>6, <1>7
<1> QED
  BY <1>2, <1>3, <1>7, <1>8 DEF m, others

LEMMA LoadTyped ==
  ASSUME Typed, OneThread, NEW w \in Workers, NEW targets \in SUBSET Targets,
         Load(w, targets)
  PROVE  Typed'
<1> DEFINE m == ModelOf(w, Entry(w))
           others == Others(m, targets)
<1>1. pc[w] # "idle" /\ run[w].todo # <<>>
  BY DEF Load
<1>2. /\ stack' \in Seq(seen') /\ stack' # <<>> /\ current' = m /\ m \in seen'
      /\ seen' = seen \cup others \cup {m} /\ seen' \subseteq Models
      /\ IsFiniteSet(seen') /\ Entry(w) \in Files
  BY LoadPushes
<1>3. PICK bad \in SUBSET (others \cup {m}) :
        /\ inError' = inError \cup bad
        /\ Say(w, Entry(w), IF bad = {} THEN "loaded" ELSE "found")
  BY DEF Load
<1>4. run' = [run EXCEPT ![w].model = m]
  BY DEF Load
<1> HIDE DEF m, others
<1>5. bad \subseteq seen' /\ seen \subseteq seen'
  BY <1>2, <1>3
<1>6. ManagerTyped'
  BY <1>1, <1>2, <1>3, <1>5, Running DEF Load, ManagerTyped
<1>7. log' \subseteq said' /\ said' \subseteq Messages /\ said \subseteq said'
  BY <1>1, <1>2, <1>3, Running, SayTyped
<1>8. LogTyped' /\ Locals \subseteq Locals'
  BY <1>1, <1>5, <1>7, Running, LocalsKept DEF Load, LogTyped
<1> DEFINE locals == [run[w] EXCEPT !.model = m]
<1>9. locals \in Locals'
  BY <1>1, <1>2, <1>8, Running DEF Locals
<1>10. run' = [run EXCEPT ![w] = locals] /\ GoTo(w, "loaded") /\ "loaded" \in Steps
  BY <1>1, <1>4, Running DEF Load, Steps, RunsTyped
<1>11. /\ locals.id # 0 /\ locals.request \in Requests /\ locals.todo # <<>>
       /\ locals.model \in seen'
  BY <1>1, <1>2, Running DEF Ask, Locals
<1> HIDE DEF locals
<1> QED
  BY <1>1, <1>2, <1>6, <1>8, <1>9, <1>10, <1>11, Running, OneRunTyped

\* What is imported into is the model that was loaded; success can only be lost.
LEMMA LoadedParts ==
  ASSUME Typed, NEW w \in Workers, Loaded(w)
  PROVE  /\ pc[w] = "loaded" /\ run[w].model \in seen /\ Entry(w) \in Files
         /\ \/ UNCHANGED <<inError, log, said>>
            \/ inError' = inError \cup {run[w].model} /\ Say(w, Entry(w), "found")
         /\ \E success \in BOOLEAN :
              /\ success => run[w].success
              /\ run' = [run EXCEPT ![w].success = success]
              /\ GoTo(w, IF ~success THEN "close"
                         ELSE IF Ask(w).diff # None THEN "diff" ELSE "select")
         /\ UNCHANGED <<stack, current, closed, seen, errors, settings, made, used, pairs,
                        answers>>
<1>1. pc[w] = "loaded"
  BY DEF Loaded
<1>2. run[w].model \in seen /\ run[w].todo \in Seq(Files) /\ run[w].todo # <<>>
  BY <1>1, Running DEF AtStep
<1>3. Entry(w) \in Files
  BY <1>2, HeadTailProperties DEF Entry
<1> QED
  BY <1>1, <1>2, <1>3, Zenon DEF Loaded

\* Of what the run keeps no more than its success changes.
LEMMA LoadedKeeps ==
  ASSUME Typed, NEW w \in Workers, Loaded(w)
  PROVE  /\ run'[w].model = run[w].model /\ run'[w].report = run[w].report
         /\ run'[w].queue = run[w].queue /\ run'[w].todo = run[w].todo
         /\ run'[w].invalid = run[w].invalid /\ run'[w].request = run[w].request
         /\ run'[w].id = run[w].id
         /\ run'[w].success \in BOOLEAN /\ (run'[w].success => run[w].success)
         /\ pc'[w] = IF ~run'[w].success THEN "close"
                     ELSE IF Ask(w).diff # None THEN "diff" ELSE "select"
<1>1. pc \in [Workers -> Steps] /\ run \in [Workers -> Locals]
  BY DEF Typed, RunsTyped
<1>2. PICK success \in BOOLEAN :
        /\ success => run[w].success
        /\ run' = [run EXCEPT ![w].success = success]
        /\ GoTo(w, IF ~success THEN "close"
                   ELSE IF Ask(w).diff # None THEN "diff" ELSE "select")
  BY LoadedParts
<1>3. run'[w].success = success
  BY <1>1, <1>2 DEF Locals
<1>4. pc'[w] = IF ~success THEN "close" ELSE IF Ask(w).diff # None THEN "diff" ELSE "select"
  BY <1>1, <1>2 DEF GoTo
<1> QED
  BY <1>1, <1>2, <1>3, <1>4 DEF Locals

LEMMA LoadedTyped ==
  ASSUME Typed, OneThread, NEW w \in Workers, Loaded(w)
  PROVE  Typed'
<1> DEFINE m == run[w].model
<1>1. pc[w] # "idle" /\ pc[w] = "loaded" /\ m \in seen /\ Entry(w) \in Files
  BY LoadedParts
<1>2. \/ UNCHANGED <<inError, log, said>>
      \/ inError' = inError \cup {m} /\ Say(w, Entry(w), "found")
  BY LoadedParts
<1>3. PICK success \in BOOLEAN :
        /\ run' = [run EXCEPT ![w].success = success]
        /\ GoTo(w, IF ~success THEN "close"
                   ELSE IF Ask(w).diff # None THEN "diff" ELSE "select")
  BY LoadedParts
<1>4. UNCHANGED <<stack, current, closed, seen, errors, settings, made, used, pairs, answers>>
  BY LoadedParts
<1>5. ManagerTyped'
  BY <1>1, <1>2, <1>4, Running DEF ManagerTyped
<1>6. log' \subseteq said' /\ said' \subseteq Messages /\ said \subseteq said'
  <2>1. CASE UNCHANGED <<inError, log, said>>
    BY <1>1, <2>1, Running DEF LogTyped
  <2>2. CASE Say(w, Entry(w), "found")
    BY <1>1, <2>2, Running, SayTyped
  <2> QED
    BY <1>2, <2>1, <2>2
<1>7. LogTyped' /\ Locals \subseteq Locals'
  BY <1>1, <1>4, <1>6, Running, LocalsKept DEF LogTyped
<1> DEFINE locals == [run[w] EXCEPT !.success = success]
<1>8. locals \in Locals'
  <2>1. locals \in Locals
    BY <1>1, Running DEF Locals
  <2> QED
    BY <1>7, <2>1
<1>9. run' = [run EXCEPT ![w] = locals]
  BY <1>1, <1>3, Running DEF RunsTyped
<1>10. /\ locals.id # 0 /\ locals.request = Ask(w) /\ Ask(w) \in Requests
       /\ locals.todo # <<>> /\ locals.model \in seen' /\ stack' # <<>>
  BY <1>1, <1>4, Running DEF Ask, Locals, AtStep
<1> HIDE DEF locals
<1>11. PICK step \in {"close", "diff", "select"} :
         GoTo(w, step) /\ (step = "diff" => Ask(w).diff # None)
  BY <1>3
<1>12. step \in Steps /\ step # "idle" /\ step # "use"
  BY DEF Steps
<1>13. step = "diff" => locals.request.diff \in Files
  BY <1>10, <1>11, RequestTyped
<1> QED
  BY <1>1, <1>5, <1>7, <1>8, <1>9, <1>10, <1>11, <1>12, <1>13, Running, OneRunTyped

LEMMA EscapeTyped ==
  ASSUME Typed, OneThread, NEW w \in Workers, Escape(w)
  PROVE  Typed'
<1>1. pc[w] # "idle"
  BY DEF Escape
<1>2. ManagerTyped' /\ LogTyped'
  BY <1>1, Running DEF Escape, ManagerTyped, LogTyped, manager, history
<1>3. Locals \subseteq Locals'
  BY <1>1, Running, LocalsKept DEF Escape, manager, history
<1>4. Idle \in Locals' /\ run' = [run EXCEPT ![w] = Idle] /\ GoTo(w, "idle")
      /\ "idle" \in Steps
  BY <1>1, <1>3, Running, IdleTyped DEF Escape, Steps
<1> QED
  BY <1>1, <1>2, <1>3, <1>4, Running, OneRunTyped

LEMMA DiffRaisesTyped ==
  ASSUME Typed, OneThread, NEW w \in Workers, DiffRaises(w)
  PROVE  Typed'
<1> DEFINE m == ModelOf(w, Ask(w).diff)
           report == ModelOf(w, "report")
<1>1. pc[w] # "idle" /\ pc[w] = "diff"
  BY DEF DiffRaises
<1>2. Ask(w).diff \in Files
  BY <1>1, Running DEF AtStep, Ask
<1>3. <<m, report>> \in Seq(Models) /\ <<m, report>> # <<>>
  BY <1>1, <1>2, Running, ModelOfTyped
<1>4. UNCHANGED <<stack, current, seen>> \/ Push(<<m, report>>)
  BY DEF DiffRaises
<1> HIDE DEF m, report
<1>5. /\ stack' \in Seq(seen') /\ current' \in seen' \cup {None} /\ seen \subseteq seen'
      /\ seen' \subseteq Models /\ IsFiniteSet(seen')
  <2>1. CASE UNCHANGED <<stack, current, seen>>
    BY <1>1, <2>1, Running DEF ManagerTyped
  <2>2. CASE Push(<<m, report>>)
    BY <1>1, <1>3, <2>2, Running, PushTyped
  <2> QED
    BY <1>4, <2>1, <2>2
<1>6. ManagerTyped'
  BY <1>1, <1>5, Running DEF DiffRaises, ManagerTyped
<1>7. log' \subseteq said' /\ said' \subseteq Messages /\ said \subseteq said'
  BY <1>1, <1>2, Running, SayTyped DEF DiffRaises
<1>8. LogTyped' /\ Locals \subseteq Locals'
  BY <1>1, <1>5, <1>7, Running, LocalsKept DEF DiffRaises, LogTyped
<1> DEFINE locals == [run[w] EXCEPT !.success = FALSE]
<1>9. locals \in Locals'
  BY <1>1, <1>8, Running DEF Locals
<1>10. run' = [run EXCEPT ![w] = locals] /\ GoTo(w, "close") /\ "close" \in Steps
  BY <1>1, Running DEF DiffRaises, Steps, RunsTyped
<1>11. /\ locals.id # 0 /\ locals.request \in Requests /\ locals.todo # <<>>
       /\ locals.model \in seen'
  BY <1>1, <1>5, Running DEF Ask, Locals, AtStep
<1> HIDE DEF locals
<1> QED
  BY <1>1, <1>6, <1>8, <1>9, <1>10, <1>11, Running, OneRunTyped

LEMMA DiffInErrorTyped ==
  ASSUME Typed, OneThread, NEW w \in Workers, DiffInError(w)
  PROVE  Typed'
<1> DEFINE m == ModelOf(w, Ask(w).diff)
<1>1. pc[w] # "idle" /\ pc[w] = "diff"
  BY DEF DiffInError
<1>2. Ask(w).diff \in Files
  BY <1>1, Running DEF AtStep, Ask
<1>3. <<m>> \in Seq(Models) /\ <<m>> # <<>> /\ Last(<<m>>) = m
  BY <1>1, <1>2, Running, ModelOfTyped DEF Last
<1>4. /\ Push(<<m>>) /\ inError' = inError \cup {m}
      /\ closed' \subseteq closed \cup {m} /\ Say(w, Ask(w).diff, "found")
  BY DEF DiffInError
<1> HIDE DEF m
<1>5. /\ stack' \in Seq(seen') /\ current' = m /\ m \in seen' /\ seen \subseteq seen'
      /\ seen' \subseteq Models /\ IsFiniteSet(seen')
  BY <1>1, <1>3, <1>4, Running, PushTyped
<1>6. ManagerTyped'
  BY <1>1, <1>4, <1>5, Running DEF DiffInError, ManagerTyped
<1>7. log' \subseteq said' /\ said' \subseteq Messages /\ said \subseteq said'
  BY <1>1, <1>2, <1>4, Running, SayTyped
<1>8. LogTyped' /\ Locals \subseteq Locals'
  BY <1>1, <1>5, <1>7, Running, LocalsKept DEF DiffInError, LogTyped
<1> DEFINE locals == [run[w] EXCEPT !.success = FALSE]
<1>9. locals \in Locals'
  BY <1>1, <1>8, Running DEF Locals
<1>10. run' = [run EXCEPT ![w] = locals] /\ GoTo(w, "close") /\ "close" \in Steps
  BY <1>1, Running DEF DiffInError, Steps, RunsTyped
<1>11. /\ locals.id # 0 /\ locals.request \in Requests /\ locals.todo # <<>>
       /\ locals.model \in seen'
  BY <1>1, <1>5, Running DEF Ask, Locals, AtStep
<1> HIDE DEF locals
<1> QED
  BY <1>1, <1>6, <1>8, <1>9, <1>10, <1>11, Running, OneRunTyped

\* What a comparison stacks, and which model it takes for the first.
LEMMA DiffPushes ==
  ASSUME Typed, NEW w \in Workers, NEW targets \in SUBSET Targets, Diff(w, targets)
  PROVE  LET m == ModelOf(w, Ask(w).diff)
             report == ModelOf(w, "report")
             q == SetToSeq(Others(m, targets)) IN
         /\ Ask(w).diff \in Files /\ m \in seen' /\ report \in seen'
         /\ stack' \in Seq(seen') /\ current' = report
         /\ seen' = seen \cup Others(m, targets) \cup {m, report}
         /\ seen' \subseteq Models /\ IsFiniteSet(seen') /\ Last(stack \o q) \in seen'
<1> DEFINE m == ModelOf(w, Ask(w).diff)
           report == ModelOf(w, "report")
           others == Others(m, targets)
           q == SetToSeq(others)
           t == <<m, report>>
<1>1. pc[w] # "idle" /\ pc[w] = "diff"
  BY DEF Diff
<1>2. Ask(w).diff \in Files
  BY <1>1, Running DEF AtStep, Ask
<1>3. /\ m \in Models /\ t \in Seq(Models) /\ t # <<>> /\ Last(t) = report
      /\ Range(t) = {m, report}
  BY <1>1, <1>2, Running, ModelOfTyped DEF Last, Range
<1>4. q \in Seq(Models) /\ Range(q) = others
  BY <1>1, <1>2, Running, OthersTyped
<1>5. Push(q \o t)
  BY DEF Diff
<1> HIDE DEF m, report, others, q, t
<1>6. /\ q \o t \in Seq(Models) /\ q \o t # <<>> /\ Last(q \o t) = report
      /\ Range(q \o t) = others \cup {m, report}
  BY <1>3, <1>4, LastConcat
<1>7. /\ stack' \in Seq(seen') /\ current' = report /\ report \in seen'
      /\ seen' = seen \cup Range(q \o t) /\ seen' \subseteq Models /\ IsFiniteSet(seen')
  BY <1>1, <1>5, <1>6, Running, PushTyped
<1>8. seen' = seen \cup others \cup {m, report}
  BY <1>6, <1>7
<1>9. stack \in Seq(seen') /\ stack # <<>>
  BY <1>1, <1>8, Running, SeqMonotonic DEF ManagerTyped, AtStep
<1>10. q \in Seq(seen')
  BY <1>4, <1>8, SeqOfRange, SeqMonotonic
<1>11. Last(stack \o q) \in seen'
  <2>1. stack \o q \in Seq(seen') /\ stack \o q # <<>>
    BY <1>9, <1>10, ConcatProperties, ConcatEqualIffEmpty
  <2> QED
    BY <2>1, LastIn
<1> QED
  BY <1>2, <1>7, <1>8, <1>11 DEF m, report, others, q

LEMMA DiffTyped ==
  ASSUME Typed, OneThread, NEW w \in Workers, NEW targets \in SUBSET Targets,
         Diff(w, targets)
  PROVE  Typed'
<1> DEFINE m == ModelOf(w, Ask(w).diff)
           report == ModelOf(w, "report")
           others == Others(m, targets)
           from == Last(stack \o SetToSeq(others))
<1>1. pc[w] # "idle" /\ pc[w] = "diff"
  BY DEF Diff
<1>2. /\ stack' \in Seq(seen') /\ current' = report /\ m \in seen' /\ report \in seen'
      /\ seen' = seen \cup others \cup {m, report} /\ seen' \subseteq Models
      /\ IsFiniteSet(seen') /\ from \in seen' /\ Ask(w).diff \in Files
  BY DiffPushes
<1>3. /\ Say(w, Ask(w).diff, "loaded")
      /\ pairs' = pairs \cup {[id |-> run[w].id, entry |-> run[w].model,
                               from |-> from, to |-> m]}
      /\ run' = [run EXCEPT ![w].report = report]
  BY DEF Diff
<1> HIDE DEF m, report, others, from
<1>4. seen \subseteq seen'
  BY <1>2
<1>5. ManagerTyped'
  BY <1>1, <1>2, <1>3, <1>4, Running DEF Diff, ManagerTyped
<1>6. log' \subseteq said' /\ said' \subseteq Messages /\ said \subseteq said'
  BY <1>1, <1>2, <1>3, Running, SayTyped
<1>7. LogTyped' /\ Locals \subseteq Locals'
  BY <1>1, <1>4, <1>6, Running, LocalsKept DEF Diff, LogTyped
<1> DEFINE locals == [run[w] EXCEPT !.report = report]
<1>8. locals \in Locals'
  BY <1>1, <1>2, <1>7, Running DEF Locals
<1>9. run' = [run EXCEPT ![w] = locals] /\ GoTo(w, "select") /\ "select" \in Steps
  BY <1>1, <1>3, Running DEF Diff, Steps, RunsTyped
<1>10. /\ locals.id # 0 /\ locals.request \in Requests /\ locals.todo # <<>>
       /\ locals.model \in seen'
  BY <1>1, <1>4, Running DEF Ask, Locals, AtStep
<1> HIDE DEF locals
<1> QED
  BY <1>1, <1>5, <1>7, <1>8, <1>9, <1>10, Running, OneRunTyped

LEMMA SelectTyped ==
  ASSUME Typed, OneThread, NEW w \in Workers, Select(w)
  PROVE  Typed'
<1> DEFINE q == SetToSeq(OthersOf(current))
           queue == <<current>> \o q
<1>1. pc[w] # "idle" /\ pc[w] = "select" /\ current # None
  BY DEF Select
<1>2. ManagerTyped' /\ LogTyped'
  BY <1>1, Running DEF Select, ManagerTyped, LogTyped, manager, history
<1>3. Locals \subseteq Locals' /\ seen' = seen
  BY <1>1, Running, LocalsKept DEF Select, manager, history
<1>4. OthersOf(current) \subseteq seen
  BY DEF OthersOf
<1>5. q \in Seq(seen)
  <2>1. IsFiniteSet(OthersOf(current))
    BY <1>1, <1>4, Running, FS_Subset DEF ManagerTyped
  <2>2. q \in Seq(OthersOf(current))
    BY <2>1, SetToSeqProperties
  <2> QED
    BY <1>4, <2>2, SeqMonotonic
<1>6. run' = [run EXCEPT ![w].queue = queue]
  BY DEF Select
<1>7. <<current>> \in Seq(seen) /\ <<current>> # <<>>
  BY <1>1, Running DEF ManagerTyped
<1> HIDE DEF q
<1>8. queue \in Seq(seen) /\ queue # <<>>
  BY <1>5, <1>7, ConcatProperties, ConcatEqualIffEmpty
<1> HIDE DEF queue
<1> DEFINE locals == [run[w] EXCEPT !.queue = queue]
<1>9. locals \in Locals'
  <2>1. locals \in Locals
    BY <1>1, <1>8, Running DEF Locals
  <2> QED
    BY <1>3, <2>1
<1>10. run' = [run EXCEPT ![w] = locals] /\ GoTo(w, "use") /\ "use" \in Steps
  BY <1>1, <1>6, Running DEF Select, Steps, RunsTyped
<1>11. /\ locals.id # 0 /\ locals.request \in Requests /\ locals.todo # <<>>
       /\ locals.model \in seen' /\ locals.queue # <<>>
  BY <1>1, <1>3, <1>8, Running DEF Ask, Locals, AtStep
<1> HIDE DEF locals
<1> QED
  BY <1>1, <1>2, <1>3, <1>9, <1>10, <1>11, Running, OneRunTyped

\* The next model of a queue is a model, whose origin can be told.
LEMMA NextToUse ==
  ASSUME Typed, NEW w \in Workers, pc[w] = "use"
  PROVE  /\ Head(run[w].queue) \in seen /\ Tail(run[w].queue) \in Seq(seen)
         /\ Head(run[w].queue).of \in Files \cup {"report", None}
<1>1. run[w].queue \in Seq(seen) /\ run[w].queue # <<>> /\ seen \subseteq Models
  BY Running DEF AtStep, ManagerTyped
<1>2. Head(run[w].queue) \in seen /\ Tail(run[w].queue) \in Seq(seen)
  BY <1>1, HeadTailProperties
<1> QED
  BY <1>1, <1>2 DEF Models

LEMMA UseTyped ==
  ASSUME Typed, OneThread, NEW w \in Workers, Use(w)
  PROVE  Typed'
<1> DEFINE m == Head(run[w].queue)
           rest == Tail(run[w].queue)
<1>1. pc[w] # "idle" /\ pc[w] = "use"
  BY DEF Use
<1>2. m \in seen /\ rest \in Seq(seen) /\ m.of \in Files \cup {"report", None}
  BY <1>1, NextToUse
<1>3. \/ UNCHANGED <<inError, log, said>>
      \/ inError' = inError \cup {m} /\ Say(w, m.of, "found")
  BY DEF Use
<1>4. run' = [run EXCEPT ![w].model = m, ![w].queue = Tail(@)]
  BY DEF Use
<1>5. PICK step \in {"close", "use"} : GoTo(w, step) /\ (step = "use" => rest # <<>>)
  BY DEF Use
<1>6. ManagerTyped'
  BY <1>1, <1>2, <1>3, Running DEF Use, ManagerTyped
<1>7. log' \subseteq said' /\ said' \subseteq Messages /\ said \subseteq said'
  <2>1. CASE UNCHANGED <<inError, log, said>>
    BY <1>1, <2>1, Running DEF LogTyped
  <2>2. CASE Say(w, m.of, "found")
    <3> HIDE DEF m
    <3> QED
      BY <1>1, <1>2, <2>2, Running, SayTyped
  <2> QED
    BY <1>3, <2>1, <2>2
<1>8. LogTyped' /\ Locals \subseteq Locals'
  BY <1>1, <1>7, Running, LocalsKept DEF Use, LogTyped
<1> DEFINE locals == [[run[w] EXCEPT !.model = m] EXCEPT !.queue = rest]
<1>9. locals \in Locals'
  <2> HIDE DEF m, rest
  <2>1. [run[w] EXCEPT !.model = m] \in Locals
    BY <1>1, <1>2, Running DEF Locals
  <2>2. locals \in Locals
    BY <1>2, <2>1 DEF Locals
  <2> QED
    BY <1>8, <2>2
<1>10. run' = [run EXCEPT ![w] = locals] /\ step \in Steps
  BY <1>1, <1>4, <1>5, Running DEF Steps, RunsTyped, Locals
<1>11. /\ locals.id # 0 /\ locals.request \in Requests /\ locals.todo # <<>>
       /\ locals.model \in seen' /\ locals.queue = rest
  BY <1>1, <1>2, Running DEF Use, Ask, Locals, AtStep
<1> HIDE DEF locals, m, rest
<1> QED
  BY <1>1, <1>5, <1>6, <1>8, <1>9, <1>10, <1>11, Running, OneRunTyped

LEMMA UseRaisesTyped ==
  ASSUME Typed, OneThread, NEW w \in Workers, UseRaises(w)
  PROVE  Typed'
<1> DEFINE m == Head(run[w].queue)
<1>1. pc[w] # "idle" /\ pc[w] = "use"
  BY DEF UseRaises
<1>2. m \in seen /\ m.of \in Files \cup {"report", None}
  BY <1>1, NextToUse
<1>3. Say(w, m.of, "failed") /\ run' = [run EXCEPT ![w].model = m, ![w].success = FALSE]
  BY DEF UseRaises
<1> HIDE DEF m
<1>4. ManagerTyped'
  BY <1>1, Running DEF UseRaises, ManagerTyped, manager
<1>5. log' \subseteq said' /\ said' \subseteq Messages /\ said \subseteq said'
  BY <1>1, <1>2, <1>3, Running, SayTyped
<1>6. LogTyped' /\ Locals \subseteq Locals' /\ seen' = seen
  BY <1>1, <1>5, Running, LocalsKept DEF UseRaises, LogTyped, manager
<1> DEFINE locals == [[run[w] EXCEPT !.model = m] EXCEPT !.success = FALSE]
<1>7. locals \in Locals'
  <2>1. [run[w] EXCEPT !.model = m] \in Locals
    BY <1>1, <1>2, Running DEF Locals
  <2>2. locals \in Locals
    BY <2>1 DEF Locals
  <2> QED
    BY <1>6, <2>2
<1>8. run' = [run EXCEPT ![w] = locals] /\ GoTo(w, "close") /\ "close" \in Steps
  BY <1>1, <1>3, Running DEF UseRaises, Steps, RunsTyped, Locals
<1>9. /\ locals.id # 0 /\ locals.request \in Requests /\ locals.todo # <<>>
      /\ locals.model \in seen'
  BY <1>1, <1>2, <1>6, Running DEF Ask, Locals, AtStep
<1> HIDE DEF locals
<1> QED
  BY <1>1, <1>4, <1>6, <1>7, <1>8, <1>9, Running, OneRunTyped

\* What is left when a model is closed through the manager is typed.
LEMMA PopTyped ==
  ASSUME ManagerTyped, NEW m \in seen, NEW besides \in SUBSET seen, Pop(m, besides)
  PROVE  stack' \in Seq(seen) /\ current' \in seen \cup {None} /\ closed' \subseteq seen
<1>1. stack' \in Seq(seen)
  BY RemoveFirstRange DEF Pop, ManagerTyped
<1>2. stack' # <<>> => Head(stack') \in seen
  BY <1>1, HeadTailProperties
<1> QED
  BY <1>1, <1>2 DEF Pop, ManagerTyped

LEMMA CloseTyped ==
  ASSUME Typed, OneThread, NEW w \in Workers, Close(w)
  PROVE  Typed'
<1> DEFINE m == run[w].model
           report == run[w].report
           both == UNION {{p.from, p.to} : p \in {q \in pairs : q.id = run[w].id}}
           invalid == run[w].invalid \/ {m, report} \cap inError # {}
<1>1. pc[w] # "idle" /\ pc[w] = "close"
  BY DEF Close
<1>2. m \in seen /\ report \in seen \cup {None} /\ both \subseteq seen
  BY <1>1, Running DEF AtStep, ManagerTyped
<1>3. \/ UNCHANGED <<stack, current, closed>>
      \/ report # None /\ Pop(report, both)
      \/ Pop(m, {})
  BY DEF Close
<1>4. NextEntry(w, [run[w] EXCEPT !.invalid = invalid]) /\ invalid \in BOOLEAN
  BY <1>1, Running, Zenon DEF Close, Locals
<1> HIDE DEF m, report, both, invalid
<1>5. stack' \in Seq(seen) /\ current' \in seen \cup {None} /\ closed' \subseteq seen
  <2>1. ManagerTyped
    BY <1>1, Running
  <2>2. CASE UNCHANGED <<stack, current, closed>>
    BY <2>1, <2>2 DEF ManagerTyped
  <2>3. CASE report # None /\ Pop(report, both)
    BY <1>2, <2>1, <2>3, PopTyped
  <2>4. CASE Pop(m, {})
    BY <1>2, <2>1, <2>4, PopTyped
  <2> QED
    BY <1>3, <2>2, <2>3, <2>4
<1>6. ManagerTyped' /\ LogTyped'
  BY <1>1, <1>5, Running DEF Close, ManagerTyped, LogTyped, history
<1>7. Locals \subseteq Locals'
  BY <1>1, Running, LocalsKept DEF Close, history
<1> DEFINE locals == [run[w] EXCEPT !.invalid = invalid]
<1>8. locals \in Locals'
  <2>1. locals \in Locals
    BY <1>1, <1>4, Running DEF Locals
  <2> QED
    BY <1>7, <2>1
<1>9. locals.id # 0 /\ locals.request \in Requests /\ locals.todo # <<>>
  BY <1>1, Running DEF Ask, Locals, AtStep
<1>10. NextEntry(w, locals)
  BY <1>4
<1> HIDE DEF locals
<1> QED
  BY <1>1, <1>6, <1>7, <1>8, <1>9, <1>10, Running, NextEntryTyped

LEMMA FinishTyped ==
  ASSUME Typed, OneThread, NEW w \in Workers, Finish(w)
  PROVE  Typed'
<1> DEFINE success == /\ run[w].success
                      /\ ~(Ask(w).exitCode /\ (run[w].invalid \/ errors # {}))
<1>1. pc[w] # "idle"
  BY DEF Finish
<1>2. ManagerTyped' /\ LogTyped'
  BY <1>1, Running DEF Finish, ManagerTyped, LogTyped, manager, history
<1>3. Locals \subseteq Locals'
  BY <1>1, Running, LocalsKept DEF Finish, manager, history
<1>4. success \in BOOLEAN /\ Return(w, success)
  BY Zenon DEF Finish
<1> HIDE DEF success
<1> DEFINE locals == [run[w] EXCEPT !.success = success]
<1>5. locals \in Locals'
  BY <1>1, <1>3, <1>4, Running DEF Locals
<1>6. run' = [run EXCEPT ![w] = locals] /\ GoTo(w, "answer") /\ "answer" \in Steps
  BY <1>1, <1>4, Running DEF Return, Steps, RunsTyped
<1>7. locals.id # 0 /\ locals.request \in Requests
  BY <1>1, Running DEF Ask, Locals
<1> HIDE DEF locals
<1> QED
  BY <1>1, <1>2, <1>3, <1>5, <1>6, <1>7, Running, OneRunTyped

LEMMA ReplyTyped ==
  ASSUME Typed, OneThread, NEW w \in Workers, NEW messages, Reply(w, messages),
         pc[w] # "idle", UNCHANGED <<manager, errors, settings, made, pairs, said>>,
         log' \subseteq log
  PROVE  Typed'
<1>1. ManagerTyped' /\ LogTyped'
  BY Running DEF ManagerTyped, LogTyped, manager
<1>2. Locals \subseteq Locals'
  BY Running, LocalsKept DEF manager
<1>3. Idle \in Locals' /\ run' = [run EXCEPT ![w] = Idle] /\ GoTo(w, "idle")
      /\ "idle" \in Steps
  BY <1>2, Running, IdleTyped DEF Reply, Steps
<1> QED
  BY <1>1, <1>2, <1>3, Running, OneRunTyped

LEMMA ReadLogTyped ==
  ASSUME Typed, OneThread, NEW w \in Workers, ReadLog(w)
  PROVE  Typed'
<1>1. pc[w] # "idle"
  BY DEF ReadLog
<1>2. ManagerTyped' /\ LogTyped'
  BY <1>1, Running DEF ReadLog, ManagerTyped, LogTyped, manager, history
<1>3. Locals \subseteq Locals'
  BY <1>1, Running, LocalsKept DEF ReadLog, manager, history
<1>4. PICK carried \in SUBSET log : run' = [run EXCEPT ![w].carried = carried]
  BY DEF ReadLog
<1> DEFINE locals == [run[w] EXCEPT !.carried = carried]
<1>5. locals \in Locals'
  <2>1. carried \subseteq said
    BY <1>1, <1>4, Running DEF LogTyped
  <2>2. locals \in Locals
    BY <1>1, <2>1, Running DEF Locals
  <2> QED
    BY <1>3, <2>2
<1>6. run' = [run EXCEPT ![w] = locals] /\ GoTo(w, "clear") /\ "clear" \in Steps
  BY <1>1, <1>4, Running DEF ReadLog, Steps, RunsTyped
<1>7. locals.id # 0 /\ locals.request \in Requests
  BY <1>1, Running DEF Ask, Locals
<1> HIDE DEF locals
<1> QED
  BY <1>1, <1>2, <1>3, <1>5, <1>6, <1>7, Running, OneRunTyped

LEMMA TypedNext == Typed /\ OneThread /\ [Next]_vars => Typed'
<1> SUFFICES ASSUME Typed, OneThread, [Next]_vars PROVE Typed'
  OBVIOUS
<1>1. CASE UNCHANGED vars
  BY <1>1 DEF vars, manager, history, Typed, ManagerTyped, LogTyped, RunsTyped,
              Locals, AtStep
<1>2. ASSUME NEW w \in Workers, NEW r \in Requests, Begin(w, r) PROVE Typed'
  BY <1>2, BeginTyped
<1>3. ASSUME NEW w \in Workers, Work(w) PROVE Typed'
  <2>1. CASE Configure(w)
    BY <2>1, ConfigureTyped
  <2>2. CASE Parse(w)
    BY <2>2, ParseTyped
  <2>3. CASE LoadRaises(w)
    BY <2>3, LoadRaisesTyped
  <2>4. CASE LoadNothing(w)
    BY <2>4, LoadNothingTyped
  <2>5. ASSUME NEW targets \in SUBSET Targets, Load(w, targets) PROVE Typed'
    BY <2>5, LoadTyped
  <2>6. ASSUME NEW targets \in SUBSET Targets, Diff(w, targets) PROVE Typed'
    BY <2>6, DiffTyped
  <2>7. CASE Loaded(w)
    BY <2>7, LoadedTyped
  <2>8. CASE Escape(w)
    BY <2>8, EscapeTyped
  <2>9. CASE DiffRaises(w)
    BY <2>9, DiffRaisesTyped
  <2>10. CASE DiffInError(w)
    BY <2>10, DiffInErrorTyped
  <2>11. CASE Select(w)
    BY <2>11, SelectTyped
  <2>12. CASE Use(w)
    BY <2>12, UseTyped
  <2>13. CASE UseRaises(w)
    BY <2>13, UseRaisesTyped
  <2>14. CASE Close(w)
    BY <2>14, CloseTyped
  <2>15. CASE Finish(w)
    BY <2>15, FinishTyped
  <2>16. CASE AnswerWithout(w)
    <3>1. /\ pc[w] # "idle" /\ Reply(w, {}) /\ log' \subseteq log
          /\ UNCHANGED <<manager, errors, settings, made, pairs, said>>
      BY <2>16 DEF AnswerWithout
    <3> QED
      BY <3>1, ReplyTyped
  <2>17. CASE ReadLog(w)
    BY <2>17, ReadLogTyped
  <2>18. CASE ClearLog(w)
    <3>1. /\ pc[w] # "idle" /\ Reply(w, run[w].carried) /\ log' \subseteq log
          /\ UNCHANGED <<manager, errors, settings, made, pairs, said>>
      BY <2>18 DEF ClearLog
    <3> QED
      BY <3>1, ReplyTyped
  <2> QED
    BY <1>3, <2>1, <2>2, <2>3, <2>4, <2>5, <2>6, <2>7, <2>8, <2>9, <2>10, <2>11,
       <2>12, <2>13, <2>14, <2>15, <2>16, <2>17, <2>18 DEF Work
<1> QED
  BY <1>1, <1>2, <1>3 DEF Next

\* A Session's or a command line's state is of its type: runs are numbered, the
\* current model, those of the stack and of the runs have been loaded, what the log's
\* buffer holds has been logged.
THEOREM TypeCorrect ==
  ASSUME OneThread
  PROVE  Spec => []TypeOK
<1>1. Typed => TypeOK
  <2> SUFFICES ASSUME Typed PROVE TypeOK
    OBVIOUS
  <2>1. stack \in Seq(Models)
    BY SeqMonotonic DEF Typed, ManagerTyped
  <2>2. ManagerTyped /\ LogTyped /\ RunsTyped
    BY DEF Typed
  <2>3. ASSUME NEW w \in Workers
        PROVE  /\ run[w].id \in 0..made /\ (pc[w] # "idle" => run[w].request \in Requests)
               /\ run[w].model \in seen \cup {None} /\ run[w].report \in seen \cup {None}
    BY <2>2, LocalsOf DEF Typed, AtStep
  <2> QED
    BY <2>1, <2>2, <2>3 DEF TypeOK, ManagerTyped, LogTyped, RunsTyped
<1>2. Typed /\ [Next]_vars => Typed'
  BY TypedNext
<1> QED
  BY <1>1, <1>2, TypedInit, PTL DEF Spec

-----------------------------------------------------------------------------
(* Numbers of runs *)

\* What every step of a run leaves alone, and that what it adds is the run's.
Framed(w) ==
    /\ made' = made
    /\ pc'[w] # "idle" => run'[w].id = run[w].id /\ run'[w].request = run[w].request
    /\ pc'[w] \in {"settings", "parse"} => pc[w] = "settings" /\ seen' = seen
    /\ seen \subseteq seen' /\ \A m \in seen' : m \in seen \/ m.run = run[w].id
    /\ said \subseteq said' /\ \A m \in said' : m \in said \/ (m.run = run[w].id /\ m \in log')
    /\ pc'[w] # "idle" => log \subseteq log'
    /\ \A m \in log' : m \in log \/ m.run = run[w].id
    /\ \A r \in errors' : r \in errors \/ r = run[w].id
    /\ answers \subseteq answers'
    /\ \A a \in answers' : a \in answers \/ (a.id = run[w].id /\ pc'[w] = "idle")

\* The messages of a step are of its run.
LEMMA SayFramed ==
  ASSUME NEW w, NEW about, NEW what, Say(w, about, what)
  PROVE  /\ said \subseteq said' /\ log \subseteq log'
         /\ \A m \in said' : m \in said \/ (m.run = run[w].id /\ m \in log')
         /\ \A m \in log' : m \in log \/ m.run = run[w].id
  BY DEF Say

\* A step goes on with the same run.
LEMMA SameRun ==
  ASSUME Typed, NEW w \in Workers, pc[w] # "idle", NEW locals,
         locals.id = run[w].id, locals.request = run[w].request,
         run' = [run EXCEPT ![w] = locals]
  PROVE  run'[w].id = run[w].id /\ run'[w].request = run[w].request
  BY Running DEF RunsTyped

\* The models of other targets are of the run and the entry point.
LEMMA OthersLike ==
  ASSUME NEW m \in Models, NEW targets \in SUBSET Targets
  PROVE  \A x \in Others(m, targets) : x.run = m.run /\ x.of = m.of /\ x.target # None
  BY RequestsAssumption DEF Models, Others

LEMMA ModelOfRun ==
  ASSUME NEW w, NEW f
  PROVE  /\ ModelOf(w, f).run = run[w].id /\ ModelOf(w, f).of = f
         /\ ModelOf(w, f).target = None
  BY DEF ModelOf

LEMMA WorkFramed ==
  ASSUME Typed, NEW w \in Workers, Work(w)
  PROVE  Framed(w)
<1>0. pc \in [Workers -> Steps] /\ run \in [Workers -> Locals]
  BY DEF Typed, RunsTyped
<1> USE DEF Framed, GoTo
<1>1. CASE Configure(w)
  BY <1>0, <1>1 DEF Configure, manager, history
<1>2. CASE Parse(w)
  BY <1>0, <1>2, SayFramed DEF Parse, Return, manager, Locals
<1>3. CASE LoadRaises(w)
  BY <1>0, <1>3, SayFramed DEF LoadRaises, NextEntry, manager, Locals
<1>4. CASE LoadNothing(w)
  BY <1>0, <1>4, SayFramed, ModelOfRun DEF LoadNothing, Push, Range, Locals
<1>5. ASSUME NEW targets \in SUBSET Targets, Load(w, targets) PROVE Framed(w)
  <2> DEFINE m == ModelOf(w, Entry(w))
             others == Others(m, targets)
  <2>1. m \in Models /\ seen' = seen \cup others \cup {m}
    BY <1>5, LoadPushes
  <2>2. \A x \in others : x.run = m.run
    BY <2>1, OthersLike
  <2>3. m.run = run[w].id
    BY ModelOfRun
  <2>4. seen \subseteq seen' /\ \A x \in seen' : x \in seen \/ x.run = run[w].id
    <3> HIDE DEF m, others
    <3> QED
      BY <2>1, <2>2, <2>3
  <2>5. /\ run' = [run EXCEPT ![w].model = m] /\ pc' = [pc EXCEPT ![w] = "loaded"]
        /\ UNCHANGED <<errors, made, answers>>
        /\ \E what \in {"loaded", "found"} : Say(w, Entry(w), what)
    BY <1>5 DEF Load
  <2> HIDE DEF m, others
  <2> QED
    BY <1>0, <2>4, <2>5, SayFramed DEF Locals
<1>6. ASSUME NEW targets \in SUBSET Targets, Diff(w, targets) PROVE Framed(w)
  <2> DEFINE m == ModelOf(w, Ask(w).diff)
             report == ModelOf(w, "report")
             others == Others(m, targets)
  <2>1. m \in Models /\ seen' = seen \cup others \cup {m, report}
    BY <1>6, DiffPushes
  <2>2. \A x \in others : x.run = m.run
    BY <2>1, OthersLike
  <2>3. m.run = run[w].id /\ report.run = run[w].id
    BY ModelOfRun
  <2>4. seen \subseteq seen' /\ \A x \in seen' : x \in seen \/ x.run = run[w].id
    <3> HIDE DEF m, report, others
    <3> QED
      BY <2>1, <2>2, <2>3
  <2>5. /\ run' = [run EXCEPT ![w].report = report] /\ pc' = [pc EXCEPT ![w] = "select"]
        /\ UNCHANGED <<errors, made, answers>> /\ Say(w, Ask(w).diff, "loaded")
    BY <1>6 DEF Diff
  <2> HIDE DEF m, report, others
  <2> QED
    BY <1>0, <2>4, <2>5, SayFramed DEF Locals
<1>7. CASE Loaded(w)
  <2>1. /\ pc[w] = "loaded" /\ UNCHANGED <<seen, errors, made, answers>>
        /\ \/ UNCHANGED <<log, said>>
           \/ Say(w, Entry(w), "found")
        /\ \E step \in {"close", "diff", "select"} : pc' = [pc EXCEPT ![w] = step]
        /\ \E success \in BOOLEAN : run' = [run EXCEPT ![w].success = success]
    BY <1>7, LoadedParts
  <2>2. /\ said \subseteq said' /\ log \subseteq log'
        /\ \A m \in said' : m \in said \/ (m.run = run[w].id /\ m \in log')
        /\ \A m \in log' : m \in log \/ m.run = run[w].id
    BY <2>1, SayFramed
  <2>3. run'[w].id = run[w].id /\ run'[w].request = run[w].request
    BY <1>0, <2>1 DEF Locals
  <2> QED
    BY <1>0, <2>1, <2>2, <2>3
<1>8. CASE Escape(w)
  BY <1>0, <1>8 DEF Escape, manager, history
<1>9. CASE DiffRaises(w)
  <2> DEFINE m == ModelOf(w, Ask(w).diff)
             report == ModelOf(w, "report")
  <2>1. seen' = seen \/ seen' = seen \cup {m, report}
    BY <1>9 DEF DiffRaises, Push, Range
  <2>2. m.run = run[w].id /\ report.run = run[w].id
    BY ModelOfRun
  <2>3. seen \subseteq seen' /\ \A x \in seen' : x \in seen \/ x.run = run[w].id
    <3> HIDE DEF m, report
    <3> QED
      BY <2>1, <2>2
  <2> QED
    BY <1>0, <1>9, <2>3, SayFramed DEF DiffRaises, Locals
<1>10. CASE DiffInError(w)
  BY <1>0, <1>10, SayFramed, ModelOfRun DEF DiffInError, Push, Range, Locals
<1>11. CASE Select(w)
  BY <1>0, <1>11 DEF Select, manager, history, Locals
<1>12. CASE Use(w)
  BY <1>0, <1>12, SayFramed DEF Use, Locals
<1>13. CASE UseRaises(w)
  BY <1>0, <1>13, SayFramed DEF UseRaises, manager, Locals
<1>14. CASE Close(w)
  BY <1>0, <1>14 DEF Close, NextEntry, history, Locals
<1>15. CASE Finish(w)
  BY <1>0, <1>15 DEF Finish, Return, manager, history, Locals
<1>16. CASE AnswerWithout(w)
  BY <1>0, <1>16 DEF AnswerWithout, Reply, manager
<1>17. CASE ReadLog(w)
  BY <1>0, <1>17 DEF ReadLog, manager, history, Locals
<1>18. CASE ClearLog(w)
  BY <1>0, <1>18 DEF ClearLog, Reply, manager
<1> QED
  BY <1>1, <1>2, <1>3, <1>4, <1>5, <1>6, <1>7, <1>8, <1>9, <1>10, <1>11,
     <1>12, <1>13, <1>14, <1>15, <1>16, <1>17, <1>18 DEF Work

\* A run under way is the last one made: all answers are of runs before it, and what
\* was loaded, logged or found of it was so by itself.
Numbered ==
    /\ \A m \in seen \cup said : m.run \in 1..made
    /\ errors \subseteq 1..made
    /\ \A a \in answers : a.id \in 1..made
    /\ \A w \in Workers : pc[w] # "idle" =>
         /\ run[w].id = made
         /\ \A a \in answers : a.id # made
    /\ \A w \in Workers : pc[w] \in {"settings", "parse"} => \A m \in seen : m.run # made

LEMMA BeginNumbered ==
  ASSUME Typed, OneThread, Numbered, NEW w \in Workers, NEW r \in Requests, Begin(w, r)
  PROVE  /\ Numbered' /\ made' = made + 1 /\ made \in Nat
         /\ pc'[w] = "settings" /\ run'[w].id = made + 1 /\ run'[w].request = r
         /\ UNCHANGED <<manager, errors, settings, log, history>>
<1>1. made \in Nat /\ made' = made + 1
  BY RequestsAssumption DEF Begin, Typed, LogTyped
<1>2. UNCHANGED <<seen, said, errors, answers>>
  BY DEF Begin, manager, history
<1>3. \A i \in 1..made : i \in 1..made' /\ i # made'
  BY <1>1
<1>4. pc'[w] = "settings" /\ run'[w].id = made + 1 /\ run'[w].request = r
  BY DEF Begin, GoTo, Typed, RunsTyped, Idle
<1>5. \A v \in Workers : v = w
  BY DEF OneThread
<1>6. Numbered'
  BY <1>1, <1>2, <1>3, <1>4, <1>5 DEF Numbered
<1> QED
  BY <1>1, <1>4, <1>6 DEF Begin

LEMMA WorkNumbered ==
  ASSUME Typed, OneThread, Numbered, NEW w \in Workers, Work(w)
  PROVE  Numbered' /\ Framed(w) /\ pc[w] # "idle" /\ run[w].id = made /\ made \in 1..made
<1>1. Framed(w)
  BY WorkFramed
<1>2. pc[w] # "idle"
  BY DEF Work, Configure, Parse, LoadRaises, LoadNothing, Load, Diff, Loaded, Escape,
         DiffRaises, DiffInError, Select, Use, UseRaises, Close, Finish, AnswerWithout,
         ReadLog, ClearLog
<1>3. run[w].id = made
  BY <1>2 DEF Numbered
<1>4. made \in 1..made
  BY <1>2, <1>3, Running, RequestsAssumption DEF LogTyped
<1>5. \A v \in Workers : v = w
  BY DEF OneThread
<1>6. Numbered'
  BY <1>1, <1>2, <1>3, <1>4, <1>5 DEF Numbered, Framed
<1> QED
  BY <1>1, <1>2, <1>3, <1>4, <1>6

\* What is so of runs in any order is so of the steps of one thread.
LEMMA NumberedNext ==
  ASSUME Typed, OneThread, Numbered, [Next]_vars
  PROVE  Numbered'
<1>1. CASE UNCHANGED vars
  BY <1>1 DEF vars, manager, history, Numbered
<1>2. CASE Next
  BY <1>2, BeginNumbered, WorkNumbered DEF Next
<1> QED
  BY <1>1, <1>2

-----------------------------------------------------------------------------
(* The log *)

\* The buffer holds what was said since an answer last deleted it, and what an answer
\* is about to carry, if it carries the log, is all that.
Undeleted(m) == \A b \in answers : Deletes(b) => b.id < m.run
LogInv ==
    /\ log = {m \in said : Undeleted(m)}
    /\ \A w \in Workers : pc[w] = "clear" =>
         /\ run[w].request.answer # "zip" => run[w].carried = log
         /\ \/ run[w].request.answer \in {"log", "zip", "zipWithLog"}
            \/ run[w].request.answer = "view" /\ ~run[w].success
    /\ LogSinceDeleted

LEMMA BeginLog ==
  ASSUME Typed, OneThread, Numbered, LogInv, NEW w \in Workers, NEW r \in Requests,
         Begin(w, r)
  PROVE  LogInv'
<1>1. /\ made' = made + 1 /\ made \in Nat /\ pc'[w] = "settings"
      /\ UNCHANGED <<log, said, answers>>
  BY BeginNumbered DEF history
<1>2. \A v \in Workers : v = w
  BY DEF OneThread
<1> QED
  BY <1>1, <1>2 DEF LogInv, LogSinceDeleted, Undeleted

\* A run that goes on adds to the log what no answer before it can have had.
LEMMA GoesOnLog ==
  ASSUME Typed, OneThread, Numbered, LogInv, NEW w \in Workers, Work(w),
         pc'[w] # "idle", Typed'
  PROVE  LogInv'
<1>1. Framed(w) /\ pc[w] # "idle" /\ run[w].id = made
  BY WorkNumbered
<1>2. answers' = answers /\ log \subseteq log' /\ said \subseteq said' /\ log' \subseteq said'
  BY <1>1 DEF Framed, Typed, LogTyped
<1>3. \A v \in Workers : v = w
  BY DEF OneThread
<1>4. ASSUME NEW b \in answers PROVE b.id \in Nat /\ made \in Nat /\ b.id < made
  BY <1>1, RequestsAssumption DEF Numbered, Typed, LogTyped
<1>5. ASSUME NEW m \in said' PROVE m \in log' <=> Undeleted(m)
  <2>1. CASE m \in said
    <3>1. m \in log <=> Undeleted(m)
      BY <2>1 DEF LogInv
    <3>2. m \in log' => m \in log \/ m.run = made
      BY <1>1 DEF Framed
    <3>3. m.run = made => Undeleted(m)
      BY <1>4 DEF Undeleted
    <3> QED
      BY <1>2, <3>1, <3>2, <3>3
  <2>2. CASE m \notin said
    <3>1. m.run = made /\ m \in log'
      BY <1>1, <2>2 DEF Framed
    <3> QED
      BY <1>4, <3>1 DEF Undeleted
  <2> QED
    BY <2>1, <2>2
<1>6. log' = {m \in said' : Undeleted(m)'}
  BY <1>2, <1>5 DEF Undeleted
<1>7. ASSUME pc'[w] = "clear"
      PROVE  /\ run'[w].request.answer # "zip" => run'[w].carried = log'
             /\ \/ run'[w].request.answer \in {"log", "zip", "zipWithLog"}
                \/ run'[w].request.answer = "view" /\ ~run'[w].success
  <2>1. ReadLog(w)
    BY <1>7, Zenon DEF Work, Configure, Parse, LoadRaises, LoadNothing, Load, Diff, Loaded,
           Escape, DiffRaises, DiffInError, Select, Use, UseRaises, Close, Finish,
           AnswerWithout, ClearLog, GoTo, Typed, RunsTyped, Return, Reply, NextEntry
  <2> QED
    BY <1>1, <2>1 DEF ReadLog, Ask, Typed, RunsTyped, Locals
<1>8. LogSinceDeleted'
  <2>1. ASSUME NEW a \in answers, NEW m \in said', m.run =< a.id PROVE m \in said
    BY <1>1, <1>4, <2>1 DEF Framed
  <2> QED
    BY <1>2, <2>1 DEF LogInv, LogSinceDeleted
<1> QED
  BY <1>2, <1>3, <1>6, <1>7, <1>8 DEF LogInv

\* A run ends with an exception, without the log, or with what it read of it.
LEMMA RunOver ==
  ASSUME Typed, NEW w \in Workers, Work(w), pc'[w] = "idle"
  PROVE  Escape(w) \/ AnswerWithout(w) \/ ClearLog(w)
<1>1. pc \in [Workers -> Steps]
  BY DEF Typed, RunsTyped
<1>2. ~Select(w) /\ ~Loaded(w) /\ ~Configure(w) /\ ~Parse(w)
  BY <1>1 DEF Select, Loaded, Configure, Parse, GoTo, Return
<1>3. ~Use(w) /\ ~UseRaises(w) /\ ~Close(w) /\ ~Finish(w) /\ ~ReadLog(w)
  BY <1>1 DEF Use, UseRaises, Close, Finish, ReadLog, GoTo, Return, NextEntry
<1>4. ~LoadRaises(w) /\ ~LoadNothing(w) /\ ~DiffRaises(w) /\ ~DiffInError(w)
  BY <1>1 DEF LoadRaises, LoadNothing, DiffRaises, DiffInError, GoTo, NextEntry
<1>5. \A targets \in SUBSET Targets : ~Load(w, targets) /\ ~Diff(w, targets)
  BY <1>1 DEF Load, Diff, GoTo
<1> QED
  BY <1>2, <1>3, <1>4, <1>5 DEF Work

\* An answer that carries the log has all that the buffer held, and deletes it if asked to.
LEMMA AnswerLog ==
  ASSUME Typed, OneThread, Numbered, LogInv, NEW w \in Workers, Work(w),
         pc'[w] = "idle"
  PROVE  LogInv'
<1>1. pc[w] # "idle" /\ run[w].id = made /\ made \in 1..made /\ made \in Nat
  BY WorkNumbered, RequestsAssumption DEF Typed, LogTyped
<1>2. \A v \in Workers : v = w
  BY DEF OneThread
<1>3. CASE Escape(w)
  <2>1. UNCHANGED <<log, said, answers>>
    BY <1>3 DEF Escape, history
  <2> QED
    BY <1>2, <2>1 DEF LogInv, LogSinceDeleted, Undeleted
<1>4. ASSUME AnswerWithout(w) \/ ClearLog(w) PROVE LogInv'
  <2>1. PICK carried : Reply(w, carried) /\ said' = said
                       /\ (pc[w] = "clear" => carried = run[w].carried)
    BY <1>4 DEF AnswerWithout, ClearLog
  <2> DEFINE new == [id |-> run[w].id, request |-> Ask(w), success |-> run[w].success,
                     log |-> carried]
  <2>2. answers' = answers \cup {new}
    BY <2>1 DEF Reply
  <2>3. /\ new.id = made /\ new.log = carried /\ new.request = run[w].request
        /\ new.success = run[w].success
    BY <1>1 DEF Ask
  <2>4. ASSUME NEW b \in answers PROVE b.id \in Nat /\ b.id < made
    BY <1>1 DEF Numbered
  <2> HIDE DEF new
  <2>5. /\ Carries(new) => carried = log
        /\ log' = IF Deletes(new) THEN {} ELSE log
    <3>1. CASE AnswerWithout(w)
      <4>1. ~Carries(new) /\ ~Deletes(new) /\ log' = log
        BY <2>3, <3>1 DEF AnswerWithout, Carries, Deletes, Ask
      <4> QED
        BY <4>1
    <3>2. CASE ClearLog(w)
      <4>1. pc[w] = "clear" /\ log' = IF run[w].request.clear THEN {} ELSE log
        BY <3>2 DEF ClearLog, Ask
      <4>2. Deletes(new) <=> run[w].request.clear
        <5>1. run[w].request.clear \in BOOLEAN
          BY <1>1, Running, RequestTyped
        <5> QED
          BY <2>3, <4>1, <5>1 DEF LogInv, Carries, Deletes
      <4>3. Carries(new) => carried = log
        BY <2>1, <2>3, <4>1 DEF LogInv, Carries
      <4> QED
        BY <4>1, <4>2, <4>3
    <3> QED
      BY <1>4, <3>1, <3>2
  <2>6. ASSUME NEW m \in said PROVE m.run \in Nat /\ m.run =< made
    BY <1>1 DEF Numbered
  <2>7. log' = {m \in said' : Undeleted(m)'}
    <3>1. ASSUME NEW m \in said
          PROVE  m \in log' <=> \A b \in answers' : Deletes(b) => b.id < m.run
      <4>1. CASE Deletes(new)
        <5>1. ~(new.id < m.run)
          BY <1>1, <2>3, <2>6
        <5> QED
          BY <2>2, <2>5, <4>1, <5>1
      <4>2. CASE ~Deletes(new)
        <5>1. m \in log <=> \A b \in answers : Deletes(b) => b.id < m.run
          BY DEF LogInv, Undeleted
        <5> QED
          BY <2>2, <2>5, <4>2, <5>1
      <4> QED
        BY <4>1, <4>2
    <3>2. log' \subseteq said
      BY <2>5 DEF Typed, LogTyped
    <3> QED
      BY <2>1, <3>1, <3>2 DEF Undeleted
  <2>8. LogSinceDeleted'
    <3> DEFINE Since(a, m) == m.run =< a.id
                 /\ \A b \in answers : Deletes(b) /\ b.id < a.id => b.id < m.run
    <3>1. ASSUME NEW a \in answers', NEW m \in said
          PROVE  (\A b \in answers' : Deletes(b) /\ b.id < a.id => b.id < m.run)
                   <=> \A b \in answers : Deletes(b) /\ b.id < a.id => b.id < m.run
      <4>1. ~(new.id < a.id)
        BY <1>1, <2>2, <2>3, <2>4
      <4> QED
        BY <2>2, <4>1
    <3>2. ASSUME NEW a \in answers', Carries(a) PROVE a.log = {m \in said : Since(a, m)}
      <4>1. CASE a \in answers
        BY <3>2, <4>1 DEF LogInv, LogSinceDeleted
      <4>2. CASE a = new
        <5>1. a.log = log /\ a.id = made
          BY <2>3, <2>5, <3>2, <4>2
        <5>2. ASSUME NEW m \in said PROVE Since(a, m) <=> Undeleted(m)
          BY <2>4, <2>6, <5>1 DEF Undeleted
        <5>3. log = {m \in said : Undeleted(m)}
          BY DEF LogInv
        <5> HIDE DEF Since
        <5> QED
          BY <5>1, <5>2, <5>3
      <4> QED
        BY <2>2, <4>1, <4>2
    <3>3. ASSUME NEW a \in answers', Carries(a)
          PROVE  a.log = {m \in said : m.run =< a.id
                     /\ \A b \in answers' : Deletes(b) /\ b.id < a.id => b.id < m.run}
      BY <3>1, <3>2, <3>3
    <3> QED
      BY <2>1, <3>3 DEF LogSinceDeleted, Carries, Deletes
  <2>9. pc'[w] = "idle"
    OBVIOUS
  <2> QED
    BY <1>2, <2>7, <2>8, <2>9 DEF LogInv
<1> QED
  BY <1>3, <1>4, RunOver

\* Of one thread, an answer with the log carries exactly what was logged since an answer
\* last deleted the buffer, by its own run and by the runs before it: nothing is lost, and
\* what was deleted does not come back, however often the buffer was left as it was.
THEOREM LogIsAnsweredSinceDeleted ==
  ASSUME OneThread
  PROVE  Spec => []LogSinceDeleted
<1>1. Init => Typed /\ Numbered /\ LogInv
  <2>1. Init => Typed
    BY TypedInit
  <2>2. Init => Numbered
    BY DEF Init, Numbered
  <2>3. Init => LogInv
    BY DEF Init, LogInv, LogSinceDeleted, Undeleted
  <2> QED
    BY <2>1, <2>2, <2>3
<1>2. Typed /\ Numbered /\ LogInv /\ [Next]_vars => (Typed /\ Numbered /\ LogInv)'
  <2> SUFFICES ASSUME Typed, Numbered, LogInv, [Next]_vars
               PROVE  (Typed /\ Numbered /\ LogInv)'
    OBVIOUS
  <2>1. Typed' /\ Numbered'
    BY TypedNext, NumberedNext
  <2>2. ASSUME UNCHANGED vars PROVE LogInv'
    <3>1. UNCHANGED <<log, said, answers, pc, run, made>>
      BY <2>2 DEF vars, history
    <3> QED
      BY <3>1 DEF LogInv, LogSinceDeleted, Undeleted
  <2>3. ASSUME NEW w \in Workers, NEW r \in Requests, Begin(w, r) PROVE LogInv'
    BY <2>3, BeginLog
  <2>4. ASSUME NEW w \in Workers, Work(w) PROVE LogInv'
    BY <2>1, <2>4, GoesOnLog, AnswerLog
  <2> QED
    BY <2>1, <2>2, <2>3, <2>4 DEF Next
<1>3. LogInv => LogSinceDeleted
  BY DEF LogInv
<1> QED
  BY <1>1, <1>2, <1>3, PTL DEF Spec

-----------------------------------------------------------------------------
(* What is validated and viewed *)

UsedBy(id) == {u.model : u \in {v \in used : v.id = id}}

\* What a run without a comparison has yet to use.
Left(w) ==
    IF pc[w] \in {"loaded", "select"} THEN {run[w].model} \cup OthersOf(run[w].model)
    ELSE IF pc[w] = "use" THEN Range(run[w].queue)
    ELSE {}

\* From a load on, the current model is one that the run has loaded, and, unless it
\* compares, the one it was asked for.
OwnCurrent(w) ==
    /\ pc[w] \in {"loaded", "diff", "select", "use", "close"} => run[w].model.run = made
    /\ pc[w] \in {"loaded", "diff", "select"} => current.run = made
    /\ pc[w] \in {"loaded", "diff"} => current = run[w].model
    /\ pc[w] = "select" /\ Ask(w).diff = None => current = run[w].model
    /\ pc[w] = "use" => \A m \in Range(run[w].queue) : m.run = made

\* All that a run has loaded it has used or will, unless it failed.
AllUsed(w) ==
    pc[w] # "idle" /\ Ask(w).diff = None /\ run[w].success =>
       \A m \in seen : m.run = made => m \in UsedBy(made) \cup Left(w)

OwnInv ==
    /\ \A w \in Workers : OwnCurrent(w) /\ AllUsed(w)
    /\ \A u \in used : u.model.run = u.id
    /\ UsesItsOwn

LEMMA BeginOwn ==
  ASSUME Typed, OneThread, Numbered, OwnInv, NEW w \in Workers, NEW r \in Requests,
         Begin(w, r)
  PROVE  OwnInv'
<1>1. /\ made' = made + 1 /\ made \in Nat /\ pc'[w] = "settings"
      /\ UNCHANGED <<seen, used, answers>>
  BY BeginNumbered DEF history, manager
<1>2. \A m \in seen : m.run # made'
  BY <1>1 DEF Numbered
<1>3. \A v \in Workers : v = w
  BY DEF OneThread
<1>4. OwnCurrent(w)' /\ AllUsed(w)'
  BY <1>1, <1>2 DEF OwnCurrent, AllUsed
<1>5. UsesItsOwn'
  BY <1>1 DEF OwnInv, UsesItsOwn, Checks, ModelsOf
<1> QED
  BY <1>1, <1>3, <1>4, <1>5 DEF OwnInv

\* The steps that load nothing and use nothing.
LEMMA OtherOwn ==
  ASSUME Typed, OneThread, Numbered, OwnInv, NEW w \in Workers,
         \/ Configure(w) \/ Parse(w) \/ LoadRaises(w) \/ Loaded(w) \/ UseRaises(w)
         \/ Close(w) \/ Finish(w) \/ ReadLog(w)
  PROVE  OwnCurrent(w)' /\ AllUsed(w)' /\ used' = used
<1>0. pc \in [Workers -> Steps] /\ run \in [Workers -> Locals]
  BY DEF Typed, RunsTyped
<1>1. OwnCurrent(w) /\ AllUsed(w)
  BY DEF OwnInv
<1> USE DEF OwnCurrent, AllUsed, Left, UsedBy, Ask, GoTo
<1>2. CASE Configure(w)
  BY <1>0, <1>2 DEF Configure, Numbered, manager, history
<1>3. CASE Parse(w)
  BY <1>0, <1>3 DEF Parse, Numbered, Return, manager, Locals
<1>4. CASE LoadRaises(w)
  BY <1>0, <1>4 DEF LoadRaises, NextEntry, Locals
<1>5. CASE Loaded(w)
  <2>1. /\ pc[w] = "loaded" /\ current' = current /\ seen' = seen /\ made' = made
        /\ used' = used
    BY <1>5, LoadedParts
  <2>2. /\ run'[w].model = run[w].model /\ run'[w].request = run[w].request
        /\ run'[w].success => run[w].success
        /\ pc'[w] = IF ~run'[w].success THEN "close"
                    ELSE IF run[w].request.diff # None THEN "diff" ELSE "select"
    BY <1>5, LoadedKeeps
  <2> QED
    BY <1>1, <2>1, <2>2 DEF OthersOf
<1>6. CASE UseRaises(w)
  <2>1. Head(run[w].queue) \in Range(run[w].queue)
    BY <1>6, Running, HeadTailRange DEF UseRaises, AtStep
  <2> QED
    BY <1>0, <1>1, <1>6, <2>1 DEF UseRaises, Locals
<1>7. CASE Close(w)
  BY <1>0, <1>1, <1>7 DEF Close, NextEntry, history, Locals
<1>8. CASE Finish(w)
  BY <1>0, <1>1, <1>8 DEF Finish, Return, manager, history, Locals
<1>9. CASE ReadLog(w)
  BY <1>0, <1>1, <1>9 DEF ReadLog, manager, history, Locals
<1> QED
  BY <1>2, <1>3, <1>4, <1>5, <1>6, <1>7, <1>8, <1>9

\* A failed load or comparison uses nothing and fails the run.
LEMMA FailedOwn ==
  ASSUME Typed, OneThread, Numbered, OwnInv, NEW w \in Workers,
         LoadNothing(w) \/ DiffRaises(w) \/ DiffInError(w)
  PROVE  OwnCurrent(w)' /\ AllUsed(w)' /\ used' = used
<1>0. pc \in [Workers -> Steps] /\ run \in [Workers -> Locals]
  BY DEF Typed, RunsTyped
<1>1. OwnCurrent(w) /\ run[w].id = made
  BY WorkNumbered DEF OwnInv, Work
<1> USE DEF OwnCurrent, AllUsed, Ask, GoTo
<1>2. CASE LoadNothing(w)
  BY <1>0, <1>1, <1>2, ModelOfRun DEF LoadNothing, Locals
<1>3. CASE DiffRaises(w)
  BY <1>0, <1>1, <1>3 DEF DiffRaises, Locals
<1>4. CASE DiffInError(w)
  BY <1>0, <1>1, <1>4 DEF DiffInError, Locals
<1> QED
  BY <1>2, <1>3, <1>4

LEMMA LoadOwn ==
  ASSUME Typed, OneThread, Numbered, OwnInv, NEW w \in Workers,
         NEW targets \in SUBSET Targets, Load(w, targets)
  PROVE  OwnCurrent(w)' /\ AllUsed(w)' /\ used' = used
<1> DEFINE m == ModelOf(w, Entry(w))
           others == Others(m, targets)
<1>0. pc \in [Workers -> Steps] /\ run \in [Workers -> Locals]
  BY DEF Typed, RunsTyped
<1>1. /\ OwnCurrent(w) /\ AllUsed(w) /\ run[w].id = made /\ pc[w] = "load"
      /\ made' = made /\ used' = used
  BY WorkNumbered DEF OwnInv, Work, Load
<1>2. m \in Models /\ current' = m /\ seen' = seen \cup others \cup {m}
  BY LoadPushes
<1>3. \A x \in others : x.run = m.run /\ x.of = m.of /\ x.target # None
  BY <1>2, OthersLike
<1>4. m.run = made
  BY <1>1, ModelOfRun
<1>5. run' = [run EXCEPT ![w].model = m] /\ pc' = [pc EXCEPT ![w] = "loaded"]
  BY DEF Load, GoTo
<1> HIDE DEF m, others
<1>6. /\ pc'[w] = "loaded" /\ run'[w].model = m /\ run'[w].request = run[w].request
      /\ run'[w].success = run[w].success
  BY <1>0, <1>5 DEF Locals
<1>7. OwnCurrent(w)'
  BY <1>1, <1>2, <1>4, <1>6 DEF OwnCurrent
<1> DEFINE next == {m} \cup {x \in seen' : /\ x.run = m.run /\ x.of = m.of
                                         /\ x.target # None}
<1>8. others \subseteq next /\ m \in next
  BY <1>2, <1>3
<1>9. AllUsed(w)'
  <2>1. Left(w)' = next /\ UsedBy(made)' = UsedBy(made)
    BY <1>1, <1>6 DEF Left, UsedBy, OthersOf
  <2>2. Left(w) = {}
    BY <1>1 DEF Left
  <2> HIDE DEF next
  <2>3. Ask(w).diff = None /\ run[w].success =>
          \A x \in seen' : x.run = made => x \in UsedBy(made) \cup next
    BY <1>1, <1>2, <1>8, <2>2 DEF AllUsed
  <2> QED
    BY <1>1, <1>6, <2>1, <2>3 DEF AllUsed, Ask
<1> QED
  BY <1>1, <1>7, <1>9

LEMMA DiffOwn ==
  ASSUME Typed, OneThread, Numbered, OwnInv, NEW w \in Workers,
         NEW targets \in SUBSET Targets, Diff(w, targets)
  PROVE  OwnCurrent(w)' /\ AllUsed(w)' /\ used' = used
<1> DEFINE report == ModelOf(w, "report")
<1>0. pc \in [Workers -> Steps] /\ run \in [Workers -> Locals]
  BY DEF Typed, RunsTyped
<1>1. /\ OwnCurrent(w) /\ run[w].id = made /\ pc[w] = "diff" /\ made' = made
      /\ used' = used
  BY WorkNumbered DEF OwnInv, Work, Diff
<1>2. current' = report /\ Ask(w).diff \in Files
  BY DiffPushes
<1>3. report.run = made
  BY <1>1, ModelOfRun
<1>4. run' = [run EXCEPT ![w].report = report] /\ pc' = [pc EXCEPT ![w] = "select"]
  BY DEF Diff, GoTo
<1> HIDE DEF report
<1>5. /\ pc'[w] = "select" /\ run'[w].model = run[w].model
      /\ run'[w].request = run[w].request
  BY <1>0, <1>4 DEF Locals
<1>6. Ask(w).diff # None
  BY <1>2, RequestsAssumption
<1> QED
  BY <1>1, <1>2, <1>3, <1>5, <1>6 DEF OwnCurrent, AllUsed, Ask

\* What is selected is what is left to be used.
LEMMA SelectOwn ==
  ASSUME Typed, OneThread, Numbered, OwnInv, NEW w \in Workers, Select(w)
  PROVE  OwnCurrent(w)' /\ AllUsed(w)' /\ used' = used
<1> DEFINE q == SetToSeq(OthersOf(current))
           queue == <<current>> \o q
<1>0. pc \in [Workers -> Steps] /\ run \in [Workers -> Locals]
  BY DEF Typed, RunsTyped
<1>1. /\ OwnCurrent(w) /\ AllUsed(w) /\ pc[w] = "select" /\ current # None
      /\ UNCHANGED <<made, seen, used>>
  BY DEF OwnInv, Select, manager, history
<1>2. /\ IsFiniteSet(OthersOf(current)) /\ OthersOf(current) \subseteq seen
      /\ current \in seen
  BY <1>1, FS_Subset DEF Typed, ManagerTyped, OthersOf
<1>3. q \in Seq(seen) /\ Range(q) = OthersOf(current)
  BY <1>2, SetToSeqProperties, SeqMonotonic
<1>4. <<current>> \in Seq(seen) /\ Range(<<current>>) = {current}
  BY <1>2 DEF Range
<1>5. Range(queue) = {current} \cup OthersOf(current)
  <2> DEFINE t == <<current>>
  <2>1. t \in Seq(seen) /\ Range(t) = {current}
    BY <1>4
  <2> HIDE DEF t, q
  <2>2. Range(t \o q) = {current} \cup OthersOf(current)
    BY <1>3, <2>1, RangeConcatenation
  <2> QED
    BY <2>2 DEF t
<1>6. run' = [run EXCEPT ![w].queue = queue] /\ pc' = [pc EXCEPT ![w] = "use"]
  BY DEF Select, GoTo
<1> HIDE DEF q, queue
<1>7. /\ pc'[w] = "use" /\ run'[w].model = run[w].model /\ run'[w].queue = queue
      /\ run'[w].request = run[w].request /\ run'[w].success = run[w].success
  BY <1>0, <1>6 DEF Locals
<1>8. \A m \in OthersOf(current) : m.run = current.run
  BY DEF OthersOf
<1>9. OwnCurrent(w)'
  BY <1>1, <1>5, <1>7, <1>8 DEF OwnCurrent
<1>10. AllUsed(w)'
  <2>1. Left(w)' = {current} \cup OthersOf(current) /\ UsedBy(made)' = UsedBy(made)
    BY <1>1, <1>5, <1>7 DEF Left, UsedBy
  <2>2. Ask(w).diff = None => Left(w) = {current} \cup OthersOf(current)
    BY <1>1 DEF Left, OwnCurrent
  <2> QED
    BY <1>1, <1>7, <2>1, <2>2 DEF AllUsed, Ask
<1> QED
  BY <1>1, <1>9, <1>10

\* What is used is no longer left.
LEMMA UseOwn ==
  ASSUME Typed, OneThread, Numbered, OwnInv, NEW w \in Workers, Use(w)
  PROVE  /\ OwnCurrent(w)' /\ AllUsed(w)'
         /\ \E u : used' = used \cup {u} /\ u.id = made /\ u.model.run = made
<1> DEFINE m == Head(run[w].queue)
           rest == Tail(run[w].queue)
           u == [id |-> run[w].id, request |-> Ask(w), model |-> m,
                 settings |-> settings]
<1>0. pc \in [Workers -> Steps] /\ run \in [Workers -> Locals]
  BY DEF Typed, RunsTyped
<1>1. /\ OwnCurrent(w) /\ AllUsed(w) /\ pc[w] = "use" /\ run[w].id = made
      /\ UNCHANGED <<made, seen>>
  BY WorkNumbered DEF OwnInv, Work, Use
<1>2. Range(run[w].queue) = {m} \cup Range(rest)
  BY <1>1, Running, HeadTailRange DEF AtStep
<1>3. /\ used' = used \cup {u} /\ pc' = [pc EXCEPT ![w] = IF rest = <<>> THEN "close" ELSE "use"]
      /\ run' = [run EXCEPT ![w].model = m, ![w].queue = rest]
  BY <1>0 DEF Use, GoTo
<1>4. m.run = made /\ u.id = made /\ u.model = m
  BY <1>1, <1>2 DEF OwnCurrent
<1>5. rest = <<>> => Range(rest) = {}
  BY DEF Range
<1> HIDE DEF m, rest, u
<1>6. /\ pc'[w] = IF rest = <<>> THEN "close" ELSE "use"
      /\ run'[w].model = m /\ run'[w].queue = rest
      /\ run'[w].request = run[w].request /\ run'[w].success = run[w].success
  BY <1>0, <1>3 DEF Locals
<1>7. OwnCurrent(w)'
  BY <1>1, <1>2, <1>4, <1>6 DEF OwnCurrent
<1>8. AllUsed(w)'
  <2>1. Left(w)' = Range(rest)
    BY <1>5, <1>6 DEF Left
  <2>2. Left(w) = {m} \cup Range(rest)
    BY <1>1, <1>2 DEF Left
  <2>3. UsedBy(made)' = UsedBy(made) \cup {m}
    BY <1>1, <1>3, <1>4 DEF UsedBy
  <2> QED
    BY <1>1, <1>6, <2>1, <2>2, <2>3 DEF AllUsed, Ask
<1> QED
  BY <1>3, <1>4, <1>7, <1>8

\* A run that goes on uses what it has loaded.
LEMMA GoesOnOwn ==
  ASSUME Typed, OneThread, Numbered, OwnInv, NEW w \in Workers, Work(w),
         pc'[w] # "idle"
  PROVE  OwnInv'
<1>1. Framed(w) /\ pc[w] # "idle" /\ run[w].id = made
  BY WorkNumbered
<1>2. /\ OwnCurrent(w)' /\ AllUsed(w)'
      /\ \/ used' = used
         \/ \E u : used' = used \cup {u} /\ u.id = made /\ u.model.run = made
  <2>1. CASE \E targets \in SUBSET Targets : Load(w, targets) \/ Diff(w, targets)
    BY <2>1, LoadOwn, DiffOwn
  <2>2. CASE LoadNothing(w) \/ DiffRaises(w) \/ DiffInError(w)
    BY <2>2, FailedOwn
  <2>3. CASE \/ Configure(w) \/ Parse(w) \/ LoadRaises(w) \/ Loaded(w) \/ UseRaises(w)
             \/ Close(w) \/ Finish(w) \/ ReadLog(w)
    BY <2>3, OtherOwn
  <2>4. CASE Select(w)
    BY <2>4, SelectOwn
  <2>5. CASE Use(w)
    BY <2>5, UseOwn
  <2>6. ~(Escape(w) \/ AnswerWithout(w) \/ ClearLog(w))
    BY DEF Escape, AnswerWithout, ClearLog, Reply, GoTo, Typed, RunsTyped
  <2> QED
    BY <2>1, <2>2, <2>3, <2>4, <2>5, <2>6 DEF Work
<1>3. \A v \in Workers : v = w
  BY DEF OneThread
<1>4. \A u \in used' : u.model.run = u.id
  BY <1>2 DEF OwnInv
<1>5. answers' = answers /\ used \subseteq used'
  BY <1>1, <1>2 DEF Framed
<1>6. \A a \in {x \in answers : x.request.files # <<>> /\ x.request.diff = None} :
        a.success => {m \in seen' : m.run = a.id}
                       \subseteq {u.model : u \in {v \in used' : v.id = a.id}}
  <2> SUFFICES ASSUME NEW a \in answers, a.request.files # <<>>, a.request.diff = None,
                      a.success
               PROVE  {m \in seen' : m.run = a.id}
                        \subseteq {u.model : u \in {v \in used' : v.id = a.id}}
    OBVIOUS
  <2>1. a.id # made
    BY <1>1 DEF Numbered
  <2>2. {m \in seen' : m.run = a.id} \subseteq {m \in seen : m.run = a.id}
    BY <1>1, <2>1 DEF Framed
  <2>3. {m \in seen : m.run = a.id} \subseteq {u.model : u \in {v \in used : v.id = a.id}}
    BY DEF OwnInv, UsesItsOwn, ModelsOf, Checks
  <2> QED
    BY <1>5, <2>2, <2>3
<1>7. UsesItsOwn'
  BY <1>4, <1>5, <1>6 DEF UsesItsOwn, Checks, ModelsOf
<1> QED
  BY <1>2, <1>3, <1>4, <1>7 DEF OwnInv

\* A run that ends with success, having compared nothing, has used all it loaded.
LEMMA AnswerOwn ==
  ASSUME Typed, OneThread, Numbered, OwnInv, NEW w \in Workers, Work(w),
         pc'[w] = "idle"
  PROVE  OwnInv'
<1>1. pc[w] # "idle" /\ run[w].id = made
  BY WorkNumbered
<1>2. \A v \in Workers : v = w
  BY DEF OneThread
<1>3. OwnCurrent(w)' /\ AllUsed(w)'
  BY DEF OwnCurrent, AllUsed
<1>4. UNCHANGED <<seen, used>>
  BY RunOver DEF Escape, AnswerWithout, ClearLog, manager, history
<1>5. \A a \in answers' : \/ a \in answers
                          \/ /\ a.id = made /\ a.request = Ask(w)
                             /\ a.success = run[w].success /\ Left(w) = {}
  BY <1>1, RunOver DEF Escape, AnswerWithout, ClearLog, Reply, history, Left
<1>6. AllUsed(w)
  BY DEF OwnInv
<1>7. \A a \in answers' :
        a.request.files # <<>> /\ a.request.diff = None /\ a.success =>
           {m \in seen : m.run = a.id} \subseteq {u.model : u \in {v \in used : v.id = a.id}}
  <2> SUFFICES ASSUME NEW a \in answers', a.request.files # <<>>, a.request.diff = None,
                      a.success
               PROVE  {m \in seen : m.run = a.id}
                        \subseteq {u.model : u \in {v \in used : v.id = a.id}}
    OBVIOUS
  <2>1. CASE a \in answers
    BY <2>1 DEF OwnInv, UsesItsOwn, ModelsOf, Checks
  <2>2. CASE a \notin answers
    BY <1>1, <1>5, <1>6, <2>2 DEF AllUsed, UsedBy
  <2> QED
    BY <2>1, <2>2
<1>8. UsesItsOwn'
  BY <1>4, <1>7 DEF OwnInv, UsesItsOwn, ModelsOf, Checks
<1> QED
  BY <1>2, <1>3, <1>4, <1>8 DEF OwnInv

\* A new run finds the others' answers as they are, and a thread at rest all.
LEMMA OwnNext ==
  ASSUME Typed, OneThread, Numbered, OwnInv, [Next]_vars
  PROVE  OwnInv'
<1>1. ASSUME UNCHANGED vars PROVE OwnInv'
  <2>1. UNCHANGED <<current, seen, made, pc, run, used, answers>>
    BY <1>1 DEF vars, manager, history
  <2> QED
    BY <2>1 DEF OwnInv, UsesItsOwn, Checks, ModelsOf, OwnCurrent, AllUsed, Left, UsedBy,
                OthersOf, Ask
<1>2. ASSUME NEW w \in Workers, NEW r \in Requests, Begin(w, r) PROVE OwnInv'
  BY <1>2, BeginOwn
<1>3. ASSUME NEW w \in Workers, Work(w) PROVE OwnInv'
  BY <1>3, GoesOnOwn, AnswerOwn
<1> QED
  BY <1>1, <1>2, <1>3 DEF Next

\* Of one thread, a run validates and views the models it loaded itself, and reports
\* success only when it did so for each, though it is the manager's current model that
\* it hands on, and whatever earlier runs left open.
THEOREM RunsUseTheirOwn ==
  ASSUME OneThread
  PROVE  Spec => []UsesItsOwn
<1>1. Init => Typed /\ Numbered /\ OwnInv
  <2>1. Init => Typed
    BY TypedInit
  <2>2. Init => Numbered /\ OwnInv
    BY DEF Init, Numbered, OwnInv, OwnCurrent, AllUsed, UsesItsOwn, Checks
  <2> QED
    BY <2>1, <2>2
<1>2. Typed /\ Numbered /\ OwnInv /\ [Next]_vars => (Typed /\ Numbered /\ OwnInv)'
  BY TypedNext, NumberedNext, OwnNext
<1>3. OwnInv => UsesItsOwn
  BY DEF OwnInv
<1> QED
  BY <1>1, <1>2, <1>3, PTL DEF Spec

-----------------------------------------------------------------------------
(* Errors *)

\* An error that is found of a run is noted when its model is closed, and tells when
\* the run ends.
ErrorsNoted(w) ==
    pc[w] # "idle" /\ Ask(w).diff = None /\ run[w].success =>
       /\ Single(made) =>
            /\ \A m \in inError : m.run = made =>
                 \/ run[w].invalid
                 \/ pc[w] \in {"loaded", "select", "use", "close"} /\ m = run[w].model
            /\ pc[w] = "use" => \A m \in Range(run[w].queue) : m = run[w].model
       /\ pc[w] \in {"answer", "clear"} /\ Ask(w).files # <<>> /\ Ask(w).exitCode =>
            /\ Single(made) => \A m \in inError : m.run # made
            /\ made \notin errors

ErrorsInv ==
    /\ \A w \in Workers : ErrorsNoted(w)
    /\ ErrorsReported

\* A run that turns out to have further targets has had them ever since.
LEMMA SingleBefore ==
  ASSUME Typed, OneThread, Numbered, NEW w \in Workers, Work(w), NEW id
  PROVE  Single(id)' => Single(id)
  BY WorkNumbered DEF Framed, Single

\* Of a run without further targets, no others are stacked with a model.
LEMMA SingleAlone ==
  ASSUME NEW m \in Models, NEW targets \in SUBSET Targets,
         Others(m, targets) \subseteq seen', Single(m.run)'
  PROVE  Others(m, targets) = {}
<1>1. \A x \in Others(m, targets) : x.run = m.run /\ x.target # None
  BY OthersLike
<1> QED
  BY <1>1 DEF Single

\* Errors are found of the run's own models.
LEMMA InErrorFramed ==
  ASSUME Typed, OneThread, Numbered, OwnInv, NEW w \in Workers, Work(w)
  PROVE  \A m \in inError' : m \in inError \/ m.run = made
<1>1. run[w].id = made /\ OwnCurrent(w)
  BY WorkNumbered DEF OwnInv
<1>2. CASE LoadNothing(w)
  BY <1>1, <1>2, ModelOfRun DEF LoadNothing
<1>3. ASSUME NEW targets \in SUBSET Targets, Load(w, targets)
      PROVE  \A m \in inError' : m \in inError \/ m.run = made
  <2> DEFINE m == ModelOf(w, Entry(w))
             others == Others(m, targets)
  <2>1. m \in Models
    BY <1>3, LoadPushes
  <2>2. (\A x \in others : x.run = m.run) /\ m.run = made
    BY <1>1, <2>1, ModelOfRun, OthersLike
  <2>3. \E bad \in SUBSET (others \cup {m}) : inError' = inError \cup bad
    BY <1>3 DEF Load
  <2> HIDE DEF m, others
  <2> QED
    BY <2>2, <2>3
<1>4. CASE DiffInError(w)
  BY <1>1, <1>4, ModelOfRun DEF DiffInError
<1>5. CASE Use(w)
  <2>1. Head(run[w].queue) \in Range(run[w].queue)
    BY <1>5, Running, HeadTailRange DEF Use, AtStep
  <2> QED
    BY <1>1, <1>5, <2>1 DEF Use, OwnCurrent
<1>6. CASE Loaded(w)
  BY <1>1, <1>6, LoadedParts DEF OwnCurrent
<1>7. ASSUME ~LoadNothing(w), ~DiffInError(w), ~Use(w), ~Loaded(w),
             \A targets \in SUBSET Targets : ~Load(w, targets)
      PROVE  inError' = inError
  BY <1>7 DEF Work, Configure, Parse, LoadRaises, Diff, Escape,
         DiffRaises, Select, UseRaises, Close, Finish, AnswerWithout,
         ReadLog, ClearLog, manager
<1> QED
  BY <1>2, <1>3, <1>4, <1>5, <1>6, <1>7

\* What is found of a run that goes on is noted.
LEMMA GoesOnNoted ==
  ASSUME Typed, OneThread, Numbered, OwnInv, ErrorsInv, NEW w \in Workers, Work(w),
         pc'[w] # "idle"
  PROVE  ErrorsNoted(w)'
<1>0. pc \in [Workers -> Steps] /\ run \in [Workers -> Locals]
  BY DEF Typed, RunsTyped
<1>1. /\ run[w].id = made /\ pc[w] # "idle" /\ OwnCurrent(w) /\ ErrorsNoted(w)
      /\ made' = made /\ inError \subseteq seen /\ (Single(made)' => Single(made))
  BY WorkNumbered, SingleBefore DEF OwnInv, ErrorsInv, Framed, Typed, ManagerTyped
<1> USE DEF ErrorsNoted, Ask, GoTo
<1>2. CASE Configure(w)
  BY <1>0, <1>1, <1>2 DEF Configure, Numbered, manager
<1>3. CASE Parse(w)
  <2>1. pc[w] = "parse" /\ inError' = inError /\ \A m \in inError : m.run # made
    BY <1>1, <1>3 DEF Parse, Numbered, manager
  <2>2. \/ run'[w] = run[w] /\ pc'[w] = "load"
        \/ /\ run'[w].request = run[w].request /\ pc'[w] = "answer"
           /\ run[w].request.files = <<>> \/ run'[w].success = FALSE
    BY <1>0, <1>3 DEF Parse, Return, Locals
  <2> QED
    BY <1>1, <2>1, <2>2
<1>4. CASE LoadRaises(w)
  BY <1>0, <1>4 DEF LoadRaises, NextEntry, Locals
<1>5. CASE LoadNothing(w) \/ DiffRaises(w) \/ DiffInError(w) \/ UseRaises(w)
  BY <1>0, <1>5 DEF LoadNothing, DiffRaises, DiffInError, UseRaises, Locals
<1>6. ASSUME NEW targets \in SUBSET Targets, Load(w, targets) PROVE ErrorsNoted(w)'
  <2> DEFINE m == ModelOf(w, Entry(w))
             others == Others(m, targets)
  <2>1. ASSUME Single(made)' PROVE others = {}
    <3>1. m \in Models /\ m.run = made /\ others \subseteq seen'
      BY <1>1, <1>6, LoadPushes, ModelOfRun
    <3> HIDE DEF m
    <3> QED
      BY <1>1, <2>1, <3>1, SingleAlone
  <2>2. \E bad \in SUBSET (others \cup {m}) : inError' = inError \cup bad
    BY <1>6 DEF Load
  <2>3. run' = [run EXCEPT ![w].model = m] /\ pc' = [pc EXCEPT ![w] = "loaded"]
        /\ pc[w] = "load"
    BY <1>6 DEF Load
  <2> HIDE DEF m, others
  <2>4. pc'[w] = "loaded" /\ run'[w].model = m /\ run'[w].invalid = run[w].invalid
        /\ run'[w].request = run[w].request /\ run'[w].success = run[w].success
    BY <1>0, <2>3 DEF Locals
  <2> QED
    BY <1>1, <2>1, <2>2, <2>3, <2>4
<1>7. ASSUME NEW targets \in SUBSET Targets, Diff(w, targets) PROVE ErrorsNoted(w)'
  <2>1. Ask(w).diff # None
    BY <1>7, DiffPushes, RequestsAssumption
  <2> QED
    BY <1>0, <1>7, <2>1 DEF Diff, Locals
<1>8. CASE Loaded(w)
  <2>1. /\ pc[w] = "loaded" /\ inError' \subseteq inError \cup {run[w].model}
    BY <1>8, LoadedParts
  <2>2. /\ run'[w].model = run[w].model /\ run'[w].invalid = run[w].invalid
        /\ run'[w].request = run[w].request /\ (run'[w].success => run[w].success)
        /\ pc'[w] = IF ~run'[w].success THEN "close"
                    ELSE IF run[w].request.diff # None THEN "diff" ELSE "select"
    BY <1>8, LoadedKeeps
  <2> QED
    BY <1>1, <2>1, <2>2
<1>9. CASE Select(w)
  <2> DEFINE q == SetToSeq(OthersOf(current))
             t == <<current>>
  <2>1. /\ current \in seen /\ current.run = made
        /\ Ask(w).diff = None => current = run[w].model
    BY <1>1, <1>9 DEF Typed, Select, ManagerTyped, OwnCurrent, Ask
  <2>2. ASSUME Single(made)' PROVE Range(t \o q) = {current}
    <3>1. OthersOf(current) = {}
      BY <1>1, <2>1, <2>2 DEF OthersOf, Single
    <3>2. q \in Seq(seen) /\ Range(q) = {}
      BY <3>1, SetToSeqProperties, SeqMonotonic, FS_EmptySet
    <3>3. t \in Seq(seen) /\ Range(t) = {current}
      BY <2>1 DEF Range
    <3> HIDE DEF q, t
    <3> QED
      BY <3>2, <3>3, RangeConcatenation
  <2>3. /\ run' = [run EXCEPT ![w].queue = t \o q] /\ pc' = [pc EXCEPT ![w] = "use"]
        /\ pc[w] = "select" /\ UNCHANGED <<inError, errors>>
    BY <1>9 DEF Select, manager
  <2> HIDE DEF q, t
  <2>4. /\ run'[w].queue = t \o q /\ run'[w].model = run[w].model
        /\ run'[w].invalid = run[w].invalid /\ run'[w].request = run[w].request
        /\ run'[w].success = run[w].success /\ pc'[w] = "use"
    BY <1>0, <2>3 DEF Locals
  <2> QED
    BY <1>1, <2>1, <2>2, <2>3, <2>4
<1>10. CASE Use(w)
  <2> DEFINE m == Head(run[w].queue)
             rest == Tail(run[w].queue)
  <2>1. Range(run[w].queue) = {m} \cup Range(rest)
    BY <1>10, Running, HeadTailRange DEF Use, AtStep
  <2>2. /\ run' = [run EXCEPT ![w].model = m, ![w].queue = rest]
        /\ pc[w] = "use" /\ inError' \subseteq inError \cup {m}
        /\ pc' = [pc EXCEPT ![w] = IF rest = <<>> THEN "close" ELSE "use"]
    BY <1>0, <1>10 DEF Use
  <2> HIDE DEF m, rest
  <2>3. /\ run'[w].model = m /\ run'[w].queue = rest /\ run'[w].invalid = run[w].invalid
        /\ run'[w].request = run[w].request /\ run'[w].success = run[w].success
        /\ pc'[w] \in {"use", "close"}
    BY <1>0, <2>2 DEF Locals
  <2> QED
    BY <1>1, <2>1, <2>2, <2>3
<1>11. CASE Close(w)
  <2>1. /\ run'[w].invalid = (run[w].invalid \/ {run[w].model, run[w].report} \cap inError # {})
        /\ run'[w].request = run[w].request /\ run'[w].success = run[w].success
        /\ pc'[w] = "load" /\ pc[w] = "close" /\ inError' = inError
    BY <1>0, <1>11 DEF Close, NextEntry, Locals
  <2> QED
    BY <1>1, <2>1
<1>12. CASE Finish(w)
  <2>1. /\ run'[w].success = (/\ run[w].success
                              /\ ~(Ask(w).exitCode /\ (run[w].invalid \/ errors # {})))
        /\ run'[w].request = run[w].request /\ run'[w].invalid = run[w].invalid
        /\ pc'[w] = "answer" /\ pc[w] = "load" /\ UNCHANGED <<inError, errors>>
    BY <1>0, <1>12 DEF Finish, Return, manager, Locals
  <2> QED
    BY <1>1, <2>1
<1>13. CASE ReadLog(w)
  BY <1>0, <1>1, <1>13 DEF ReadLog, manager, Locals
<1>14. ~(Escape(w) \/ AnswerWithout(w) \/ ClearLog(w))
  BY <1>0 DEF Escape, AnswerWithout, ClearLog, Reply
<1> QED
  BY <1>2, <1>3, <1>4, <1>5, <1>6, <1>7, <1>8, <1>9, <1>10, <1>11, <1>12, <1>13, <1>14
     DEF Work

\* Errors that are found later are of another run than any answer's; the answer that
\* is given now has none.
LEMMA WorkErrors ==
  ASSUME Typed, OneThread, Numbered, OwnInv, ErrorsInv, NEW w \in Workers, Work(w)
  PROVE  ErrorsInv'
<1>1. Framed(w) /\ pc[w] # "idle" /\ run[w].id = made /\ made' = made
  BY WorkNumbered DEF Framed
<1>2. \A m \in inError' : m \in inError \/ m.run = made
  BY InErrorFramed
<1>3. \A v \in Workers : v = w
  BY DEF OneThread
<1>4. ErrorsNoted(w)'
  <2>1. CASE pc'[w] = "idle"
    BY <2>1 DEF ErrorsNoted
  <2> QED
    BY <2>1, GoesOnNoted
<1>5. ASSUME NEW a \in answers', a.request.files # <<>>, a.request.diff = None,
             a.request.exitCode, a.success
      PROVE  (Single(a.id)' => \A m \in inError' : m.run # a.id) /\ a.id \notin errors'
  <2>1. CASE a \in answers
    <3>1. a.id # made
      BY <1>1, <2>1 DEF Numbered
    <3>2. (Single(a.id) => \A m \in inError : m.run # a.id) /\ a.id \notin errors
      BY <1>5, <2>1 DEF ErrorsInv, ErrorsReported, Checks, ModelsOf, Typed, ManagerTyped
    <3> QED
      BY <1>1, <1>2, <3>1, <3>2, SingleBefore DEF Framed
  <2>2. CASE a \notin answers
    <3>1. pc'[w] = "idle"
      BY <1>1, <2>2 DEF Framed
    <3>2. /\ a.id = made /\ a.request = Ask(w) /\ a.success = run[w].success
          /\ pc[w] \in {"answer", "clear"} /\ UNCHANGED <<inError, errors>>
      BY <1>1, <2>2, <3>1, RunOver DEF Escape, AnswerWithout, ClearLog, Reply, manager,
                                       history
    <3> QED
      BY <1>1, <1>5, <3>2, SingleBefore DEF ErrorsInv, ErrorsNoted
  <2> QED
    BY <2>1, <2>2
<1>6. ErrorsReported'
  BY <1>5 DEF ErrorsReported, Checks, ModelsOf
<1> QED
  BY <1>3, <1>4, <1>6 DEF ErrorsInv

\* Of one thread, a run that is asked to tell of validation errors by its exit code does
\* not report success when its archive has some, or, of a run that met no document set
\* with further targets, one of its models.
THEOREM ErrorsAreReported ==
  ASSUME OneThread
  PROVE  Spec => []ErrorsReported
<1>1. Init => Typed /\ Numbered /\ OwnInv /\ ErrorsInv
  <2>1. Init => Typed
    BY TypedInit
  <2>2. Init => Numbered /\ OwnInv /\ ErrorsInv
    BY DEF Init, Numbered, OwnInv, OwnCurrent, AllUsed, UsesItsOwn, Checks, ErrorsInv,
           ErrorsNoted, ErrorsReported
  <2> QED
    BY <2>1, <2>2
<1>2. ASSUME Typed, Numbered, OwnInv, ErrorsInv, [Next]_vars PROVE ErrorsInv'
  <2>1. ASSUME UNCHANGED vars PROVE ErrorsInv'
    <3>1. UNCHANGED <<inError, seen, errors, made, pc, run, answers>>
      BY <2>1 DEF vars, manager, history
    <3> QED
      BY <1>2, <3>1 DEF ErrorsInv, ErrorsReported, Checks, ModelsOf, ErrorsNoted, Ask,
                           Single
  <2>2. ASSUME NEW w \in Workers, NEW r \in Requests, Begin(w, r) PROVE ErrorsInv'
    <3>1. /\ made' = made + 1 /\ made \in Nat /\ pc'[w] = "settings"
          /\ UNCHANGED <<seen, inError, errors, answers>>
      BY <1>2, <2>2, BeginNumbered DEF manager, history
    <3>2. \A m \in inError : m.run # made'
      BY <1>2, <3>1 DEF Numbered, Typed, ManagerTyped
    <3>3. \A v \in Workers : v = w
      BY DEF OneThread
    <3>4. ErrorsNoted(w)'
      BY <3>1, <3>2 DEF ErrorsNoted
    <3>5. ErrorsReported'
      BY <1>2, <3>1 DEF ErrorsInv, ErrorsReported, Checks, ModelsOf, Single
    <3> QED
      BY <3>3, <3>4, <3>5 DEF ErrorsInv
  <2>3. ASSUME NEW w \in Workers, Work(w) PROVE ErrorsInv'
    BY <1>2, <2>3, WorkErrors
  <2> QED
    BY <1>2, <2>1, <2>2, <2>3 DEF Next
<1>3. Typed /\ Numbered /\ OwnInv /\ ErrorsInv /\ [Next]_vars
        => (Typed /\ Numbered /\ OwnInv /\ ErrorsInv)'
  BY <1>2, TypedNext, NumberedNext, OwnNext
<1>4. ErrorsInv => ErrorsReported
  BY DEF ErrorsInv
<1> QED
  BY <1>1, <1>3, <1>4, PTL DEF Spec

-----------------------------------------------------------------------------
(* Comparisons *)

\* The model that is to be compared is on top of the stack.
PairsInv ==
    /\ \A w \in Workers : pc[w] \in {"loaded", "diff"} => Last(stack) = run[w].model
    /\ ComparesItsOwn

LEMMA WorkPairs ==
  ASSUME Typed, OneThread, Numbered, PairsInv, NEW w \in Workers, Work(w)
  PROVE  PairsInv'
<1>0. pc \in [Workers -> Steps] /\ run \in [Workers -> Locals]
  BY DEF Typed, RunsTyped
<1>1. \A v \in Workers : v = w
  BY DEF OneThread
<1>a. \A id : Single(id)' => Single(id)
  BY SingleBefore
<1>2. ASSUME NEW targets \in SUBSET Targets, Load(w, targets) PROVE PairsInv'
  <2> DEFINE m == ModelOf(w, Entry(w))
  <2>1. Last(stack') = m
    BY <1>2, LoadPushes
  <2>2. run' = [run EXCEPT ![w].model = m] /\ pairs' = pairs
    BY <1>2 DEF Load
  <2> HIDE DEF m
  <2>3. run'[w].model = m
    BY <1>0, <2>2 DEF Locals
  <2> QED
    BY <1>1, <1>a, <2>1, <2>2, <2>3 DEF PairsInv, ComparesItsOwn
<1>3. ASSUME NEW targets \in SUBSET Targets, Diff(w, targets) PROVE PairsInv'
  <2> DEFINE m == ModelOf(w, Ask(w).diff)
             others == Others(m, targets)
             q == SetToSeq(others)
             p == [id |-> run[w].id, entry |-> run[w].model, from |-> Last(stack \o q),
                   to |-> m]
  <2>1. /\ pairs' = pairs \cup {p}
        /\ pc'[w] = "select" /\ pc[w] = "diff"
    BY <1>0, <1>3 DEF Diff, GoTo
  <2>2. stack \in Seq(seen) /\ Last(stack) = run[w].model
    BY <2>1 DEF PairsInv, Typed, ManagerTyped
  <2>3. ASSUME NEW id, id = run[w].id, Single(id)' PROVE p.from = run[w].model
    <3>1. Ask(w).diff \in Files /\ m \in seen' /\ others \subseteq seen' /\ seen' \subseteq Models
      BY <1>3, DiffPushes
    <3>2. others = {}
      <4>1. m \in Models /\ m.run = id
        BY <2>3, <3>1, ModelOfRun
      <4> HIDE DEF m
      <4> QED
        BY <2>3, <3>1, <4>1, SingleAlone
    <3>3. q \in Seq(seen) /\ Range(q) = {}
      BY <3>2, SetToSeqProperties, SeqMonotonic, FS_EmptySet
    <3> HIDE DEF q
    <3>4. stack \o q = stack
      BY <2>2, <3>3, HeadTailRange, ConcatEmptySeq
    <3> QED
      BY <2>2, <3>4
  <2>4. p.id = run[w].id /\ p.entry = run[w].model
    OBVIOUS
  <2> HIDE DEF p
  <2> QED
    BY <1>1, <1>a, <2>1, <2>3, <2>4 DEF PairsInv, ComparesItsOwn
<1>4. CASE Loaded(w)
  <2>1. pc[w] = "loaded" /\ UNCHANGED <<stack, seen, pairs>>
    BY <1>4, LoadedParts
  <2>2. run'[w].model = run[w].model
    BY <1>4, LoadedKeeps
  <2> QED
    BY <1>1, <2>1, <2>2 DEF PairsInv, ComparesItsOwn, Single
<1>5. ASSUME pc'[w] \notin {"loaded", "diff"}, pairs' = pairs PROVE PairsInv'
  BY <1>1, <1>a, <1>5 DEF PairsInv, ComparesItsOwn
<1>6. CASE Configure(w) \/ Parse(w) \/ Escape(w) \/ Select(w) \/ Finish(w) \/ ReadLog(w)
  BY <1>0, <1>5, <1>6 DEF Configure, Parse, Escape, Select, Finish, ReadLog, Return, GoTo,
                          manager, history
<1>7. CASE LoadRaises(w) \/ Close(w)
  BY <1>0, <1>5, <1>7 DEF LoadRaises, Close, NextEntry, GoTo, history
<1>8. CASE LoadNothing(w) \/ DiffRaises(w) \/ DiffInError(w) \/ UseRaises(w)
  BY <1>0, <1>5, <1>8 DEF LoadNothing, DiffRaises, DiffInError, UseRaises, GoTo
<1>9. CASE Use(w)
  BY <1>0, <1>5, <1>9 DEF Use, GoTo
<1>10. CASE AnswerWithout(w) \/ ClearLog(w)
  BY <1>0, <1>5, <1>10 DEF AnswerWithout, ClearLog, Reply, GoTo
<1> QED
  BY <1>2, <1>3, <1>4, <1>6, <1>7, <1>8, <1>9, <1>10 DEF Work

\* What is so of comparisons stays so, step by step.
LEMMA NextPairs ==
  ASSUME Typed, OneThread, Numbered, PairsInv, [Next]_vars
  PROVE  PairsInv'
<1>1. ASSUME UNCHANGED vars PROVE PairsInv'
  <2>1. UNCHANGED <<stack, seen, pc, run, pairs>>
    BY <1>1 DEF vars, manager, history
  <2> QED
    BY <2>1 DEF PairsInv, ComparesItsOwn, Single
<1>2. ASSUME NEW w \in Workers, NEW r \in Requests, Begin(w, r) PROVE PairsInv'
  <2>1. /\ pc'[w] = "settings" /\ UNCHANGED <<pairs, seen>>
        /\ \A v \in Workers : v = w
    BY <1>2 DEF Begin, GoTo, manager, history, Typed, RunsTyped, OneThread
  <2> QED
    BY <2>1 DEF PairsInv, ComparesItsOwn, Single
<1>3. ASSUME NEW w \in Workers, Work(w) PROVE PairsInv'
  BY <1>3, WorkPairs
<1> QED
  BY <1>1, <1>2, <1>3 DEF Next

\* Of one thread, a comparison is of the two DTSes it was asked for, whatever earlier
\* runs left on the stack, where neither brought further targets along.
THEOREM ComparesTheTwo ==
  ASSUME OneThread
  PROVE  Spec => []ComparesItsOwn
<1>1. Init => Typed /\ Numbered /\ PairsInv
  BY TypedInit DEF Init, Numbered, PairsInv, ComparesItsOwn
<1>2. ASSUME Typed, Numbered, PairsInv, [Next]_vars PROVE PairsInv'
  BY <1>2, NextPairs
<1>3. Typed /\ Numbered /\ PairsInv /\ [Next]_vars => (Typed /\ Numbered /\ PairsInv)'
  BY <1>2, TypedNext, NumberedNext
<1>4. PairsInv => ComparesItsOwn
  BY DEF PairsInv
<1> QED
  BY <1>1, <1>3, <1>4, PTL DEF Spec

-----------------------------------------------------------------------------
(* Settings *)

\* Once it has configured the manager, a run goes on under settings that meet it.
SettingsInv ==
    /\ \A w \in Workers : pc[w] \notin {"idle", "settings"} => MeetsRequest(settings, Ask(w))
    /\ SettingsMet

LEMMA WorkSettings ==
  ASSUME Typed, OneThread, Numbered, SettingsInv, NEW w \in Workers, Work(w)
  PROVE  SettingsInv'
<1>0. pc \in [Workers -> Steps]
  BY DEF Typed, RunsTyped
<1>1. \A v \in Workers : v = w
  BY DEF OneThread
<1>2. /\ pc[w] # "idle"
      /\ pc'[w] # "idle" => run'[w].request = run[w].request
  BY WorkNumbered DEF Framed
<1>3. CASE Configure(w)
  <2>1. /\ used' = used /\ pc'[w] = "parse"
        /\ settings' = [utr |-> settings.utr \/ Ask(w).utr,
                        calcs |-> IF Ask(w).calcs = "misspelt" THEN settings.calcs
                                  ELSE Ask(w).calcs]
    BY <1>0, <1>3 DEF Configure, GoTo, history
  <2>2. MeetsRequest(settings', Ask(w))
    BY <2>1 DEF MeetsRequest
  <2> QED
    BY <1>1, <1>2, <2>1, <2>2 DEF SettingsInv, SettingsMet, MeetsRequest, Ask
<1>4. ASSUME pc[w] # "settings", settings' = settings PROVE
        \A v \in Workers : pc'[v] \notin {"idle", "settings"} =>
           MeetsRequest(settings', Ask(v)')
  BY <1>1, <1>2, <1>4 DEF SettingsInv, MeetsRequest, Ask
<1>5. CASE Use(w)
  <2>1. /\ pc[w] = "use" /\ settings' = settings
        /\ used' = used \cup {[id |-> run[w].id, request |-> Ask(w),
                               model |-> Head(run[w].queue), settings |-> settings]}
    BY <1>5 DEF Use
  <2>2. MeetsRequest(settings, Ask(w))
    BY <2>1 DEF SettingsInv
  <2>3. SettingsMet'
    BY <2>1, <2>2 DEF SettingsInv, SettingsMet
  <2> QED
    BY <1>4, <2>1, <2>3 DEF SettingsInv, Ask
<1>6. ASSUME ~Configure(w), ~Use(w) PROVE SettingsInv'
  <2>1. pc[w] # "settings" /\ UNCHANGED <<settings, used>>
    BY <1>6 DEF Work, Parse, LoadRaises, LoadNothing, Load, Diff, Loaded, Escape,
         DiffRaises, DiffInError, Select, UseRaises, Close, Finish, AnswerWithout,
         ReadLog, ClearLog, history
  <2> QED
    BY <1>4, <2>1 DEF SettingsInv, SettingsMet, Ask
<1> QED
  BY <1>3, <1>5, <1>6

\* Of one thread, what a run validates or views is so in the mode it asked for, and with
\* the unit type registry if it asked for it, whatever the runs before it asked for.
THEOREM SettingsAreMet ==
  ASSUME OneThread
  PROVE  Spec => []SettingsMet
<1>1. Init => Typed /\ Numbered /\ SettingsInv
  BY TypedInit DEF Init, Numbered, SettingsInv, SettingsMet
<1>2. ASSUME Typed, Numbered, SettingsInv, [Next]_vars PROVE SettingsInv'
  <2>1. ASSUME UNCHANGED vars PROVE SettingsInv'
    <3>1. UNCHANGED <<settings, pc, run, used>>
      BY <2>1 DEF vars, manager, history
    <3> QED
      BY <1>2, <3>1 DEF SettingsInv, SettingsMet, MeetsRequest, Ask
  <2>2. ASSUME NEW w \in Workers, NEW r \in Requests, Begin(w, r) PROVE SettingsInv'
    <3>1. pc'[w] = "settings" /\ used' = used /\ \A v \in Workers : v = w
      BY <1>2, <2>2 DEF Begin, GoTo, history, Typed, RunsTyped, OneThread
    <3> QED
      BY <1>2, <3>1 DEF SettingsInv, SettingsMet
  <2>3. ASSUME NEW w \in Workers, Work(w) PROVE SettingsInv'
    BY <1>2, <2>3, WorkSettings
  <2> QED
    BY <1>2, <2>1, <2>2, <2>3 DEF Next
<1>3. Typed /\ Numbered /\ SettingsInv /\ [Next]_vars => (Typed /\ Numbered /\ SettingsInv)'
  BY <1>2, TypedNext, NumberedNext
<1>4. SettingsInv => SettingsMet
  BY DEF SettingsInv
<1> QED
  BY <1>1, <1>3, <1>4, PTL DEF Spec

-----------------------------------------------------------------------------
(* What is left open *)

Working == {"loaded", "diff", "select", "use", "close"}

\* A run has a report from its comparison to the entry point's end.
ReportKept(w) ==
    /\ pc[w] \notin {"idle", "select", "use", "close"} => run[w].report = None
    /\ pc[w] # "idle" /\ Ask(w).diff = None => run[w].report = None
    /\ pc[w] \in {"select", "use"} /\ Ask(w).diff # None => run[w].report # None

Once(m) == \A i, j \in 1..Len(stack) : stack[i] = m /\ stack[j] = m => i = j

\* Of a run that does not compare, the stack holds the model it works on, once.
OneStacked(w) ==
    pc[w] # "idle" /\ ~Ask(w).keepOpen /\ Single(made) /\ Ask(w).diff = None =>
       /\ \A m \in Range(stack) : m.run = made => pc[w] \in Working /\ m = run[w].model
       /\ pc[w] \in Working => Once(run[w].model)
       /\ pc[w] = "use" => \A m \in Range(run[w].queue) : m = run[w].model

\* What a run closes at the entry point's end.
TakenDown(w) ==
    IF run[w].report = None THEN {run[w].model}
    ELSE {run[w].report} \cup UNION {{p.from, p.to} : p \in {q \in pairs : q.id = made}}

\* A run compares for its only entry point, if nothing failed before, and once.
ComparesOnce(w) ==
    /\ pc[w] = "diff" => run[w].success
    /\ pc[w] # "idle" /\ Ask(w).diff # None =>
         /\ Len(run[w].todo) =< 1
         /\ \/ pc[w] \in {"settings", "parse", "loaded", "diff"}
            \/ pc[w] = "load" /\ run[w].todo # <<>>
            => \A p \in pairs : p.id # made

\* What a comparison that raises leaves open.
NotCompared(w, m) ==
    /\ Ask(w).diff # None /\ ~run[w].success /\ \A p \in pairs : p.id # made
    /\ m.of \in {Ask(w).diff, "report"}

\* A run has closed all it has loaded but what it works on and what was not compared.
RestClosed(w) ==
    pc[w] # "idle" /\ ~Ask(w).keepOpen /\ Single(made) =>
       \A m \in seen : m.run = made =>
          \/ m \in closed
          \/ pc[w] \in Working /\ m \in TakenDown(w)
          \/ NotCompared(w, m)

LeftInv ==
    /\ \A w \in Workers : ReportKept(w) /\ OneStacked(w) /\ ComparesOnce(w) /\ RestClosed(w)
    /\ \A p \in pairs : p.id \in 1..made
    /\ NothingLeftOpen

\* What is put on the stack is the run's; what is closed stays so.
LEMMA StackFramed ==
  ASSUME Typed, OneThread, Numbered, NEW w \in Workers, Work(w)
  PROVE  closed \subseteq closed' /\ \A m \in Range(stack') : m \in Range(stack) \/ m.run = made
<1>1. run[w].id = made /\ pc[w] # "idle" /\ stack \in Seq(Models) /\ Typed'
  <2>1. Typed'
    BY TypedNext DEF Next
  <2>2. stack \in Seq(Models)
    BY SeqMonotonic DEF Typed, ManagerTyped
  <2> QED
    BY <2>1, <2>2, WorkNumbered
<1>2. ASSUME NEW models \in Seq(Models), Push(models), \A m \in Range(models) : m.run = made
      PROVE  \A m \in Range(stack') : m \in Range(stack) \/ m.run = made
  BY <1>1, <1>2, RangeConcatenation DEF Push
<1>3. ASSUME NEW targets \in SUBSET Targets, Load(w, targets)
      PROVE  \A m \in Range(stack') : m \in Range(stack) \/ m.run = made
  <2> DEFINE m == ModelOf(w, Entry(w))
             q == SetToSeq(Others(m, targets))
             t == <<m>>
  <2>1. m \in Models /\ Entry(w) \in Files
    BY <1>3, LoadPushes
  <2>2. q \in Seq(Models) /\ Range(q) = Others(m, targets)
    BY <1>1, <2>1, Running, OthersTyped
  <2>3. t \in Seq(Models) /\ Range(t) = {m}
    BY <2>1 DEF Range
  <2>4. Push(q \o t)
    BY <1>3 DEF Load
  <2>5. m.run = made /\ \A x \in Others(m, targets) : x.run = made
    BY <1>1, <2>1, ModelOfRun, OthersLike
  <2> HIDE DEF m, q, t
  <2>6. q \o t \in Seq(Models) /\ Range(q \o t) = Range(q) \cup Range(t)
    BY <2>2, <2>3, ConcatProperties, RangeConcatenation
  <2> QED
    BY <1>2, <2>2, <2>3, <2>4, <2>5, <2>6
<1>4. ASSUME NEW targets \in SUBSET Targets, Diff(w, targets)
      PROVE  \A m \in Range(stack') : m \in Range(stack) \/ m.run = made
  <2> DEFINE m == ModelOf(w, Ask(w).diff)
             report == ModelOf(w, "report")
             q == SetToSeq(Others(m, targets))
             t == <<m, report>>
  <2>1. m \in Models /\ report \in Models /\ Ask(w).diff \in Files
    BY <1>4, DiffPushes
  <2>2. q \in Seq(Models) /\ Range(q) = Others(m, targets)
    BY <1>1, <2>1, Running, OthersTyped
  <2>3. t \in Seq(Models) /\ Range(t) = {m, report}
    BY <2>1 DEF Range
  <2>4. Push(q \o t)
    BY <1>4 DEF Diff
  <2>5. m.run = made /\ report.run = made /\ \A x \in Others(m, targets) : x.run = made
    BY <1>1, <2>1, ModelOfRun, OthersLike
  <2> HIDE DEF m, report, q, t
  <2>6. q \o t \in Seq(Models) /\ Range(q \o t) = Range(q) \cup Range(t)
    BY <2>2, <2>3, ConcatProperties, RangeConcatenation
  <2> QED
    BY <1>2, <2>2, <2>3, <2>4, <2>5, <2>6
<1>5. ASSUME NEW f \in Files \cup {"report"}, Push(<<ModelOf(w, f)>>)
      PROVE  \A m \in Range(stack') : m \in Range(stack) \/ m.run = made
  <2> DEFINE m == ModelOf(w, f)
             t == <<m>>
  <2>1. t \in Seq(Models) /\ Range(t) = {m} /\ m.run = made
    BY <1>1, Running, ModelOfTyped, ModelOfRun DEF Range
  <2> HIDE DEF m
  <2> QED
    BY <1>2, <1>5, <2>1 DEF m
<1>6. ASSUME LoadNothing(w)
      PROVE  \A m \in Range(stack') : m \in Range(stack) \/ m.run = made
  <2>1. Entry(w) \in Files
    BY <1>1, <1>6, Running, HeadTailProperties DEF LoadNothing, Entry
  <2>2. Push(<<ModelOf(w, Entry(w))>>)
    BY <1>6 DEF LoadNothing
  <2> DEFINE f == Entry(w)
  <2>3. f \in Files \cup {"report"} /\ Push(<<ModelOf(w, f)>>)
    BY <2>1, <2>2
  <2> HIDE DEF f
  <2> QED
    BY <1>5, <2>3
<1>7. ASSUME DiffInError(w)
      PROVE  \A m \in Range(stack') : m \in Range(stack) \/ m.run = made
  <2>1. Ask(w).diff \in Files
    BY <1>1, <1>7, Running DEF AtStep, Ask, DiffInError
  <2>2. Push(<<ModelOf(w, Ask(w).diff)>>)
    BY <1>7 DEF DiffInError
  <2> DEFINE f == Ask(w).diff
  <2>3. f \in Files \cup {"report"} /\ Push(<<ModelOf(w, f)>>)
    BY <2>1, <2>2
  <2> HIDE DEF f
  <2> QED
    BY <1>5, <2>3
<1>8. ASSUME DiffRaises(w)
      PROVE  \A m \in Range(stack') : m \in Range(stack) \/ m.run = made
  <2> DEFINE m == ModelOf(w, Ask(w).diff)
             report == ModelOf(w, "report")
             t == <<m, report>>
  <2>1. Ask(w).diff \in Files
    BY <1>1, <1>8, Running DEF AtStep, Ask, DiffRaises
  <2>2. t \in Seq(Models) /\ Range(t) = {m, report} /\ m.run = made /\ report.run = made
    BY <1>1, <2>1, Running, ModelOfTyped, ModelOfRun DEF Range
  <2>3. stack' = stack \/ Push(t)
    BY <1>8 DEF DiffRaises
  <2> HIDE DEF m, report, t
  <2> QED
    BY <1>2, <2>2, <2>3
<1>9. ASSUME Close(w)
      PROVE  \A m \in Range(stack') : m \in Range(stack) \/ m.run = made
  <2>1. stack' = stack \/ \E m \in Models \cup {None} : stack' = RemoveFirst(stack, m)
    BY <1>1, <1>9, Running DEF Close, Pop, ManagerTyped
  <2> QED
    BY <1>1, <2>1, RemoveFirstRange
<1>10. ASSUME ~LoadNothing(w), ~DiffInError(w), ~DiffRaises(w), ~Close(w),
              \A targets \in SUBSET Targets : ~Load(w, targets) /\ ~Diff(w, targets)
       PROVE  stack' = stack
  BY <1>10 DEF Work, Configure, Parse, LoadRaises, Loaded, Escape, Select, Use, UseRaises,
               Finish, AnswerWithout, ReadLog, ClearLog, manager
<1>11. closed \subseteq closed'
  BY DEF Work, Configure, Parse, LoadRaises, LoadNothing, Load, Diff, Loaded, Escape,
         DiffRaises, DiffInError, Select, Use, UseRaises, Close, Pop, Finish, AnswerWithout,
         ReadLog, ClearLog, manager
<1> QED
  <2>1. (\E targets \in SUBSET Targets : Load(w, targets) \/ Diff(w, targets))
           => \A m \in Range(stack') : m \in Range(stack) \/ m.run = made
    BY <1>3, <1>4
  <2> QED
    BY <1>6, <1>7, <1>8, <1>9, <1>10, <1>11, <2>1

\* A model that is pushed alone, and was not there, is there once.
LEMMA PushOne ==
  ASSUME NEW S, NEW s \in Seq(S), NEW m \in S, m \notin Range(s)
  PROVE  /\ Range(s \o <<m>>) = Range(s) \cup {m}
         /\ \A i, j \in 1..Len(s \o <<m>>) :
               (s \o <<m>>)[i] = m /\ (s \o <<m>>)[j] = m => i = j
<1> DEFINE t == <<m>>
           r == s \o t
<1>1. t \in Seq(S) /\ Len(t) = 1 /\ Range(t) = {m}
  BY DEF Range
<1> HIDE DEF t
<1>2. Range(r) = Range(s) \cup {m}
  BY <1>1, RangeConcatenation
<1>3. Len(s) \in Nat /\ DOMAIN s = 1..Len(s)
  BY LenProperties
<1>4. /\ Len(r) = Len(s) + 1
      /\ \A i \in 1..(Len(s) + 1) : r[i] = IF i <= Len(s) THEN s[i] ELSE t[i - Len(s)]
  BY <1>1, ConcatProperties
<1> HIDE DEF r
<1>5. \A i \in 1..Len(s) : r[i] # m
  BY <1>3, <1>4 DEF Range
<1>6. \A i \in 1..Len(r) : r[i] = m => i = Len(r)
  BY <1>3, <1>4, <1>5
<1>7. \A i, j \in 1..Len(r) : r[i] = m /\ r[j] = m => i = j
  BY <1>6
<1> QED
  BY <1>2, <1>7 DEF r, t

\* A comparison has a report, and what comes without one has none.
LEMMA GoesOnReport ==
  ASSUME Typed, OneThread, Numbered, NEW w \in Workers, ReportKept(w), Work(w),
         pc'[w] # "idle"
  PROVE  ReportKept(w)'
<1>0. pc \in [Workers -> Steps] /\ run \in [Workers -> Locals]
  BY DEF Typed, RunsTyped
<1>1. pc[w] # "idle" /\ run'[w].request = run[w].request
  BY WorkNumbered DEF Framed
<1> USE DEF ReportKept, Ask, GoTo
<1>2. CASE Configure(w) \/ Loaded(w)
  <2>1. CASE Configure(w)
    BY <1>0, <1>1, <2>1 DEF Configure
  <2>2. CASE Loaded(w)
    <3>1. /\ pc[w] = "loaded" /\ run'[w].report = run[w].report
          /\ pc'[w] \in {"close", "diff", "select"}
          /\ pc'[w] = "select" => run[w].request.diff = None
      BY <2>2, LoadedParts, LoadedKeeps
    <3> QED
      BY <1>1, <3>1
  <2> QED
    BY <1>2, <2>1, <2>2
<1>3. CASE Parse(w) \/ Finish(w) \/ ReadLog(w)
  BY <1>0, <1>1, <1>3 DEF Parse, Finish, ReadLog, Return, Locals
<1>4. CASE LoadRaises(w) \/ Close(w)
  BY <1>0, <1>1, <1>4 DEF LoadRaises, Close, NextEntry, Locals
<1>5. CASE LoadNothing(w) \/ \E targets \in SUBSET Targets : Load(w, targets)
  BY <1>0, <1>1, <1>5 DEF LoadNothing, Load, Locals
<1>6. ASSUME NEW targets \in SUBSET Targets, Diff(w, targets)
      PROVE  ReportKept(w)'
  <2> DEFINE report == ModelOf(w, "report")
  <2>1. Ask(w).diff # None /\ report # None
    BY <1>6, DiffPushes, RequestsAssumption
  <2>2. run' = [run EXCEPT ![w].report = report] /\ pc' = [pc EXCEPT ![w] = "select"]
    BY <1>6 DEF Diff
  <2> HIDE DEF report
  <2> QED
    BY <1>0, <1>1, <2>1, <2>2 DEF Locals
<1>7. CASE DiffRaises(w) \/ DiffInError(w)
  <2>1. Ask(w).diff # None
    BY <1>1, <1>7, Running, RequestsAssumption DEF DiffRaises, DiffInError, AtStep
  <2> QED
    BY <1>0, <1>1, <1>7, <2>1 DEF DiffRaises, DiffInError, Locals
<1>8. CASE Select(w) \/ Use(w) \/ UseRaises(w)
  BY <1>0, <1>1, <1>8 DEF Select, Use, UseRaises, Locals
<1>9. ~(Escape(w) \/ AnswerWithout(w) \/ ClearLog(w))
  BY <1>0 DEF Escape, AnswerWithout, ClearLog, Reply
<1> QED
  BY <1>2, <1>3, <1>4, <1>5, <1>6, <1>7, <1>8, <1>9 DEF Work

\* A run that does not compare has what it works on on the stack, and no more.
LEMMA GoesOnStacked ==
  ASSUME Typed, OneThread, Numbered, OwnInv, NEW w \in Workers, ReportKept(w),
         OneStacked(w), Work(w), pc'[w] # "idle"
  PROVE  OneStacked(w)'
<1>0. pc \in [Workers -> Steps] /\ run \in [Workers -> Locals]
  BY DEF Typed, RunsTyped
<1>1. /\ pc[w] # "idle" /\ run'[w].request = run[w].request /\ made' = made
      /\ run[w].id = made /\ (Single(made)' => Single(made)) /\ OwnCurrent(w)
  BY WorkNumbered, SingleBefore DEF Framed, OwnInv
<1> SUFFICES ASSUME ~Ask(w).keepOpen, Single(made)', Ask(w).diff = None
             PROVE  /\ \A m \in Range(stack') : m.run = made =>
                         pc'[w] \in Working /\ m = run'[w].model
                    /\ pc'[w] \in Working => Once(run[w].model)'
                    /\ pc'[w] = "use" => \A m \in Range(run'[w].queue) : m = run'[w].model
  BY <1>1 DEF OneStacked, Ask
<1> DEFINE Goal == /\ \A m \in Range(stack') : m.run = made =>
                        pc'[w] \in Working /\ m = run'[w].model
                   /\ pc'[w] \in Working => Once(run[w].model)'
                   /\ pc'[w] = "use" => \A m \in Range(run'[w].queue) : m = run'[w].model
<1>2. /\ run[w].report = None
      /\ \A m \in Range(stack) : m.run = made => pc[w] \in Working /\ m = run[w].model
      /\ pc[w] \in Working => Once(run[w].model)
      /\ pc[w] = "use" => \A m \in Range(run[w].queue) : m = run[w].model
  BY <1>1 DEF OneStacked, ReportKept
<1>3. stack \in Seq(Models)
  BY SeqMonotonic DEF Typed, ManagerTyped
<1> USE DEF Working, GoTo
<1>4. ASSUME NEW m \in Models, stack' = stack \o <<m>>, m.run = made, pc[w] = "load",
             run' = [run EXCEPT ![w] = [run[w] EXCEPT !.model = m, !.success = run'[w].success]],
             pc'[w] \in {"loaded", "close"}
      PROVE  Goal
  <2>1. m \notin Range(stack)
    BY <1>2, <1>4
  <2>2. run'[w].model = m
    BY <1>0, <1>4 DEF Locals
  <2>3. Range(stack') = Range(stack) \cup {m} /\ Once(m)'
    BY <1>3, <1>4, <2>1, PushOne DEF Once
  <2> QED
    BY <1>2, <1>4, <2>2, <2>3 DEF Once
<1>5. ASSUME Configure(w) \/ Loaded(w) PROVE Goal
  <2>1. /\ stack' = stack /\ run'[w].model = run[w].model
        /\ \/ pc[w] = "settings" /\ pc'[w] = "parse"
           \/ pc[w] = "loaded" /\ pc'[w] \in {"close", "diff", "select"}
    <3>1. CASE Configure(w)
      BY <1>0, <3>1 DEF Configure, manager
    <3>2. CASE Loaded(w)
      BY <3>2, LoadedParts, LoadedKeeps
    <3> QED
      BY <1>5, <3>1, <3>2
  <2> QED
    BY <1>2, <2>1 DEF Once
<1>6. ASSUME Parse(w) \/ Finish(w) \/ ReadLog(w) PROVE Goal
  <2>1. stack' = stack /\ pc[w] \notin Working /\ pc'[w] \notin Working
    BY <1>0, <1>6 DEF Parse, Finish, ReadLog, Return, manager
  <2> QED
    BY <1>2, <2>1
<1>7. ASSUME LoadRaises(w) PROVE Goal
  <2>1. stack' = stack /\ pc[w] \notin Working /\ pc'[w] \notin Working
    BY <1>0, <1>7 DEF LoadRaises, NextEntry, manager
  <2> QED
    BY <1>2, <2>1
<1>8. ASSUME LoadNothing(w) PROVE Goal
  <2> DEFINE m == ModelOf(w, Entry(w))
  <2>1. m \in Models /\ m.run = made
    <3>1. Entry(w) \in Files
      BY <1>1, <1>8, Running, HeadTailProperties DEF LoadNothing, Entry
    <3> QED
      BY <1>1, <3>1, Running, ModelOfTyped, ModelOfRun
  <2>2. /\ stack' = stack \o <<m>> /\ pc[w] = "load" /\ pc'[w] = "close"
        /\ run' = [run EXCEPT ![w].model = m, ![w].success = FALSE]
    BY <1>0, <1>8 DEF LoadNothing, Push
  <2> HIDE DEF m
  <2>3. run' = [run EXCEPT ![w] = [run[w] EXCEPT !.model = m, !.success = run'[w].success]]
    BY <1>0, <2>2 DEF Locals
  <2> QED
    BY <1>4, <2>1, <2>2, <2>3
<1>9. ASSUME NEW targets \in SUBSET Targets, Load(w, targets) PROVE Goal
  <2> DEFINE m == ModelOf(w, Entry(w))
             others == Others(m, targets)
             q == SetToSeq(others)
             t == <<m>>
  <2>1. m \in Models /\ m.run = made /\ others \subseteq seen'
    BY <1>1, <1>9, LoadPushes, ModelOfRun
  <2>2. /\ stack' = stack \o (q \o t) /\ pc[w] = "load" /\ pc'[w] = "loaded"
        /\ run' = [run EXCEPT ![w].model = m]
    BY <1>0, <1>9 DEF Load, Push
  <2>3. others = {}
    <3> HIDE DEF m
    <3> QED
      BY <1>1, <2>1, SingleAlone
  <2>4. q \in Seq(Models) /\ Range(q) = {}
    BY <2>3, SetToSeqProperties, SeqMonotonic, FS_EmptySet
  <2>5. t \in Seq(Models)
    BY <2>1
  <2> HIDE DEF q, t, m
  <2>6. q \o t = t
    BY <2>4, <2>5, HeadTailRange, ConcatEmptySeq
  <2>7. run' = [run EXCEPT ![w] = [run[w] EXCEPT !.model = m, !.success = run'[w].success]]
    BY <1>0, <2>2 DEF Locals
  <2>8. stack' = stack \o <<m>>
    BY <2>2, <2>6 DEF t
  <2> QED
    BY <1>4, <2>1, <2>2, <2>7, <2>8
<1>10. ~DiffRaises(w) /\ ~DiffInError(w) /\ \A targets \in SUBSET Targets : ~Diff(w, targets)
  BY <1>1, Running, RequestsAssumption DEF DiffRaises, DiffInError, Diff, AtStep
<1>11. ASSUME Select(w) PROVE Goal
  <2> DEFINE q == SetToSeq(OthersOf(current))
             t == <<current>>
  <2>1. current \in seen /\ current.run = made /\ current = run[w].model
    BY <1>1, <1>11 DEF Typed, Select, ManagerTyped, OwnCurrent, Ask
  <2>2. OthersOf(current) = {}
    BY <1>1, <2>1 DEF OthersOf, Single
  <2>3. q \in Seq(seen) /\ Range(q) = {}
    BY <2>2, SetToSeqProperties, SeqMonotonic, FS_EmptySet
  <2>4. t \in Seq(seen) /\ Range(t) = {current}
    BY <2>1 DEF Range
  <2>5. /\ run' = [run EXCEPT ![w].queue = t \o q] /\ pc' = [pc EXCEPT ![w] = "use"]
        /\ pc[w] = "select" /\ stack' = stack
    BY <1>11 DEF Select, manager
  <2> HIDE DEF q, t
  <2>6. Range(t \o q) = {current}
    BY <2>3, <2>4, RangeConcatenation
  <2>7. run'[w].queue = t \o q /\ run'[w].model = run[w].model /\ pc'[w] = "use"
    BY <1>0, <2>5 DEF Locals
  <2> QED
    BY <1>2, <2>1, <2>5, <2>6, <2>7 DEF Once
<1>12. ASSUME Use(w) \/ UseRaises(w) PROVE Goal
  <2> DEFINE m == Head(run[w].queue)
             rest == Tail(run[w].queue)
  <2>1. pc[w] = "use" /\ Range(run[w].queue) = {m} \cup Range(rest) /\ stack' = stack
    BY <1>1, <1>12, Running, HeadTailRange DEF Use, UseRaises, AtStep, manager
  <2>2. m = run[w].model
    BY <1>2, <2>1
  <2>3. /\ pc'[w] \in {"use", "close"}
        /\ \/ run' = [run EXCEPT ![w].model = m, ![w].queue = rest]
           \/ run' = [run EXCEPT ![w].model = m, ![w].success = FALSE] /\ pc'[w] = "close"
    BY <1>0, <1>12 DEF Use, UseRaises
  <2> HIDE DEF m, rest
  <2>4. run'[w].model = m /\ (pc'[w] = "use" => run'[w].queue = rest)
    BY <1>0, <2>3 DEF Locals
  <2> QED
    BY <1>2, <2>1, <2>2, <2>3, <2>4 DEF Once
<1>13. ASSUME Close(w) PROVE Goal
  <2>1. stack' = RemoveFirst(stack, run[w].model) /\ pc[w] = "close" /\ pc'[w] = "load"
    BY <1>0, <1>2, <1>13 DEF Close, NextEntry, Pop
  <2>2. Range(stack') \subseteq Range(stack) /\ run[w].model \notin Range(stack')
    BY <1>2, <1>3, <2>1, RemoveFirstRange DEF Once
  <2> QED
    BY <1>2, <2>1, <2>2
<1>14. ~(Escape(w) \/ AnswerWithout(w) \/ ClearLog(w))
  BY <1>0 DEF Escape, AnswerWithout, ClearLog, Reply
<1> HIDE DEF Goal
<1>15. Goal
  BY <1>5, <1>6, <1>7, <1>8, <1>9, <1>10, <1>11, <1>12, <1>13, <1>14 DEF Work
<1> QED
  BY <1>15 DEF Goal

\* Comparisons are noted with the run that makes them.
LEMMA PairsFramed ==
  ASSUME Typed, OneThread, Numbered, NEW w \in Workers, Work(w)
  PROVE  pairs \subseteq pairs' /\ \A p \in pairs' : p \in pairs \/ p.id = made
<1>1. run[w].id = made
  BY WorkNumbered
<1>2. ASSUME NEW targets \in SUBSET Targets, Diff(w, targets)
      PROVE  pairs \subseteq pairs' /\ \A p \in pairs' : p \in pairs \/ p.id = made
  BY <1>1, <1>2 DEF Diff
<1>3. (\A targets \in SUBSET Targets : ~Diff(w, targets)) => pairs' = pairs
  BY DEF Work, Configure, Parse, LoadRaises, LoadNothing, Load, Loaded, Escape,
         DiffRaises, DiffInError, Select, Use, UseRaises, Close, Finish, AnswerWithout,
         ReadLog, ClearLog, Reply, manager, history
<1> QED
  BY <1>2, <1>3

\* After its only entry point a run has no other to compare for.
LEMMA GoesOnOnce ==
  ASSUME Typed, OneThread, Numbered, NEW w \in Workers, ComparesOnce(w), Work(w),
         pc'[w] # "idle"
  PROVE  ComparesOnce(w)'
<1>0. pc \in [Workers -> Steps] /\ run \in [Workers -> Locals]
  BY DEF Typed, RunsTyped
<1>1. /\ pc[w] # "idle" /\ run'[w].request = run[w].request /\ made' = made
      /\ run[w].todo \in Seq(Files)
  BY WorkNumbered, Running DEF Framed
<1> USE DEF ComparesOnce, Ask, GoTo
<1>2. CASE Configure(w)
  BY <1>0, <1>1, <1>2 DEF Configure, history
<1>3. CASE Parse(w)
  <2>1. /\ pc[w] = "parse" /\ pc'[w] \in {"load", "answer"} /\ pairs' = pairs
        /\ run'[w].todo = run[w].todo
    BY <1>0, <1>3 DEF Parse, Return, Locals
  <2> QED
    BY <1>1, <2>1
<1>4. CASE LoadRaises(w) \/ Close(w)
  <2>1. pc[w] \in {"load", "close"} /\ run[w].todo # <<>> /\ pc'[w] = "load"
    BY <1>0, <1>1, <1>4, Running DEF LoadRaises, Close, NextEntry, AtStep
  <2>2. run'[w].todo = Tail(run[w].todo)
    <3>1. PICK locals : NextEntry(w, locals) /\ locals.todo = run[w].todo /\ locals \in Locals
      <4>1. CASE LoadRaises(w)
        <5> DEFINE locals == [run[w] EXCEPT !.success = FALSE]
        <5>1. NextEntry(w, locals)
          BY <4>1 DEF LoadRaises
        <5>2. locals.todo = run[w].todo /\ locals \in Locals
          BY <1>0 DEF Locals
        <5> HIDE DEF locals
        <5> QED
          BY <5>1, <5>2
      <4>2. CASE Close(w)
        <5> DEFINE invalid == run[w].invalid
                                \/ {run[w].model, run[w].report} \cap inError # {}
                   locals == [run[w] EXCEPT !.invalid = invalid]
        <5>1. NextEntry(w, locals)
          <6>1. locals = [run[w] EXCEPT !.invalid = @ \/ {run[w].model, run[w].report}
                                                          \cap inError # {}]
            BY <1>0 DEF Locals
          <6> QED
            BY <4>2, <6>1 DEF Close
        <5>2. invalid \in BOOLEAN
          BY <1>0 DEF Locals
        <5> HIDE DEF invalid
        <5>3. locals.todo = run[w].todo /\ locals \in Locals
          BY <1>0, <5>2 DEF Locals
        <5> HIDE DEF locals
        <5> QED
          BY <5>1, <5>3
      <4> QED
        BY <1>4, <4>1, <4>2
    <3> QED
      BY <1>0, <3>1 DEF NextEntry, Locals
  <2>3. Len(run[w].todo) =< 1 => Tail(run[w].todo) = <<>> /\ Len(Tail(run[w].todo)) =< 1
    <3> DEFINE t == Tail(run[w].todo)
    <3>1. t \in Seq(Files) /\ Len(t) = Len(run[w].todo) - 1 /\ Len(run[w].todo) \in Nat
      BY <1>1, <2>1, HeadTailProperties, LenProperties
    <3>2. Len(t) = 0 => t = <<>>
      BY <3>1, EmptySeq
    <3>3. Len(run[w].todo) # 0
      BY <1>1, <2>1, EmptySeq
    <3> HIDE DEF t
    <3> QED
      BY <3>1, <3>2, <3>3 DEF t
  <2> QED
    BY <1>1, <2>1, <2>2, <2>3
<1>5. CASE LoadNothing(w) \/ \E targets \in SUBSET Targets : Load(w, targets)
  <2>1. /\ pc[w] = "load" /\ run[w].todo # <<>> /\ pc'[w] \in {"loaded", "close"}
        /\ pairs' = pairs /\ run'[w].todo = run[w].todo
    BY <1>0, <1>5 DEF LoadNothing, Load, Locals
  <2> QED
    BY <1>1, <2>1
<1>6. CASE Loaded(w)
  <2>1. pc[w] = "loaded" /\ pairs' = pairs
    BY <1>6, LoadedParts
  <2>2. /\ run'[w].todo = run[w].todo /\ pc'[w] \in {"close", "diff", "select"}
        /\ pc'[w] = "diff" => run'[w].success
    BY <1>6, LoadedKeeps
  <2> QED
    BY <1>1, <2>1, <2>2
<1>7. CASE \E targets \in SUBSET Targets : Diff(w, targets)
  <2> PICK targets \in SUBSET Targets : Diff(w, targets)
    BY <1>7
  <2> DEFINE report == ModelOf(w, "report")
  <2>1. run' = [run EXCEPT ![w].report = report] /\ pc' = [pc EXCEPT ![w] = "select"]
    BY DEF Diff
  <2> HIDE DEF report
  <2> QED
    BY <1>0, <1>1, <2>1 DEF Locals
<1>8. CASE DiffRaises(w) \/ DiffInError(w)
  <2>1. run' = [run EXCEPT ![w].success = FALSE] /\ pc' = [pc EXCEPT ![w] = "close"]
    BY <1>8 DEF DiffRaises, DiffInError
  <2> QED
    BY <1>0, <1>1, <2>1 DEF Locals
<1>9. CASE Select(w) \/ Use(w) \/ UseRaises(w)
  <2>1. pc'[w] \in {"use", "close"} /\ run'[w].todo = run[w].todo
    BY <1>0, <1>9 DEF Select, Use, UseRaises, Locals
  <2> QED
    BY <1>1, <2>1
<1>10. CASE Finish(w) \/ ReadLog(w)
  <2>1. pc'[w] \in {"answer", "clear"} /\ run'[w].todo = run[w].todo
    BY <1>0, <1>10 DEF Finish, ReadLog, Return, Locals
  <2> QED
    BY <1>1, <2>1
<1>11. ~(Escape(w) \/ AnswerWithout(w) \/ ClearLog(w))
  BY <1>0 DEF Escape, AnswerWithout, ClearLog, Reply
<1> QED
  BY <1>2, <1>3, <1>4, <1>5, <1>6, <1>7, <1>8, <1>9, <1>10, <1>11 DEF Work

\* What a run has loaded it closes, whatever fails, or it was not compared.
LEMMA GoesOnClosed ==
  ASSUME Typed, OneThread, Numbered, OwnInv, PairsInv, NEW w \in Workers, ReportKept(w),
         OneStacked(w), ComparesOnce(w), RestClosed(w), Work(w), pc'[w] # "idle"
  PROVE  RestClosed(w)'
<1>0. pc \in [Workers -> Steps] /\ run \in [Workers -> Locals]
  BY DEF Typed, RunsTyped
<1>1. /\ pc[w] # "idle" /\ run'[w].request = run[w].request /\ made' = made
      /\ run[w].id = made /\ (Single(made)' => Single(made)) /\ OwnCurrent(w)
      /\ closed \subseteq closed'
  BY WorkNumbered, SingleBefore, StackFramed DEF Framed, OwnInv
<1> DEFINE Still(m) == /\ Ask(w).diff # None /\ ~run'[w].success
                       /\ \A p \in pairs' : p.id # made
                       /\ m.of \in {Ask(w).diff, "report"}
           Goal == \A m \in seen' : m.run = made =>
                      \/ m \in closed'
                      \/ pc'[w] \in Working /\ m \in TakenDown(w)'
                      \/ Still(m)
<1> SUFFICES ASSUME ~Ask(w).keepOpen, Single(made)'
             PROVE  Goal
  BY <1>1 DEF RestClosed, NotCompared, Ask
<1>2. ASSUME NEW m \in seen, m.run = made
      PROVE  m \in closed \/ (pc[w] \in Working /\ m \in TakenDown(w)) \/ NotCompared(w, m)
  BY <1>1, <1>2 DEF RestClosed
<1> USE DEF Working, GoTo
\* Most steps take no model from those that are taken down, nor compare.
<1>3. ASSUME pairs' = pairs, run'[w].success => run[w].success,
             NEW m \in seen, m.run = made,
             pc[w] \in Working => pc'[w] \in Working /\ TakenDown(w)' = TakenDown(w)
      PROVE  m \in closed' \/ (pc'[w] \in Working /\ m \in TakenDown(w)') \/ Still(m)
  BY <1>1, <1>2, <1>3 DEF NotCompared
<1>4. ASSUME pairs' = pairs, seen' = seen, run'[w].success => run[w].success,
             pc[w] \in Working => pc'[w] \in Working /\ TakenDown(w)' = TakenDown(w)
      PROVE  Goal
  BY <1>3, <1>4
<1>5. ASSUME Configure(w) \/ Parse(w) PROVE Goal
  <2>1. seen' = seen /\ \A m \in seen : m.run # made
    BY <1>5 DEF Configure, Parse, Numbered, manager
  <2> QED
    BY <2>1
<1>6. ASSUME Loaded(w) PROVE Goal
  <2>1. UNCHANGED <<seen, pairs>> /\ pc'[w] \in Working
    BY <1>6, LoadedParts, LoadedKeeps
  <2>2. /\ run'[w].model = run[w].model /\ run'[w].report = run[w].report
        /\ run'[w].success => run[w].success
    BY <1>6, LoadedKeeps
  <2>3. TakenDown(w)' = TakenDown(w)
    BY <1>1, <2>1, <2>2 DEF TakenDown
  <2> QED
    BY <1>4, <2>1, <2>2, <2>3
<1>7. ASSUME Finish(w) \/ ReadLog(w) PROVE Goal
  <2>1. UNCHANGED <<seen, pairs>> /\ pc[w] \notin Working
    BY <1>7 DEF Finish, ReadLog, Return, manager, history
  <2>2. run'[w].success => run[w].success
    <3>1. CASE ReadLog(w)
      BY <1>0, <3>1 DEF ReadLog, Locals
    <3>2. CASE Finish(w)
      <4>1. run'[w].success = (/\ run[w].success
                               /\ ~(Ask(w).exitCode /\ (run[w].invalid \/ errors # {})))
        BY <1>0, <3>2 DEF Finish, Return, Locals
      <4> QED
        BY <4>1
    <3> QED
      BY <1>7, <3>1, <3>2
  <2> QED
    BY <1>4, <2>1, <2>2
<1>8. ASSUME LoadRaises(w) PROVE Goal
  <2> DEFINE failed == [run[w] EXCEPT !.success = FALSE]
             r == [failed EXCEPT !.todo = Tail(@), !.model = None, !.report = None,
                                 !.queue = <<>>]
  <2>1. r.success = FALSE
    BY <1>0 DEF Locals
  <2>2. run' = [run EXCEPT ![w] = r] /\ pc[w] = "load" /\ UNCHANGED <<seen, pairs>>
    BY <1>8 DEF LoadRaises, NextEntry, manager
  <2> HIDE DEF r
  <2>3. run'[w].success = FALSE
    BY <1>0, <2>1, <2>2
  <2> QED
    BY <1>4, <2>2, <2>3
<1>9. ASSUME LoadNothing(w) PROVE Goal
  <2> DEFINE m == ModelOf(w, Entry(w))
  <2>1. /\ seen' = seen \cup {m} /\ pc[w] = "load" /\ pc'[w] = "close" /\ pairs' = pairs
        /\ run' = [run EXCEPT ![w].model = m, ![w].success = FALSE]
    BY <1>0, <1>9 DEF LoadNothing, Push, Range
  <2> HIDE DEF m
  <2>2. run'[w].model = m /\ run'[w].report = run[w].report /\ run'[w].success = FALSE
    BY <1>0, <2>1 DEF Locals
  <2>3. run[w].report = None
    BY <2>1 DEF ReportKept
  <2>4. m \in TakenDown(w)'
    BY <2>2, <2>3 DEF TakenDown
  <2>5. \A x \in seen : x.run = made =>
          x \in closed' \/ (pc'[w] \in Working /\ x \in TakenDown(w)') \/ Still(x)
    BY <1>3, <2>1, <2>2
  <2> QED
    BY <2>1, <2>4, <2>5
<1>10. ASSUME NEW targets \in SUBSET Targets, Load(w, targets) PROVE Goal
  <2> DEFINE m == ModelOf(w, Entry(w))
             others == Others(m, targets)
  <2>1. m \in Models /\ m.run = made /\ others \subseteq seen' /\ seen' = seen \cup others \cup {m}
    BY <1>1, <1>10, LoadPushes, ModelOfRun
  <2>2. others = {}
    <3> HIDE DEF m
    <3> QED
      BY <1>1, <2>1, SingleAlone
  <2>3. /\ run' = [run EXCEPT ![w].model = m] /\ pc[w] = "load" /\ pc'[w] = "loaded"
        /\ pairs' = pairs
    BY <1>0, <1>10 DEF Load
  <2> HIDE DEF m, others
  <2>4. /\ run'[w].model = m /\ run'[w].report = None /\ run'[w].success = run[w].success
    BY <1>0, <2>3 DEF Locals, ReportKept
  <2>5. m \in TakenDown(w)'
    BY <2>4 DEF TakenDown
  <2>6. \A x \in seen : x.run = made =>
          x \in closed' \/ (pc'[w] \in Working /\ x \in TakenDown(w)') \/ Still(x)
    BY <1>3, <2>3, <2>4
  <2> QED
    BY <2>1, <2>2, <2>3, <2>5, <2>6
\* Neither the second DTS nor the report was compared.
<1>11. ASSUME DiffRaises(w) PROVE Goal
  <2> DEFINE m == ModelOf(w, Ask(w).diff)
             report == ModelOf(w, "report")
  <2>1. /\ pc[w] = "diff" /\ pc'[w] = "close" /\ pairs' = pairs
        /\ run' = [run EXCEPT ![w].success = FALSE]
        /\ seen' \subseteq seen \cup {m, report}
    BY <1>0, <1>11 DEF DiffRaises, Push, Range
  <2>2. m.of = Ask(w).diff /\ report.of = "report"
    BY ModelOfRun
  <2> HIDE DEF m, report
  <2>3. /\ run'[w].model = run[w].model /\ run'[w].report = run[w].report
        /\ run'[w].success = FALSE
    BY <1>0, <2>1 DEF Locals
  <2>4. TakenDown(w)' = TakenDown(w)
    BY <1>1, <2>1, <2>3 DEF TakenDown
  <2>5. Ask(w).diff # None
    BY <1>1, <2>1, Running, RequestsAssumption DEF AtStep
  <2>6. Still(m) /\ Still(report)
    BY <1>1, <2>1, <2>2, <2>3, <2>5 DEF ComparesOnce
  <2>7. \A x \in seen : x.run = made =>
          x \in closed' \/ (pc'[w] \in Working /\ x \in TakenDown(w)') \/ Still(x)
    BY <1>3, <2>1, <2>3, <2>4
  <2> HIDE DEF Still
  <2> QED
    BY <2>1, <2>6, <2>7
<1>12. ASSUME DiffInError(w) PROVE Goal
  <2> DEFINE m == ModelOf(w, Ask(w).diff)
  <2>1. /\ pc[w] = "diff" /\ pc'[w] = "close" /\ pairs' = pairs
        /\ run' = [run EXCEPT ![w].success = FALSE]
        /\ seen' = seen \cup {m} /\ m \in closed'
    BY <1>0, <1>12 DEF DiffInError, Push, Range
  <2> HIDE DEF m
  <2>2. /\ run'[w].model = run[w].model /\ run'[w].report = run[w].report
        /\ run'[w].success = FALSE
    BY <1>0, <2>1 DEF Locals
  <2>3. TakenDown(w)' = TakenDown(w)
    BY <1>1, <2>1, <2>2 DEF TakenDown
  <2>4. \A x \in seen : x.run = made =>
          x \in closed' \/ (pc'[w] \in Working /\ x \in TakenDown(w)') \/ Still(x)
    BY <1>3, <2>1, <2>2, <2>3
  <2> QED
    BY <2>1, <2>4
<1>13. ASSUME NEW targets \in SUBSET Targets, Diff(w, targets) PROVE Goal
  <2> DEFINE m == ModelOf(w, Ask(w).diff)
             report == ModelOf(w, "report")
             others == Others(m, targets)
             p == [id |-> run[w].id, entry |-> run[w].model,
                   from |-> Last(stack \o SetToSeq(others)), to |-> m]
  <2>1. /\ m \in Models /\ report \in Models /\ m.run = made /\ others \subseteq seen'
        /\ seen' = seen \cup others \cup {m, report}
    BY <1>1, <1>13, DiffPushes, ModelOfRun
  <2>2. others = {}
    <3> HIDE DEF m
    <3> QED
      BY <1>1, <2>1, SingleAlone
  <2>3. /\ run' = [run EXCEPT ![w].report = report] /\ pc[w] = "diff" /\ pc'[w] = "select"
        /\ closed' = closed /\ pairs' = pairs \cup {p}
    BY <1>0, <1>13 DEF Diff
  <2>4. p.id = made /\ p.entry = run[w].model /\ p.to = m
    BY <1>1
  <2> HIDE DEF m, others, p
  <2>5. p.from = run[w].model
    <3>1. ComparesItsOwn'
      BY WorkPairs DEF PairsInv
    <3> QED
      BY <1>1, <2>3, <2>4, <3>1 DEF ComparesItsOwn
  <2>6. report # None
    BY <2>1, RequestsAssumption
  <2> HIDE DEF report
  <2>7. run'[w].report = report /\ run[w].report = None /\ run[w].success
    BY <1>0, <2>3 DEF Locals, ReportKept, ComparesOnce
  <2>8. {report, m, run[w].model} \subseteq TakenDown(w)'
    BY <1>1, <2>3, <2>4, <2>5, <2>6, <2>7 DEF TakenDown
  <2>9. \A x \in seen : x.run = made => x \in closed \/ x = run[w].model
    BY <1>2, <2>7 DEF TakenDown, NotCompared
  <2> QED
    BY <2>1, <2>2, <2>3, <2>8, <2>9
<1>14. ASSUME Select(w) PROVE Goal
  <2> DEFINE q == <<current>> \o SetToSeq(OthersOf(current))
  <2>1. /\ run' = [run EXCEPT ![w].queue = q] /\ pc[w] = "select" /\ pc'[w] = "use"
        /\ UNCHANGED <<seen, closed, pairs>>
    BY <1>0, <1>14 DEF Select, manager, history
  <2> HIDE DEF q
  <2>2. /\ run'[w].model = run[w].model /\ run'[w].report = run[w].report
        /\ run'[w].success = run[w].success
    BY <1>0, <2>1 DEF Locals
  <2>3. TakenDown(w)' = TakenDown(w)
    BY <1>1, <2>1, <2>2 DEF TakenDown
  <2> QED
    BY <1>4, <2>1, <2>2, <2>3
\* Without a report it is the run's own model that is validated or viewed.
<1>15. ASSUME Use(w) \/ UseRaises(w) PROVE Goal
  <2> DEFINE m == Head(run[w].queue)
             rest == Tail(run[w].queue)
  <2>1. pc[w] = "use" /\ m \in Range(run[w].queue)
    BY <1>1, <1>15, Running, HeadTailRange DEF Use, UseRaises, AtStep
  <2>2. Ask(w).diff = None => m = run[w].model
    BY <1>1, <2>1 DEF OneStacked
  <2>3. /\ pc'[w] \in Working /\ UNCHANGED <<seen, pairs>>
        /\ \/ run' = [run EXCEPT ![w].model = m, ![w].queue = rest]
           \/ run' = [run EXCEPT ![w].model = m, ![w].success = FALSE]
    BY <1>0, <1>15 DEF Use, UseRaises, manager
  <2> HIDE DEF m, rest
  <2>4. /\ run'[w].model = m /\ run'[w].report = run[w].report
        /\ run'[w].success => run[w].success
    BY <1>0, <2>3 DEF Locals
  <2>5. TakenDown(w)' = TakenDown(w)
    BY <1>1, <2>1, <2>2, <2>3, <2>4 DEF TakenDown, ReportKept
  <2> QED
    BY <1>4, <2>1, <2>3, <2>4, <2>5
<1>16. ASSUME Close(w) PROVE Goal
  <2> DEFINE both == UNION {{p.from, p.to} : p \in {q \in pairs : q.id = run[w].id}}
  <2>1. /\ IF run[w].report # None THEN Pop(run[w].report, both) ELSE Pop(run[w].model, {})
        /\ UNCHANGED <<seen, pairs>>
    BY <1>16 DEF Close, history
  <2>2. both = UNION {{p.from, p.to} : p \in {q \in pairs : q.id = made}}
    BY <1>1
  <2> HIDE DEF both
  <2>3. TakenDown(w) \subseteq closed'
    BY <2>1, <2>2 DEF TakenDown, Pop
  <2>4. run'[w].success = run[w].success
    BY <1>0, <1>16 DEF Close, NextEntry, Locals
  <2>5. \A m \in seen : m.run = made => m \in closed' \/ Still(m)
    BY <1>1, <1>2, <2>1, <2>3, <2>4 DEF NotCompared
  <2> QED
    BY <2>1, <2>5
<1>17. ~(Escape(w) \/ AnswerWithout(w) \/ ClearLog(w))
  BY <1>0 DEF Escape, AnswerWithout, ClearLog, Reply
<1> HIDE DEF Goal
<1> QED
  BY <1>5, <1>6, <1>7, <1>8, <1>9, <1>10, <1>11, <1>12, <1>13, <1>14, <1>15, <1>16, <1>17
     DEF Work

\* A step of a run leaves what earlier runs left, and what it leaves itself is as it
\* should be when it answers.
LEMMA WorkLeft ==
  ASSUME Typed, OneThread, Numbered, OwnInv, PairsInv, LeftInv, NEW w \in Workers, Work(w)
  PROVE  LeftInv'
<1>1. Framed(w) /\ pc[w] # "idle" /\ run[w].id = made /\ made' = made
  BY WorkNumbered DEF Framed
<1>2. closed \subseteq closed' /\ \A m \in Range(stack') : m \in Range(stack) \/ m.run = made
  BY StackFramed
<1>3. \A v \in Workers : v = w
  BY DEF OneThread
<1>a. pairs \subseteq pairs' /\ \A p \in pairs' : p \in pairs \/ p.id = made
  BY PairsFramed
<1>4. ReportKept(w)' /\ OneStacked(w)' /\ ComparesOnce(w)' /\ RestClosed(w)'
  <2>1. CASE pc'[w] = "idle"
    BY <2>1 DEF ReportKept, OneStacked, ComparesOnce, RestClosed
  <2> QED
    BY <2>1, GoesOnReport, GoesOnStacked, GoesOnOnce, GoesOnClosed DEF LeftInv
<1>5. ASSUME NEW a \in answers', ~a.request.keepOpen, Single(a.id)'
      PROVE  /\ a.request.diff = None => \A m \in Range(stack') : m \in seen' => m.run # a.id
             /\ \A m \in seen' : m.run = a.id /\ m \notin closed' =>
                  /\ a.request.diff # None /\ ~a.success /\ \A p \in pairs' : p.id # a.id
                  /\ m.of \in {a.request.diff, "report"}
  <2>1. CASE a \in answers
    <3>1. a.id # made /\ Single(a.id)
      BY <1>1, <1>5, <2>1, SingleBefore DEF Numbered
    <3>2. /\ a.request.diff = None => ModelsOf(a) \cap Range(stack) = {}
          /\ \A m \in ModelsOf(a) \ closed :
               /\ a.request.diff # None /\ ~a.success /\ \A p \in pairs : p.id # a.id
               /\ m.of \in {a.request.diff, "report"}
      BY <1>5, <2>1, <3>1 DEF LeftInv, NothingLeftOpen
    <3>3. Range(stack) \subseteq seen
      BY RangeOfSeq DEF Typed, ManagerTyped
    <3>4. \A m \in seen' : m.run = a.id => m \in seen
      BY <1>1, <3>1 DEF Framed
    <3> QED
      BY <1>2, <1>a, <3>1, <3>2, <3>3, <3>4 DEF ModelsOf
  <2>2. CASE a \notin answers
    <3>1. pc'[w] = "idle"
      BY <1>1, <2>2 DEF Framed
    <3>2. /\ a.id = made /\ a.request = Ask(w) /\ a.success = run[w].success
          /\ pc[w] \in {"answer", "clear"} /\ UNCHANGED <<stack, closed, seen, pairs>>
      BY <1>1, <2>2, <3>1, RunOver DEF Escape, AnswerWithout, ClearLog, Reply, manager,
                                       history
    <3>3. Single(made)
      BY <1>1, <1>5, <3>2, SingleBefore
    <3> QED
      BY <1>1, <1>5, <3>2, <3>3 DEF LeftInv, OneStacked, RestClosed, NotCompared, Working
  <2> QED
    BY <2>1, <2>2
<1>6. NothingLeftOpen'
  BY <1>5 DEF NothingLeftOpen, ModelsOf
<1>7. \A p \in pairs' : p.id \in 1..made'
  <2>1. made \in 1..made /\ made' = made
    BY <1>1, WorkNumbered
  <2> QED
    BY <1>a, <2>1 DEF LeftInv
<1> QED
  BY <1>3, <1>4, <1>6, <1>7 DEF LeftInv

\* Of one thread, a run that was not told to keep its models open leaves none of them on
\* the manager's stack, or, if it compares, none open, whichever of its steps failed and
\* whatever other runs keep open; with two exceptions.  It is not so of document sets with
\* further targets, and a comparison that raises leaves its second DTS and its report on
\* the stack, open: the run has then failed and has compared nothing.
THEOREM NothingStaysOpen ==
  ASSUME OneThread
  PROVE  Spec => []NothingLeftOpen
<1>1. Init => Typed /\ Numbered /\ OwnInv /\ PairsInv /\ LeftInv
  <2>1. Init => Typed
    BY TypedInit
  <2>2. Init => Numbered /\ OwnInv /\ PairsInv /\ LeftInv
    BY DEF Init, Numbered, OwnInv, OwnCurrent, AllUsed, UsesItsOwn, Checks, PairsInv,
           ComparesItsOwn, LeftInv, ReportKept, OneStacked, ComparesOnce, RestClosed,
           NothingLeftOpen
  <2> QED
    BY <2>1, <2>2
<1>2. ASSUME Typed, Numbered, PairsInv, [Next]_vars PROVE PairsInv'
  BY <1>2, NextPairs
<1>3. ASSUME Typed, Numbered, OwnInv, PairsInv, LeftInv, [Next]_vars PROVE LeftInv'
  <2>1. ASSUME UNCHANGED vars PROVE LeftInv'
    <3>1. UNCHANGED <<stack, closed, seen, made, pc, run, answers, pairs>>
      BY <2>1 DEF vars, manager, history
    <3> QED
      BY <1>3, <3>1 DEF LeftInv, ReportKept, OneStacked, ComparesOnce, RestClosed, TakenDown,
                        NotCompared, Once, Ask, Single, NothingLeftOpen, ModelsOf
  <2>2. ASSUME NEW w \in Workers, NEW r \in Requests, Begin(w, r) PROVE LeftInv'
    <3>1. /\ made' = made + 1 /\ made \in Nat /\ pc'[w] = "settings"
          /\ UNCHANGED <<stack, closed, seen, answers, pairs>>
      BY <1>3, <2>2, BeginNumbered DEF manager, history
    <3>2. (\A m \in seen : m.run # made') /\ Range(stack) \subseteq seen
      BY <1>3, <3>1, RangeOfSeq DEF Numbered, Typed, ManagerTyped
    <3>3. \A v \in Workers : v = w
      BY DEF OneThread
    <3>4. /\ run'[w].report = None /\ run'[w].todo = r.files /\ run'[w].request = r
          /\ r.diff # None => Len(r.files) = 1
      BY <1>3, <2>2, RequestTyped DEF Begin, Typed, RunsTyped, Idle
    <3>5. ReportKept(w)' /\ OneStacked(w)' /\ RestClosed(w)'
      BY <3>1, <3>2, <3>4 DEF ReportKept, OneStacked, RestClosed, Working
    <3>6. \A p \in pairs' : p.id \in 1..made' /\ p.id # made'
      BY <1>3, <3>1 DEF LeftInv
    <3>7. ComparesOnce(w)'
      <4>1. run'[w].request.diff # None => Len(run'[w].todo) =< 1
        <5>1. r.diff # None => Len(r.files) =< 1
          <6> DEFINE n == Len(r.files)
          <6>1. r.diff # None => n = 1
            BY <3>4
          <6> HIDE DEF n
          <6>2. r.diff # None => n =< 1
            BY <6>1
          <6> QED
            BY <6>2 DEF n
        <5> QED
          BY <3>4, <5>1
      <4> QED
        BY <3>1, <3>6, <4>1 DEF ComparesOnce, Ask
    <3>8. NothingLeftOpen'
      BY <1>3, <3>1 DEF LeftInv, NothingLeftOpen, ModelsOf, Single
    <3> QED
      BY <3>3, <3>5, <3>6, <3>7, <3>8 DEF LeftInv
  <2>3. ASSUME NEW w \in Workers, Work(w) PROVE LeftInv'
    BY <1>3, <2>3, WorkLeft
  <2> QED
    BY <1>3, <2>1, <2>2, <2>3 DEF Next
<1>4. Typed /\ Numbered /\ OwnInv /\ PairsInv /\ LeftInv /\ [Next]_vars
        => (Typed /\ Numbered /\ OwnInv /\ PairsInv /\ LeftInv)'
  BY <1>2, <1>3, TypedNext, NumberedNext, OwnNext
<1>5. LeftInv => NothingLeftOpen
  BY DEF LeftInv
<1> QED
  BY <1>1, <1>4, <1>5, PTL DEF Spec


-----------------------------------------------------------------------------
(* The manager of a GUI *)

GuiProof == INSTANCE ModelManagerProof WITH
              current <- guiCurrent, made <- guiMade, closed <- guiClosed, pc <- guiPc

\* StackConsistent: whatever the threads of a GUI do, as long as no calls overlap
\* the stack is the open models in the order of their loads.
THEOREM GuiStackConsistent == UsesSpec => []StackConsistent
<1> USE DEF Gui!Models, GuiProof!Models
<1>1. ASSUME NEW s, NEW e
      PROVE  /\ Gui!ToSet(s) = ToSet(s) /\ GuiProof!ToSet(s) = ToSet(s)
             /\ Gui!Last(s) = Last(s) /\ GuiProof!Last(s) = Last(s)
             /\ Gui!RemoveFirst(s, e) = GuiProof!RemoveFirst(s, e)
  BY DEF Gui!ToSet, GuiProof!ToSet, ToSet, Gui!Last, GuiProof!Last, Last,
         Gui!RemoveFirst, GuiProof!RemoveFirst, Gui!SelectInSeq, GuiProof!SelectInSeq,
         Gui!RemoveAt, GuiProof!RemoveAt, Gui!Min, GuiProof!Min
<1>2. Gui!Inside = GuiProof!Inside
  BY DEF Gui!Inside, GuiProof!Inside
<1>3. Gui!MakeCurrent = GuiProof!MakeCurrent
  BY DEF Gui!MakeCurrent, GuiProof!MakeCurrent
<1>4. Gui!Init => GuiProof!Init
  BY DEF Gui!Init, GuiProof!Init
<1>5. ASSUME NEW t \in Threads
      PROVE  /\ Gui!Leave(t) <=> GuiProof!Leave(t)
             /\ \A label : Gui!Enter(t, label) <=> GuiProof!Enter(t, label)
  BY <1>2 DEF Gui!Leave, GuiProof!Leave, Gui!Enter, GuiProof!Enter
<1>6. ASSUME NEW m PROVE Gui!Closing(m) = GuiProof!Closing(m)
  BY DEF Gui!Closing, GuiProof!Closing
<1>7. ASSUME Gui!Next PROVE GuiProof!Next
  <2>1. PICK t \in Threads :
           \/ Gui!Load(t) \/ Gui!CompareDTSes(t) \/ Gui!AppendCurrent(t)
           \/ Gui!DiffDTSes(t) \/ Gui!DiffFails(t)
           \/ \E m \in ToSet(loaded) \cup {guiCurrent} : Gui!Close(t, m)
           \/ Gui!TestLoaded(t) \/ Gui!RemoveLoaded(t) \/ Gui!Dereference(t)
           \/ Gui!CloseModel(t)
           \/ loaded # <<>> /\ Gui!CloseDirectly(t, Last(loaded))
    BY <1>1, <1>7 DEF Gui!Next
  <2>2. Gui!Load(t) => GuiProof!Load(t)
    BY <1>3, <1>5 DEF Gui!Load, GuiProof!Load
  <2>3. Gui!CompareDTSes(t) => GuiProof!CompareDTSes(t)
    BY <1>3, <1>5 DEF Gui!CompareDTSes, GuiProof!CompareDTSes
  <2>4. Gui!AppendCurrent(t) => GuiProof!AppendCurrent(t)
    BY <1>5 DEF Gui!AppendCurrent, GuiProof!AppendCurrent
  <2>5. Gui!DiffDTSes(t) => GuiProof!DiffDTSes(t)
    BY <1>5 DEF Gui!DiffDTSes, GuiProof!DiffDTSes
  <2>6. Gui!DiffFails(t) => GuiProof!DiffFails(t)
    BY <1>5 DEF Gui!DiffFails, GuiProof!DiffFails
  <2>7. ASSUME NEW m PROVE Gui!Close(t, m) => GuiProof!Close(t, m)
    BY <1>5 DEF Gui!Close, GuiProof!Close
  <2>8. Gui!TestLoaded(t) => GuiProof!TestLoaded(t)
    <3>1. Gui!ToSet(loaded) = GuiProof!ToSet(loaded)
      BY <1>1
    <3> QED
      BY <3>1, Zenon DEF Gui!TestLoaded, GuiProof!TestLoaded
  <2>9. Gui!RemoveLoaded(t) => GuiProof!RemoveLoaded(t)
    <3>1. Gui!ToSet(loaded) = GuiProof!ToSet(loaded)
      BY <1>1
    <3>2. Gui!RemoveFirst(loaded, arg[t]) = GuiProof!RemoveFirst(loaded, arg[t])
      BY <1>1
    <3> QED
      BY <1>5, <3>1, <3>2, Zenon DEF Gui!RemoveLoaded, GuiProof!RemoveLoaded
  <2>10. Gui!Dereference(t) => GuiProof!Dereference(t)
    BY DEF Gui!Dereference, GuiProof!Dereference
  <2>11. Gui!CloseModel(t) => GuiProof!CloseModel(t)
    BY <1>5, <1>6 DEF Gui!CloseModel, GuiProof!CloseModel
  <2>12. ASSUME NEW m PROVE Gui!CloseDirectly(t, m) => GuiProof!CloseDirectly(t, m)
    BY <1>6 DEF Gui!CloseDirectly, GuiProof!CloseDirectly
  <2> QED
    BY <1>1, <2>1, <2>2, <2>3, <2>4, <2>5, <2>6, <2>7, <2>8, <2>9, <2>10, <2>11, <2>12
       DEF GuiProof!Next
<1>8. UsesSpec => GuiProof!Spec
  <2>1. UsesInit => GuiProof!Init
    BY <1>4 DEF UsesInit
  <2>2. [UsesNext]_<<gui, vars, guiVars>> => [GuiProof!Next]_(GuiProof!vars)
    BY <1>7 DEF UsesNext, guiVars, GuiProof!vars
  <2> QED
    BY <2>1, <2>2, PTL DEF UsesSpec, GuiProof!Spec
<1>9. GuiProof!Spec => [](GuiProof!TypeOK /\ GuiProof!StackConsistent)
  BY ThreadsAssumption, GuiProof!StackHoldsTheOpenModels
<1>10. GuiProof!TypeOK /\ GuiProof!StackConsistent => StackConsistent
  BY <1>1, <1>2 DEF GuiProof!TypeOK, GuiProof!StackConsistent, GuiProof!Quiet,
              StackConsistent, Gui!TypeOK, Gui!StackConsistent, Gui!Quiet
<1> QED
  BY <1>8, <1>9, <1>10, PTL
=============================================================================
