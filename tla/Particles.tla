------------------------------ MODULE Particles ------------------------------
(***************************************************************************)
(* The content of an element against the particles of its type                *)
(* (arelle/XmlValidateParticles.py), and the check that the particles of a     *)
(* type are not ambiguous.                                                   *)
(*                                                                         *)
(* A particle is an element [kind, name, min, max] or a group [kind,           *)
(* particles, min, max], where kind is "element", "sequence", "choice" or     *)
(* "all"; a type is a group of kind "type".  The particles of an xs:all are    *)
(* elements that occur at most once.  xs:any, substitution and the validation  *)
(* of the children themselves are left out.                                  *)
(***************************************************************************)
EXTENDS Integers, SequencesExt

CONSTANT Unbounded \* sys.maxsize, more than any number of children

IsGroup(p) == p.kind # "element"

\* What validateElementSequence returns: the next child, whether the group occurred
\* and whether it describes an error; or it does not return.
Result(next, occurred, error) ==
    [next |-> next, occurred |-> occurred, error |-> error, loops |-> FALSE]
Loops == [next |-> 0, occurred |-> FALSE, error |-> FALSE, loops |-> TRUE]

\* The occurrences of a particle, the child after them, and the error of the last
\* group that was tried.
Occurrences(n, next, error) ==
    [n |-> n, next |-> next, error |-> error, loops |-> FALSE]
LoopsIn == [n |-> 0, next |-> 0, error |-> FALSE, loops |-> TRUE]

Within(p, n) == p.min <= n /\ n <= p.max

\* Children of the name of the element, as many as may occur.
ElementOccurrences(p, children, next, error) ==
    LET Are(n) == \A k \in 1..n : children[next + k] = p.name
        possible == {n \in 0..(Len(children) - next) : n <= p.max /\ Are(n)}
        n == CHOOSE m \in possible : \A l \in possible : l <= m
    IN  Occurrences(n, next + n, error)

\* The passes over an xs:all: each looks for the first particle that is within its
\* bounds; one that is, without a child, is found again in the next pass.
RECURSIVE AllPasses(_, _, _, _)
AllPasses(all, children, next, found) ==
    LET ps == all.particles
        Matches(k) == next < Len(children) /\ children[next + 1] = ps[k].name
        first == SelectInSeq([k \in DOMAIN ps |-> k], LAMBDA k : Matches(k) \/ ps[k].min = 0)
    IN  IF first = 0 THEN IF found = DOMAIN ps THEN Result(next, TRUE, FALSE)
                          ELSE Result(next, FALSE, TRUE)
        ELSE IF Matches(first) THEN AllPasses(all, children, next + 1, found \cup {first})
        ELSE Loops

\* Mutant of Resumes: the next alternative starts where the last one failed.
ResumesAfter(start, next) == next

\* Where the next alternative of a choice starts.
Resumes(start, next) == start

RECURSIVE ValidateElementSequence(_, _, _), GroupOccurrences(_, _, _, _),
          SequenceFrom(_, _, _, _, _), ChoiceFrom(_, _, _, _, _)

\* A group is tried until it does not occur, occurs as often as it may, or the
\* children end; one that may be left out, also when nothing of it occurs.
GroupOccurrences(p, children, next, n) ==
    LET r == ValidateElementSequence(p, children, next)
    IN  CASE r.loops -> LoopsIn
          [] ~r.loops /\ ~r.occurred -> Occurrences(n, r.next, r.error)
          [] ~r.loops /\ r.occurred /\ r.next = next /\ p.min = 0 -> Occurrences(n, next, FALSE)
          [] ~r.loops /\ r.occurred /\ ~(r.next = next /\ p.min = 0) ->
               IF n + 1 = p.max \/ r.next >= Len(children)
               THEN Occurrences(n + 1, r.next, FALSE)
               ELSE IF r.next = next /\ p.max = Unbounded THEN LoopsIn
               ELSE GroupOccurrences(p, children, r.next, n + 1)

Occur(p, children, next, error) ==
    IF IsGroup(p) THEN GroupOccurrences(p, children, next, 0)
    ELSE ElementOccurrences(p, children, next, error)

\* The particles of a sequence or of a type, from the k-th on.
SequenceFrom(c, children, k, next, error) ==
    IF k > Len(c.particles)
    THEN IF c.kind = "type" /\ next < Len(children) THEN Result(next, FALSE, TRUE)
         ELSE Result(next, TRUE, FALSE)
    ELSE LET p == c.particles[k]
             o == Occur(p, children, next, error)
         IN  IF o.loops THEN Loops
             ELSE IF (p.min > 0 /\ o.error) \/ ~Within(p, o.n) THEN Result(o.next, FALSE, TRUE)
             ELSE SequenceFrom(c, children, k + 1, o.next, o.error)

\* The alternatives of a choice, from the k-th on: the first one that occurs within
\* its bounds is selected; without one it occurs if an alternative is optional.
ChoiceFrom(c, children, k, start, next) ==
    IF k > Len(c.particles)
    THEN Result(next, \E j \in DOMAIN c.particles : c.particles[j].min = 0, FALSE)
    ELSE LET p == c.particles[k]
             o == Occur(p, children, next, FALSE)
         IN  IF o.loops THEN Loops
             ELSE IF o.n > 0 /\ Within(p, o.n) THEN Result(o.next, TRUE, FALSE)
             ELSE ChoiceFrom(c, children, k + 1, start, Resumes(start, o.next))

ValidateElementSequence(c, children, next) ==
    CASE c.kind = "all" -> AllPasses(c, children, next, {})
      [] c.kind = "choice" -> ChoiceFrom(c, children, 1, next, next)
      [] c.kind \in {"sequence", "type"} -> SequenceFrom(c, children, 1, next, FALSE)

\* XmlValidate.validate reports the error that is described, whatever occurred.
Verdict(type, children) ==
    LET r == ValidateElementSequence(type, children, 0)
    IN  IF r.loops THEN "loops" ELSE IF r.error THEN "invalid" ELSE "valid"

\* validateUniqueParticleAttribution: between an element and the last one of its
\* name there is something required, the earlier one included.
RECURSIVE UniqueAttribution(_)
UniqueAttribution(c) ==
    LET ps == c.particles
        Prior(i) == {j \in 1..(i - 1) : ~IsGroup(ps[j]) /\ ps[j].name = ps[i].name}
        Separated(i) ==
            LET last == CHOOSE j \in Prior(i) : \A k \in Prior(i) : k <= j
            IN  c.kind \notin {"choice", "all"} /\ \E j \in last..(i - 1) : ps[j].min > 0
    IN  \A i \in DOMAIN ps :
            IF IsGroup(ps[i]) THEN UniqueAttribution(ps[i])
            ELSE Prior(i) # {} => Separated(i)

------------------------------------------------------------------------------
\* XML Schema: the positions at which a particle may end that starts at one of a set
\* of positions, once and as often as it may occur.

RECURSIVE Once(_, _, _), Times(_, _, _)
Once(p, children, starts) ==
    LET Then(ends, q) == Times(q, children, ends)
    IN  CASE p.kind = "element" ->
               {i + 1 : i \in {j \in starts : j < Len(children) /\ children[j + 1] = p.name}}
          [] p.kind = "choice" ->
               UNION {Times(p.particles[k], children, starts) : k \in DOMAIN p.particles}
          [] p.kind = "all" ->
               UNION {FoldLeft(Then, starts, s) : s \in SetToSeqs(Range(p.particles))}
          [] p.kind \in {"sequence", "type"} -> FoldLeft(Then, starts, p.particles)
Times(p, children, starts) ==
    LET most == p.min + Len(children)
        After[n \in 0..most] == IF n = 0 THEN starts ELSE Once(p, children, After[n - 1])
    IN  UNION {After[n] : n \in {m \in p.min..most : m <= p.max}}

InLanguage(p, children) == Len(children) \in Times(p, children, {0})
Emptiable(p) == InLanguage(p, <<>>)

RECURSIVE Groups(_), ElementNames(_)
Groups(c) == {c} \cup UNION {Groups(p) : p \in {q \in Range(c.particles) : IsGroup(q)}}
ElementNames(c) == FoldLeft(LAMBDA s, p : s \o (IF IsGroup(p) THEN ElementNames(p) ELSE <<p.name>>),
                     <<>>, c.particles)

IsFlat(g) == \A p \in Range(g.particles) : ~IsGroup(p)
Repeated(g) == {p \in Range(g.particles) :
                  ~IsGroup(p) /\ Len(SelectSeq(ElementNames(g), LAMBDA n : n = p.name)) > 1}

\* The types for which the verdict is right: no xs:all, only choices occur other than
\* once, an alternative that is a group is not emptiable; and an element is declared
\* once, or in a sequence of elements, one at a time, if the declarations are unique.
Regular(type) ==
    /\ \A g \in Groups(type) :
         /\ g.kind # "all"
         /\ g.kind = "sequence" => g.min = 1 /\ g.max = 1
         /\ g.kind = "choice" => \A p \in Range(g.particles) : IsGroup(p) => ~Emptiable(p)
    /\ \/ IsInjective(ElementNames(type))
       \/ \A g \in Groups(type) \ {type} :
            /\ IsFlat(g) /\ g.min = 1 /\ g.max = 1
            /\ UniqueAttribution(g)
            /\ \A p \in Repeated(g) : p.max = 1

\* The types for which the algorithm may not come to an end: an xs:all with an
\* optional element, and a required group that is empty any number of times.
OptionalInAll(type) ==
    \E g \in Groups(type) : g.kind = "all" /\ \E p \in Range(g.particles) : p.min = 0
Endless(type) ==
    \/ OptionalInAll(type)
    \/ \E g \in Groups(type) : g.kind # "type" /\ g.max = Unbounded /\ g.min > 0 /\ Emptiable(g)

\* For a regular type the verdict is that of XML Schema, if there is one.  With an
\* xs:all of required elements valid content is accepted, and what is accepted by one
\* that is required has each of the elements and no other, although maybe several
\* times.  A verdict is missing only for the types of Endless.
VerdictRight(type, children) ==
    LET verdict == Verdict(type, children)
        alls == {g \in Groups(type) : g.kind = "all"}
    IN  /\ verdict = "loops" => Endless(type)
        /\ Regular(type) /\ verdict # "loops" =>
             (verdict = "valid" <=> InLanguage(type, children))
        /\ alls # {} /\ ~OptionalInAll(type) =>
             /\ InLanguage(type, children) => verdict = "valid"
             /\ verdict = "valid" /\ (\A g \in alls : g.min > 0) => Range(children) = Range(ElementNames(type))
=============================================================================
