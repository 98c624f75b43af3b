------------------------------ MODULE FormulaRun ------------------------------
(***************************************************************************)
(* The execution of the formulas of a report (validate in                     *)
(* arelle/formula/ValidateFormula.py, evaluate and bindVariables in            *)
(* arelle/formula/FormulaEvaluator.py): variable sets are evaluated one after   *)
(* the other, each with the variables in scope of its own and, for each        *)
(* evaluation, with the sets chained to it by variables-scope relationships.    *)
(* A timer thread per set, and one for all, raise a flag that the evaluation   *)
(* polls; an expression may raise an XPathException at any time.              *)
(*                                                                         *)
(* Which facts a variable takes is in VariableSets: here a variable has any    *)
(* number of results.  A value in scope is known by the set that gave it.     *)
(* Left out: parameters of existence assertions, output facts, messages, and   *)
(* the choice of sets by their identifiers.                                  *)
(***************************************************************************)
EXTENDS Integers, Sequences

CONSTANTS
    Names,       \* of variables, parameters and results
    Sets,        \* variable sets
    TopSets,     \* sequence of those that are not chained to another one
    Variables,   \* set -> sequence of its variables' names
    Chained,     \* set -> sequence of the sets chained to it, [set, result : a name or None]
    Parameters,  \* names in scope from the beginning
    MaxResults,  \* of a variable
    None

ASSUME FormulaAssumption ==
    /\ TopSets \in Seq(Sets) /\ Variables \in [Sets -> Seq(Names)]
    /\ Chained \in [Sets -> Seq([set : Sets, result : Names \cup {None}])]
    /\ MaxResults \in Nat /\ None \notin Names \cup Sets

VARIABLES
    limited,     \* what has a time limit: set (each variable set), report
    at,          \* number of sets that were started
    pc,          \* next, bind, results, chained, ended, done
    frames,      \* calls of evaluate, the innermost last: [set, open |-> its variables,
                 \* chained |-> which chained set it evaluates, over |-> what a result hides]
    scope,       \* inScopeVars: name -> who gave the value
    bindings,    \* varBindings: name -> the set that bound it
    saved,       \* savedInScopeVars
    timers,      \* of each set and, at 0, of the report
    setExceeded, \* isVariableSetRunTimeExceeded
    exceeded,    \* isRunTimeExceeded
    timedOut,    \* sets reported as formula:varSetTimeout
    calledIn,    \* timer -> the set that was evaluated, or started next, at its callback
    raised       \* whether an XPathException was raised: here (in this set), ever

vars == <<limited, at, pc, frames, scope, bindings, saved, timers, setExceeded, exceeded,
          timedOut, calledIn, raised>>

Timers == 0..Len(TopSets)
InScope == [n \in Names |-> IF n \in Parameters THEN "parameter" ELSE None]
Unbound == [n \in Names |-> None]

Init ==
    /\ limited \in [set : BOOLEAN, report : BOOLEAN]
    /\ at = 0 /\ pc = "next" /\ frames = <<>>
    /\ scope = InScope /\ bindings = Unbound /\ saved = InScope
    /\ timers = [t \in Timers |-> IF t = 0 /\ limited.report THEN "waiting" ELSE "none"]
    /\ setExceeded = FALSE /\ exceeded = FALSE
    /\ timedOut = {} /\ calledIn = [t \in Timers |-> 0]
    /\ raised = [here |-> FALSE, ever |-> FALSE]

------------------------------------------------------------------------------
\* Timer.run: the wait ends and nobody has cancelled; then the callback.  Timer.cancel
\* stops a timer that waits; one whose wait has ended goes on to its callback.

Elapse(t) ==
    /\ timers[t] = "waiting"
    /\ timers' = [timers EXCEPT ![t] = "elapsed"]
    /\ UNCHANGED <<limited, at, pc, frames, scope, bindings, saved, setExceeded, exceeded,
                   timedOut, calledIn, raised>>

Callback(t) ==
    /\ timers[t] = "elapsed"
    /\ timers' = [timers EXCEPT ![t] = "called"]
    /\ calledIn' = [calledIn EXCEPT ![t] = IF pc = "next" THEN at + 1 ELSE at]
    /\ IF t = 0 THEN exceeded' = TRUE /\ UNCHANGED setExceeded
                ELSE setExceeded' = TRUE /\ UNCHANGED exceeded
    /\ UNCHANGED <<limited, at, pc, frames, scope, bindings, saved, timedOut, raised>>

Cancelled(t) == [timers EXCEPT ![t] = IF @ = "waiting" THEN "cancelled" ELSE @]

------------------------------------------------------------------------------
\* Variable sets, one after the other

Nothing == [value |-> None, binding |-> None]
NewFrame(s) == [set |-> s, open |-> <<>>, chained |-> 0, over |-> Nothing]

StartSet ==
    /\ pc = "next" /\ at < Len(TopSets)
    /\ at' = at + 1
    /\ timers' = IF limited.set THEN [timers EXCEPT ![at + 1] = "waiting"] ELSE timers
    /\ saved' = scope
    /\ bindings' = Unbound
    /\ frames' = <<NewFrame(TopSets[at + 1])>>
    /\ raised' = [raised EXCEPT !.here = FALSE]
    /\ pc' = "bind"
    /\ UNCHANGED <<limited, scope, setExceeded, exceeded, timedOut, calledIn>>

\* The last set has ended.
FinishReport ==
    /\ pc = "next" /\ at = Len(TopSets)
    /\ timers' = Cancelled(0)
    /\ pc' = "done"
    /\ UNCHANGED <<limited, at, frames, scope, bindings, saved, setExceeded, exceeded,
                   timedOut, calledIn, raised>>

\* Mutant of Finally: the flag is not cleared.
FinallyExceeded == timers' = Cancelled(at) /\ UNCHANGED setExceeded

\* The finally clause of a set.
Finally == timers' = Cancelled(at) /\ setExceeded' = FALSE

\* A set ends by an exception that evaluate does not catch.
LeaveSet ==
    /\ Finally
    /\ frames' = <<>>
    /\ UNCHANGED <<limited, at, bindings, saved, exceeded, calledIn, raised>>

\* Mutant of SetTimesOut: the scope is left as the evaluation had it.
SetTimesOutInPlace ==
    LeaveSet /\ timedOut' = timedOut \cup {at} /\ pc' = "next" /\ UNCHANGED scope

\* VariableSetRunTimeExceededException; the variables in scope are those of before.
SetTimesOut ==
    /\ LeaveSet
    /\ timedOut' = timedOut \cup {at}
    /\ scope' = saved
    /\ pc' = "next"

\* RunTimeExceededException
ReportTimesOut ==
    /\ LeaveSet
    /\ pc' = "done"
    /\ UNCHANGED <<scope, timedOut>>

\* A poll of the two flags; Otherwise has the rest of the step.
Polled(Otherwise) ==
    \/ exceeded /\ ReportTimesOut
    \/ ~exceeded /\ setExceeded /\ SetTimesOut
    \/ ~exceeded /\ ~setExceeded /\ Otherwise

------------------------------------------------------------------------------
\* The evaluation of a set: the innermost frame

Depth == Len(frames)
Frame == frames[Depth]
Open == Frame.open
MyVariables == Variables[Frame.set]
Unchanged == UNCHANGED <<limited, at, saved, timers, setExceeded, exceeded, timedOut, calledIn>>

\* bindVariables: the values of the next variable are found, and it is bound over what
\* had its name.
Bind ==
    /\ pc = "bind" /\ Len(Open) < Len(MyVariables)
    /\ LET n == MyVariables[Len(Open) + 1]
       IN  \E k \in 0..MaxResults :
              /\ frames' = [frames EXCEPT ![Depth].open =
                                Append(@, [name |-> n, left |-> k, binding |-> bindings[n], value |-> None])]
              /\ bindings' = [bindings EXCEPT ![n] = Frame.set]
    /\ pc' = "results"
    /\ UNCHANGED <<scope, raised>> /\ Unchanged

\* An open variable with one result less, over what had its name.
Over(e) == [e EXCEPT !.left = @ - 1, !.value = scope[e.name]]

\* The next result is in scope.
NextResult ==
    /\ pc = "results"
    /\ LET i == Len(Open)
           n == Open[i].name
       IN  /\ Open[i].left > 0
           /\ Polled(/\ frames' = [frames EXCEPT ![Depth].open[i] = Over(@)]
                     /\ scope' = [scope EXCEPT ![n] = Frame.set]
                     /\ pc' = "bind"
                     /\ UNCHANGED <<bindings, raised>> /\ Unchanged)

\* The scope when the result of the last of some open variables has been evaluated.
ScopeAfter(open) ==
    IF open = <<>> THEN scope
    ELSE [scope EXCEPT ![open[Len(open)].name] = open[Len(open)].value]

\* The variables after it are evaluated: a result is popped.
ResultEnds ==
    /\ scope' = ScopeAfter(Open)
    /\ pc' = IF Open = <<>> THEN "ended" ELSE "results"
    /\ UNCHANGED <<bindings, frames, raised>> /\ Unchanged

\* There are no more results: the binding is popped, and with it the result of the
\* variable before.
VariableEnds ==
    /\ pc = "results"
    /\ LET i == Len(Open)
           before == SubSeq(Open, 1, i - 1)
       IN  /\ Open[i].left = 0
           /\ bindings' = [bindings EXCEPT ![Open[i].name] = Open[i].binding]
           /\ frames' = [frames EXCEPT ![Depth].open = before]
           /\ scope' = ScopeAfter(before)
           /\ pc' = IF before = <<>> THEN "ended" ELSE "results"
    /\ UNCHANGED raised /\ Unchanged

AllBound == pc = "bind" /\ Len(Open) = Len(MyVariables)

\* evaluateVariableBindings: the evaluation is of fallbacks only, or an existence assertion
\* counts it; or it is like another one or its precondition is not met, which polls the flags.
PassOver == AllBound /\ (ResultEnds \/ Polled(ResultEnds))

\* The expression is evaluated; the flag of the report is polled.
Evaluate ==
    /\ AllBound
    /\ \/ exceeded /\ ReportTimesOut
       \/ /\ ~exceeded
          /\ frames' = [frames EXCEPT ![Depth].chained = 1]
          /\ pc' = "chained"
          /\ UNCHANGED <<scope, bindings, raised>> /\ Unchanged

\* The sets chained to it: a result may be in scope and bound over what had its name.
EvaluateChained ==
    /\ pc = "chained" /\ Frame.chained <= Len(Chained[Frame.set])
    /\ LET c == Chained[Frame.set][Frame.chained]
           over == IF c.result = None THEN Nothing
                   ELSE [value |-> scope[c.result], binding |-> bindings[c.result]]
       IN  /\ frames' = Append([frames EXCEPT ![Depth].over = over], NewFrame(c.set))
           /\ IF c.result = None THEN UNCHANGED <<scope, bindings>>
              ELSE /\ scope' = [scope EXCEPT ![c.result] = Frame.set]
                   /\ bindings' = [bindings EXCEPT ![c.result] = Frame.set]
    /\ pc' = "bind"
    /\ UNCHANGED raised /\ Unchanged

EvaluationEnds ==
    /\ pc = "chained" /\ Frame.chained > Len(Chained[Frame.set])
    /\ ResultEnds

\* evaluate ends, with the scope and bindings it has then.
EvaluateReturns(scopeNow, bindingsNow) ==
    IF Depth = 1
    THEN /\ pc' = "next"
         /\ scope' = scopeNow /\ bindings' = Unbound
         /\ Finally
         /\ frames' = <<>>
         /\ UNCHANGED <<limited, at, saved, exceeded, timedOut, calledIn>>
    ELSE LET outer == frames[Depth - 1]
             n == Chained[outer.set][outer.chained].result
         IN  /\ pc' = "chained"
             /\ scope' = IF n = None THEN scopeNow ELSE [scopeNow EXCEPT ![n] = outer.over.value]
             /\ bindings' = IF n = None THEN bindingsNow
                            ELSE [bindingsNow EXCEPT ![n] = outer.over.binding]
             /\ frames' = [SubSeq(frames, 1, Depth - 1) EXCEPT ![Depth - 1].chained = @ + 1]
             /\ Unchanged

Return == pc = "ended" /\ EvaluateReturns(scope, bindings) /\ UNCHANGED raised

\* An XPathException of a variable, its next sequence of facts, a precondition or an
\* expression is caught by the innermost evaluate: what is bound and in scope stays so.
Raise ==
    /\ pc \in {"bind", "results"}
    /\ EvaluateReturns(scope, bindings)
    /\ raised' = [here |-> TRUE, ever |-> TRUE]

Next ==
    \/ \E t \in Timers : Elapse(t) \/ Callback(t)
    \/ StartSet \/ FinishReport
    \/ Bind \/ NextResult \/ VariableEnds
    \/ PassOver \/ Evaluate \/ EvaluateChained \/ EvaluationEnds
    \/ Return \/ Raise

Spec == Init /\ [][Next]_vars

------------------------------------------------------------------------------
\* Who gave a name its value: the innermost set that has a variable of this name open,
\* or whose result it is while a set chained to it is evaluated.
Gives(k, n) ==
    \/ \E i \in 1..Len(frames[k].open) : frames[k].open[i].name = n
    \/ k < Len(frames) /\ Chained[frames[k].set][frames[k].chained].result = n
Givers(n) == {k \in 1..Len(frames) : Gives(k, n)}
Giver(n) == frames[CHOOSE k \in Givers(n) : \A j \in Givers(n) : j <= k].set

\* An expression sees its own variables, those of the sets around it and else the
\* parameters, also after sets that timed out ("restore overridden value if there was
\* one"), but for what an XPathException has left behind.
ScopeRight ==
    pc \in {"bind", "next"} =>
        \A n \in Names :
            IF Givers(n) # {}
            THEN raised.here \/ (scope[n] = Giver(n) /\ bindings[n] = Giver(n))
            ELSE /\ raised.ever \/ scope[n] = InScope[n]
                 /\ raised.here \/ pc = "next" \/ bindings[n] = None

\* A set times out because a timer expired while it was evaluated: its own, or one of a
\* set before it that was on its way to the callback when it was cancelled.
TimeoutHasCause ==
    \A k \in timedOut : \E t \in 1..k : calledIn[t] = k
=============================================================================
